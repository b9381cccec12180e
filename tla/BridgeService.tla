--------------------------- MODULE BridgeService ---------------------------
(* The life of a bridge: Service (bridge/service) and the CoAP servers of   *)
(* its Net (bridge/net).  New opens a socket per address; goroutines of the *)
(* application serve, create and delete devices, and shut the service down, *)
(* in any order and at the same time.                                       *)
EXTENDS Integers, FiniteSets

CONSTANTS
    Procs,     \* goroutines of the application
    Unicast, Multicast, \* numbers of sockets
    Ids, Objs, \* IDs of devices, and devices; one that was closed is used again
    None

ASSUME SocketsAssumption == Unicast \in Nat \ {0} /\ Multicast \in Nat
ASSUME NoDeviceAssumption == None \notin Objs
ASSUME ProcsAssumption == Procs \intersect {None, "done"} = {} /\ None # "done"

Sockets == 1..(Unicast + Multicast)

VARIABLES
    state,   \* where New is: "new", "ready" or "failed"
    sock,    \* a socket: "none", "open" or "closed"
    serving, stopped, \* of Net
    server,  \* the goroutine that serves a socket
    stopping,\* sockets whose server was told to stop
    at,      \* where a goroutine of the application is
    devices, \* Service.devices
    open,    \* devices that have been created and not been closed
    mine,    \* devices a goroutine has taken out and is about to close
    \* history
    shutter, \* the goroutine whose Shutdown stops the servers; "done" when it has
    before,  \* open devices that the service had then
    left     \* sockets whose server ended before it was told to, or was told too early

netVars == <<sock, serving, stopped, server, stopping, left>>
svcVars == <<state, netVars, at, devices, open, mine, shutter, before>>

ServeLabels == {"check", "swap", "serving"}
ShutdownLabels == {"close", "closeSockets", "stop", "wait", "closeDevices"}

SvcInit ==
    /\ state = "new"
    /\ sock = [s \in Sockets |-> "none"]
    /\ serving = FALSE /\ stopped = FALSE
    /\ server = [s \in Sockets |-> "none"]
    /\ stopping = {} /\ left = {}
    /\ at = [p \in Procs |-> "idle"]
    /\ devices = [i \in Ids |-> None]
    /\ open = {} /\ before = {}
    /\ mine = [p \in Procs |-> {}]
    /\ shutter = None

------------------------------------------------------------------------------
(* New                                                                      *)

\* coAPServers.Close
CloseSockets == sock' = [s \in Sockets |-> IF sock[s] = "open" THEN "closed" ELSE sock[s]]

\* The next socket is opened, or cannot be: then those before it are closed.
OpenNext(s) ==
    /\ state = "new"
    /\ sock[s] = "none" /\ \A r \in 1..(s - 1) : sock[r] = "open"
    /\ \/ /\ sock' = [sock EXCEPT ![s] = "open"]
          /\ state' = IF s = Unicast + Multicast THEN "ready" ELSE "new"
       \/ CloseSockets /\ state' = "failed"
    /\ UNCHANGED <<serving, stopped, server, stopping, left, at, devices, open, mine, shutter, before>>

NewServers == \E s \in 1..Unicast : OpenNext(s)

AppendMCastServers == \E s \in (Unicast + 1)..(Unicast + Multicast) : OpenNext(s)

------------------------------------------------------------------------------
(* Serve                                                                    *)

Goes(p, l) == at' = [at EXCEPT ![p] = l]

\* Service.Serve, which Shutdown waits for from here on.  (Nobody calls it once
\* the service is stopped.)
Serve(p) ==
    /\ state = "ready" /\ at[p] = "idle" /\ ~stopped
    /\ Goes(p, "check")
    /\ UNCHANGED <<state, netVars, devices, open, mine, shutter, before>>

\* Net.Serve: nothing to serve when Net is closed,
CheckStopped(p) ==
    /\ at[p] = "check"
    /\ Goes(p, IF stopped THEN "idle" ELSE "swap")
    /\ UNCHANGED <<state, netVars, devices, open, mine, shutter, before>>

\* and only one call serves; Close may have closed the sockets meanwhile.
NetServe(p) ==
    /\ at[p] = "swap"
    /\ serving' = TRUE
    /\ IF serving THEN Goes(p, "idle") /\ UNCHANGED server
       ELSE Goes(p, "serving") /\ server' = [s \in Sockets |-> "starting"]
    /\ UNCHANGED <<state, sock, stopped, stopping, left, devices, open, mine, shutter, before>>

ServeReturns(p) ==
    /\ at[p] = "serving" /\ \A s \in Sockets : server[s] = "returned"
    /\ Goes(p, "idle")
    /\ UNCHANGED <<state, netVars, devices, open, mine, shutter, before>>

\* External: the library's server of a socket.  It returns at once if it was
\* stopped before it began, and then leaves its socket as it is, or if the
\* socket is closed.
ServerStarts(s) ==
    /\ server[s] = "starting"
    /\ server' = [server EXCEPT ![s] = IF s \in stopping \/ sock[s] = "closed" THEN "returned" ELSE "running"]
    /\ left' = IF s \in stopping THEN left \union {s} ELSE left
    /\ UNCHANGED <<state, sock, serving, stopped, stopping, at, devices, open, mine, shutter, before>>

\* It returns when it is stopped or its socket is closed.
ServerReturns(s) ==
    /\ server[s] = "running" /\ (s \in stopping \/ sock[s] = "closed")
    /\ server' = [server EXCEPT ![s] = "returned"]
    /\ UNCHANGED <<state, sock, serving, stopped, stopping, left, at, devices, open, mine, shutter, before>>

\* An error ends one server; the others go on.
ServerFails(s) ==
    /\ server[s] = "running"
    /\ server' = [server EXCEPT ![s] = "returned"]
    /\ left' = left \union {s}
    /\ UNCHANGED <<state, sock, serving, stopped, stopping, at, devices, open, mine, shutter, before>>

------------------------------------------------------------------------------
(* Devices                                                                  *)

\* CreateDevice and GetOrCreateDevice: the device is created under the lock of
\* the map, unless there is one or newDevice fails.
CreateDevice(i) ==
    /\ state = "ready" /\ devices[i] = None
    /\ \E o \in Objs \ open :
          /\ devices' = [devices EXCEPT ![i] = o]
          /\ open' = open \union {o}
    /\ UNCHANGED <<state, netVars, at, mine, shutter, before>>

\* Mutation: Load, and Delete once it is closed.
DeleteAndCloseDeviceLoads(p, i) ==
    /\ at[p] = "idle" /\ devices[i] # None
    /\ Goes(p, "delete")
    /\ mine' = [mine EXCEPT ![p] = {devices[i]}]
    /\ UNCHANGED <<state, netVars, devices, open, shutter, before>>

\* DeleteAndCloseDevice: LoadAndDelete, so that only one closes it.
DeleteAndCloseDevice(p, i) ==
    /\ at[p] = "idle" /\ devices[i] # None
    /\ Goes(p, "delete")
    /\ mine' = [mine EXCEPT ![p] = {devices[i]}]
    /\ devices' = [devices EXCEPT ![i] = None]
    /\ UNCHANGED <<state, netVars, open, shutter, before>>

CloseDevice(p) ==
    /\ at[p] \in {"delete", "closeDevices"}
    /\ \E o \in mine[p] :
          /\ mine' = [mine EXCEPT ![p] = @ \ {o}]
          /\ open' = open \ {o}
          /\ before' = before \ {o}
    /\ UNCHANGED <<state, netVars, at, devices, shutter>>

\* DeleteAndCloseDevice or Shutdown returns.
Closed(p) ==
    /\ at[p] \in {"delete", "closeDevices"} /\ mine[p] = {}
    /\ Goes(p, "idle")
    /\ shutter' = IF shutter = p THEN "done" ELSE shutter
    /\ UNCHANGED <<state, netVars, devices, open, mine, before>>

------------------------------------------------------------------------------
(* Shutdown                                                                 *)

Shutdown(p) ==
    /\ state = "ready" /\ at[p] = "idle"
    /\ Goes(p, "close")
    /\ UNCHANGED <<state, netVars, devices, open, mine, shutter, before>>

\* Mutation: sockets that nobody serves are forgotten.
NetCloseStops(p) ==
    /\ at[p] = "close"
    /\ stopped' = TRUE
    /\ IF stopped THEN Goes(p, "wait") /\ UNCHANGED <<shutter, before>>
       ELSE Goes(p, "stop") /\ shutter' = p /\ before' = open
    /\ UNCHANGED <<state, sock, serving, server, stopping, left, devices, open, mine>>

\* Net.Close: the first one stops the servers, or closes the sockets if nobody
\* serves them, the others do nothing.
NetClose(p) ==
    /\ at[p] = "close"
    /\ stopped' = TRUE
    /\ IF stopped THEN Goes(p, "wait") /\ UNCHANGED <<shutter, before>>
       ELSE /\ Goes(p, IF serving THEN "stop" ELSE "closeSockets")
            /\ shutter' = p
            /\ before' = open
    /\ UNCHANGED <<state, sock, serving, server, stopping, left, devices, open, mine>>

\* An error ends Shutdown.
CloseUnserved(p) ==
    /\ at[p] = "closeSockets"
    /\ CloseSockets
    /\ \/ Goes(p, "wait") /\ UNCHANGED shutter
       \/ Goes(p, "idle") /\ shutter' = None
    /\ UNCHANGED <<state, serving, stopped, server, stopping, left, devices, open, mine, before>>

\* Mutation: servers that are not running yet are not told to stop.
StopServersRunning(p) ==
    /\ at[p] = "stop"
    /\ stopping' = {s \in Sockets : server[s] = "running"}
    /\ sock' = [s \in Sockets |-> IF server[s] = "running" THEN "closed" ELSE sock[s]]
    /\ Goes(p, "wait")
    /\ UNCHANGED <<state, serving, stopped, server, left, devices, open, mine, shutter, before>>

\* coAPServers.Stop; the library closes the sockets that are being served.
StopServers(p) ==
    /\ at[p] = "stop"
    /\ stopping' = Sockets
    /\ sock' = [s \in Sockets |-> IF server[s] = "running" THEN "closed" ELSE sock[s]]
    /\ Goes(p, "wait")
    /\ UNCHANGED <<state, serving, stopped, server, left, devices, open, mine, shutter, before>>

\* When no Serve is left: LoadAndDeleteAll.
TakeDevices(p) ==
    /\ at[p] = "wait" /\ \A q \in Procs : at[q] \notin ServeLabels
    /\ mine' = [mine EXCEPT ![p] = {devices[i] : i \in Ids} \ {None}]
    /\ devices' = [i \in Ids |-> None]
    /\ Goes(p, "closeDevices")
    /\ UNCHANGED <<state, netVars, open, shutter, before>>

------------------------------------------------------------------------------

Servers == \E s \in Sockets : ServerStarts(s) \/ ServerReturns(s)

Calls(p) ==
    \/ CheckStopped(p) \/ NetServe(p) \/ ServeReturns(p)
    \/ CloseDevice(p) \/ Closed(p)
    \/ NetClose(p) \/ CloseUnserved(p) \/ StopServers(p) \/ TakeDevices(p)

SvcNext ==
    \/ NewServers \/ AppendMCastServers
    \/ Servers \/ \E s \in Sockets : ServerFails(s)
    \/ \E p \in Procs : Serve(p) \/ Shutdown(p) \/ Calls(p)
    \/ \E i \in Ids : CreateDevice(i) \/ \E p \in Procs : DeleteAndCloseDevice(p, i)

SvcSpec == SvcInit /\ [][SvcNext]_svcVars

\* Goroutines run: those of the calls and those of the servers.
SvcFairness ==
    /\ \A s \in Sockets : WF_svcVars(ServerStarts(s)) /\ WF_svcVars(ServerReturns(s))
    /\ \A p \in Procs : WF_svcVars(Calls(p))

------------------------------------------------------------------------------
(* Properties                                                               *)

\* A service that could not be created has closed the sockets it had opened,
\* whichever socket it failed at.
FailedNewLeavesNothing == state = "failed" => \A s \in Sockets : sock[s] # "open"

\* A device that is not closed can be reached: it is in the service, or the one
\* goroutine that has taken it out is about to close it, whatever Shutdown,
\* DeleteAndCloseDevice and CreateDevice are doing at the same time.
OneCloses ==
    \A o \in open : Cardinality({i \in Ids : devices[i] = o} \union {p \in Procs : o \in mine[p]}) = 1

\* When Shutdown has stopped the servers and returned, every device that the
\* service had is closed, or the goroutine that deleted it is closing it, and
\* every socket is closed, except those whose server had failed, or had not begun
\* to serve when it was stopped.  (Only one of several concurrent Shutdowns
\* promises that.)
ShutdownLeavesNothing ==
    shutter = "done" =>
       /\ before \subseteq UNION {mine[p] : p \in Procs}
       /\ \A s \in Sockets : sock[s] = "open" => s \in left

\* Shutdown ends every call of Serve, also one that has found the service
\* running just before, and returns.
ShutdownReturns == \A p \in Procs :
    at[p] \in ShutdownLabels \/ (stopped /\ at[p] \in ServeLabels) ~> at[p] = "idle"

\* Neither a New that fails nor Shutdown leaves sockets or devices open.
NothingLeftOpen == FailedNewLeavesNothing /\ ShutdownLeavesNothing
=============================================================================
