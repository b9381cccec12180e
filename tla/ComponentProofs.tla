--------------------------- MODULE ComponentProofs ---------------------------
(***************************************************************************)
(* Proofs about three parts that nothing else interferes with, for every   *)
(* value of their constants.  BridgeService: whoever takes a device out    *)
(* closes it, and what has been shut down has nothing open, with any       *)
(* number of goroutines, sockets and devices.  Credentials: the maps and   *)
(* the counter stay consistent.  TokenExpiry: the margin of two tick       *)
(* intervals in isCredsExpiring is enough for every interval and every     *)
(* delay up to the one at which the ticker drops a tick, and the second    *)
(* test of isCredsExpiring never adds anything to the first.               *)
(***************************************************************************)
EXTENDS BridgeService, Credentials, TokenExpiry, FiniteSetTheorems, TLAPS

(* The devices of a bridge                                                  *)

\* Where the devices are: in the service under one ID, or with the goroutine
\* that has taken them out, and then only while it closes them.
DevicesInv ==
    /\ devices \in [Ids -> open \union {None}]
    /\ mine \in [Procs -> SUBSET open]
    /\ open \subseteq Objs
    /\ at \in [Procs -> {"idle", "delete"} \union ServeLabels \union ShutdownLabels]

OneHolder ==
    /\ \A i, j \in Ids : devices[i] = devices[j] /\ i # j => devices[i] = None
    /\ \A p, q \in Procs : p # q => mine[p] \intersect mine[q] = {}
    /\ \A i \in Ids, p \in Procs : devices[i] \notin mine[p]
    /\ \A o \in open : (\E i \in Ids : devices[i] = o) \/ (\E p \in Procs : o \in mine[p])
    /\ \A p \in Procs : mine[p] # {} => at[p] \in {"delete", "closeDevices"}

HoldInv == DevicesInv /\ OneHolder

(* Shutdown                                                                 *)

\* At most one Shutdown stops the servers, and only of a service that New has
\* returned.
OneShutter ==
    /\ shutter \in Procs \union {None, "done"}
    /\ shutter # None => stopped /\ state = "ready"
    /\ shutter \in Procs => at[shutter] \in {"stop", "closeSockets", "wait", "closeDevices"}
    /\ \A p \in Procs : at[p] \in {"stop", "closeSockets"} => shutter = p
    /\ \A p \in Procs : at[p] \in ShutdownLabels => state = "ready"

\* The Shutdown that stops the servers has taken the devices out of the
\* service.
Taken == shutter = "done" \/ (shutter \in Procs /\ at[shutter] = "closeDevices")

\* The servers were stopped, or their sockets closed.
Stopped == Taken \/ (shutter \in Procs /\ at[shutter] = "wait")

\* What a server has told its socket.
ServersInv ==
    /\ server \in [Sockets -> {"none", "starting", "running", "returned"}]
    /\ sock \in [Sockets -> {"none", "open", "closed"}]
    /\ serving \in BOOLEAN /\ stopped \in BOOLEAN
    /\ stopping \in {{}, Sockets}
    /\ ~serving => \A s \in Sockets : server[s] = "none"
    /\ serving => \/ \E q \in Procs : at[q] = "serving"
                  \/ \A s \in Sockets : server[s] = "returned"
    /\ serving => \A s \in Sockets : server[s] # "none"
    /\ \A p \in Procs : at[p] = "stop" => serving /\ stopping = {}
    /\ stopping # {} => stopped
    /\ stopping = {} => \A s \in Sockets : server[s] = "returned" => s \in left \/ sock[s] = "closed"

\* Once the servers were stopped, only one that has not begun to serve leaves
\* its socket open; once the devices were taken, none is left to begin.
SocketsInv ==
    /\ Stopped => \A s \in Sockets : sock[s] = "open" => s \in left \/ (s \in stopping /\ server[s] = "starting")
    /\ Taken => \A s \in Sockets : sock[s] = "open" => s \in left
    /\ Taken => \A q \in Procs : at[q] \notin ServeLabels

BeforeInv ==
    /\ before \subseteq open
    /\ Taken => \A i \in Ids : devices[i] \notin before

SvcInv == HoldInv /\ OneShutter /\ ServersInv /\ SocketsInv /\ BeforeInv /\ FailedNewLeavesNothing

------------------------------------------------------------------------------
(* The inductive invariant of BridgeService                                 *)

Labels == {"idle", "delete"} \union ServeLabels \union ShutdownLabels

\* The steps of Serve and Shutdown that leave the devices alone: one goroutine
\* moves that is not closing devices, or none.
Moves(p, l) ==
    /\ at[p] \notin {"delete", "closeDevices"}
    /\ Goes(p, l)
    /\ UNCHANGED <<devices, open, mine>>

\* Every step of BridgeService that does not take out or close devices.
LEMMA OtherSteps ==
    ASSUME SvcInv, [SvcNext]_svcVars
    PROVE  \/ UNCHANGED <<at, devices, open, mine>>
           \/ \E p \in Procs, l \in Labels : Moves(p, l)
           \/ \E i \in Ids : CreateDevice(i) \/ \E p \in Procs : DeleteAndCloseDevice(p, i)
           \/ \E p \in Procs : CloseDevice(p) \/ Closed(p) \/ TakeDevices(p)
<1>1. CASE UNCHANGED svcVars
  BY <1>1 DEF svcVars
<1>2. ASSUME NEW s \in Sockets, OpenNext(s) \/ ServerStarts(s) \/ ServerReturns(s) \/ ServerFails(s)
      PROVE UNCHANGED <<at, devices, open, mine>>
  BY <1>2 DEF OpenNext, ServerStarts, ServerReturns, ServerFails
<1>3. ASSUME NEW p \in Procs,
             \/ Serve(p) \/ CheckStopped(p) \/ NetServe(p) \/ ServeReturns(p)
             \/ Shutdown(p) \/ NetClose(p) \/ CloseUnserved(p) \/ StopServers(p)
      PROVE \E l \in Labels : Moves(p, l)
  BY <1>3 DEF Serve, CheckStopped, NetServe, ServeReturns, Shutdown, NetClose, CloseUnserved,
     StopServers, Moves, Goes, Labels, ServeLabels, ShutdownLabels, netVars
<1>4. \A s \in (1 .. Unicast) \union ((Unicast + 1) .. (Unicast + Multicast)) : s \in Sockets
  BY SocketsAssumption DEF Sockets
<1> QED
  BY <1>1, <1>2, <1>3, <1>4 DEF SvcNext, Calls, Servers, NewServers, AppendMCastServers

\* A device is always in exactly one place.
LEMMA HoldStep == SvcInv /\ [SvcNext]_svcVars => HoldInv'
<1> SUFFICES ASSUME SvcInv, [SvcNext]_svcVars PROVE HoldInv'
  OBVIOUS
<1>n. None \notin open
  BY NoDeviceAssumption DEF SvcInv, HoldInv, DevicesInv
<1>1. CASE UNCHANGED <<at, devices, open, mine>>
  BY <1>1 DEF SvcInv, HoldInv, DevicesInv, OneHolder
<1>2. ASSUME NEW p \in Procs, NEW l \in Labels, Moves(p, l) PROVE HoldInv'
  BY <1>2 DEF SvcInv, HoldInv, DevicesInv, OneHolder, Moves, Goes, Labels
<1>3. ASSUME NEW i \in Ids, CreateDevice(i) PROVE HoldInv'
  <2>1. PICK o \in Objs \ open : devices' = [devices EXCEPT ![i] = o] /\ open' = open \union {o}
    BY <1>3 DEF CreateDevice
  <2>2. devices[i] = None /\ mine' = mine /\ at' = at
    BY <1>3 DEF CreateDevice
  <2>3. DevicesInv'
    BY <2>1, <2>2 DEF SvcInv, HoldInv, DevicesInv
  <2>4. OneHolder'
    BY <2>1, <2>2, <1>n DEF SvcInv, HoldInv, DevicesInv, OneHolder
  <2> QED
    BY <2>3, <2>4 DEF HoldInv
<1>4. ASSUME NEW p \in Procs, NEW i \in Ids, DeleteAndCloseDevice(p, i) PROVE HoldInv'
  <2>1. mine[p] = {} /\ devices[i] \in open
    BY <1>4 DEF SvcInv, HoldInv, DevicesInv, OneHolder, DeleteAndCloseDevice
  <2>2. DevicesInv'
    BY <1>4, <2>1 DEF SvcInv, HoldInv, DevicesInv, DeleteAndCloseDevice, Goes
  <2>3. OneHolder'
    BY <1>4, <2>1, <1>n DEF SvcInv, HoldInv, DevicesInv, OneHolder, DeleteAndCloseDevice, Goes
  <2> QED
    BY <2>2, <2>3 DEF HoldInv
<1>5. ASSUME NEW p \in Procs, CloseDevice(p) PROVE HoldInv'
  <2>1. PICK o \in mine[p] : mine' = [mine EXCEPT ![p] = @ \ {o}] /\ open' = open \ {o}
    BY <1>5 DEF CloseDevice
  <2>2. /\ at' = at /\ devices' = devices /\ at[p] \in {"delete", "closeDevices"}
        /\ o \in open
    BY <1>5 DEF CloseDevice, SvcInv, HoldInv, DevicesInv
  <2>3. /\ \A i \in Ids : devices[i] # o
        /\ \A q \in Procs : q # p => o \notin mine[q]
    BY <2>1 DEF SvcInv, HoldInv, OneHolder
  <2>4. DevicesInv'
    BY <2>1, <2>2, <2>3 DEF SvcInv, HoldInv, DevicesInv
  <2>5. OneHolder'
    BY <2>1, <2>2, <2>3 DEF SvcInv, HoldInv, DevicesInv, OneHolder
  <2> QED
    BY <2>4, <2>5 DEF HoldInv
<1>6. ASSUME NEW p \in Procs, Closed(p) PROVE HoldInv'
  BY <1>6 DEF SvcInv, HoldInv, DevicesInv, OneHolder, Closed, Goes
<1>7. ASSUME NEW p \in Procs, TakeDevices(p) PROVE HoldInv'
  <2> DEFINE all == {devices[i] : i \in Ids} \ {None}
  <2>1. mine[p] = {} /\ all \subseteq open
    BY <1>7 DEF SvcInv, HoldInv, DevicesInv, OneHolder, TakeDevices
  <2>2. DevicesInv'
    BY <1>7, <2>1 DEF SvcInv, HoldInv, DevicesInv, TakeDevices, Goes, ShutdownLabels
  <2>3. OneHolder'
    BY <1>7, <2>1, <1>n DEF SvcInv, HoldInv, DevicesInv, OneHolder, TakeDevices, Goes
  <2> QED
    BY <2>2, <2>3 DEF HoldInv
<1> QED
  BY <1>1, <1>2, <1>3, <1>4, <1>5, <1>6, <1>7, OtherSteps

\* A socket that New opens is one of Sockets.
LEMMA NewOpensSockets ==
    NewServers \/ AppendMCastServers => \E s \in Sockets : OpenNext(s)
  BY SocketsAssumption DEF NewServers, AppendMCastServers, Sockets

\* Only one Shutdown stops the servers.
LEMMA ShutterStep == SvcInv /\ [SvcNext]_svcVars => OneShutter'
<1> SUFFICES ASSUME SvcInv, [SvcNext]_svcVars PROVE OneShutter'
  OBVIOUS
<1> USE ProcsAssumption DEF SvcInv, HoldInv, DevicesInv, OneShutter, ShutdownLabels, ServeLabels
<1>1. CASE UNCHANGED svcVars
  BY <1>1 DEF svcVars, netVars
<1>2. ASSUME NEW s \in Sockets, OpenNext(s) PROVE OneShutter'
  BY <1>2 DEF OpenNext
<1>3. ASSUME NEW s \in Sockets, ServerStarts(s) \/ ServerReturns(s) \/ ServerFails(s)
      PROVE OneShutter'
  BY <1>3 DEF ServerStarts, ServerReturns, ServerFails
<1>4. ASSUME NEW i \in Ids, CreateDevice(i) PROVE OneShutter'
  BY <1>4 DEF CreateDevice, netVars
<1>5. ASSUME NEW p \in Procs, NEW i \in Ids, DeleteAndCloseDevice(p, i) PROVE OneShutter'
  BY <1>5 DEF DeleteAndCloseDevice, Goes, netVars
<1>6. ASSUME NEW p \in Procs, Serve(p) \/ CheckStopped(p) \/ NetServe(p) \/ ServeReturns(p)
      PROVE OneShutter'
  BY <1>6 DEF Serve, CheckStopped, NetServe, ServeReturns, Goes, netVars
<1>7. ASSUME NEW p \in Procs, Shutdown(p) PROVE OneShutter'
  BY <1>7 DEF Shutdown, Goes, netVars
<1>8. ASSUME NEW p \in Procs, NetClose(p) PROVE OneShutter'
  BY <1>8 DEF NetClose, Goes
<1>9. ASSUME NEW p \in Procs, CloseUnserved(p) PROVE OneShutter'
  BY <1>9 DEF CloseUnserved, Goes
<1>10. ASSUME NEW p \in Procs, StopServers(p) PROVE OneShutter'
  BY <1>10 DEF StopServers, Goes
<1>11. ASSUME NEW p \in Procs, TakeDevices(p) PROVE OneShutter'
  BY <1>11 DEF TakeDevices, Goes, netVars
<1>12. ASSUME NEW p \in Procs, CloseDevice(p) PROVE OneShutter'
  BY <1>12 DEF CloseDevice, netVars
<1>13. ASSUME NEW p \in Procs, Closed(p) PROVE OneShutter'
  BY <1>13 DEF Closed, Goes, netVars
<1> QED
  BY <1>1, <1>2, <1>3, <1>4, <1>5, <1>6, <1>7, <1>8, <1>9, <1>10, <1>11, <1>12, <1>13,
     NewOpensSockets DEF SvcNext, Calls, Servers

\* What is known of the servers and of their sockets.
LEMMA ServersStep == SvcInv /\ [SvcNext]_svcVars => ServersInv'
<1> SUFFICES ASSUME SvcInv, [SvcNext]_svcVars PROVE ServersInv'
  OBVIOUS
<1> USE DEF SvcInv, HoldInv, DevicesInv, ServersInv
<1>1. CASE UNCHANGED svcVars
  BY <1>1 DEF svcVars, netVars
<1>2. ASSUME NEW s \in Sockets, OpenNext(s) PROVE ServersInv'
  BY <1>2 DEF OpenNext, CloseSockets
<1>3. ASSUME NEW s \in Sockets, ServerStarts(s) \/ ServerReturns(s) \/ ServerFails(s)
      PROVE ServersInv'
  BY <1>3 DEF ServerStarts, ServerReturns, ServerFails
<1>4. ASSUME NEW i \in Ids, CreateDevice(i) PROVE ServersInv'
  BY <1>4 DEF CreateDevice, netVars
<1>5. ASSUME NEW p \in Procs, NEW i \in Ids, DeleteAndCloseDevice(p, i) PROVE ServersInv'
  BY <1>5 DEF DeleteAndCloseDevice, Goes, netVars
<1>6. ASSUME NEW p \in Procs, Serve(p) \/ CheckStopped(p) PROVE ServersInv'
  BY <1>6 DEF Serve, CheckStopped, Goes, netVars
<1>7. ASSUME NEW p \in Procs, NetServe(p) PROVE ServersInv'
  BY <1>7 DEF NetServe, Goes
<1>8. ASSUME NEW p \in Procs, ServeReturns(p) PROVE ServersInv'
  BY <1>8 DEF ServeReturns, Goes, netVars
<1>9. ASSUME NEW p \in Procs, Shutdown(p) PROVE ServersInv'
  BY <1>9 DEF Shutdown, Goes, netVars
<1>10. ASSUME NEW p \in Procs, NetClose(p) PROVE ServersInv'
  BY <1>10 DEF NetClose, Goes
<1>11. ASSUME NEW p \in Procs, CloseUnserved(p) PROVE ServersInv'
  BY <1>11 DEF CloseUnserved, CloseSockets, Goes
<1>12. ASSUME NEW p \in Procs, StopServers(p) PROVE ServersInv'
  <2>1. \A q \in Procs : at[q] = "stop" => q = p
    BY <1>12 DEF OneShutter, StopServers
  <2>2. stopped /\ serving
    BY <1>12, ProcsAssumption DEF OneShutter, StopServers
  <2> QED
    BY <1>12, <2>1, <2>2, SocketsAssumption DEF StopServers, Goes
<1>13. ASSUME NEW p \in Procs, TakeDevices(p) \/ CloseDevice(p) \/ Closed(p) PROVE ServersInv'
  BY <1>13 DEF TakeDevices, CloseDevice, Closed, Goes, netVars
<1> QED
  BY <1>1, <1>2, <1>3, <1>4, <1>5, <1>6, <1>7, <1>8, <1>9, <1>10, <1>11, <1>12, <1>13,
     NewOpensSockets DEF SvcNext, Calls, Servers

\* A step that leaves the sockets, the servers and the shutting-down goroutine
\* where they are preserves what is said of the sockets.
LEMMA SocketsUnchanged ==
    ASSUME SvcInv, UNCHANGED <<sock, server, stopping, left, shutter>>, Stopped' => Stopped,
           Taken' => Taken, Taken => \A q \in Procs : at'[q] \notin ServeLabels
    PROVE  SocketsInv'
  BY DEF SvcInv, SocketsInv

\* A goroutine that is not the one that shuts down moves.
LEMMA OtherGoes ==
    ASSUME SvcInv, NEW p \in Procs, NEW l, Goes(p, l), shutter # p, shutter' = shutter
    PROVE  (Taken' <=> Taken) /\ (Stopped' <=> Stopped)
  BY DEF SvcInv, HoldInv, DevicesInv, Goes, Taken, Stopped

\* Once the servers are stopped, sockets stay open only as the specification
\* of Shutdown allows.
LEMMA SocketsStep == SvcInv /\ [SvcNext]_svcVars => SocketsInv'
<1> SUFFICES ASSUME SvcInv, [SvcNext]_svcVars PROVE SocketsInv'
  OBVIOUS
<1> USE ProcsAssumption
<1>a. at \in [Procs -> Labels] /\ SocketsInv /\ OneShutter
  BY DEF SvcInv, HoldInv, DevicesInv, Labels
<1>s. Taken \/ Stopped => stopped /\ state = "ready"
  BY DEF SvcInv, OneShutter, Taken, Stopped
<1>1. CASE UNCHANGED svcVars
  BY <1>1, <1>a DEF svcVars, netVars, SocketsInv, Taken, Stopped
<1>2. ASSUME NEW s \in Sockets, OpenNext(s) PROVE SocketsInv'
  BY <1>2, <1>s DEF OpenNext, SocketsInv, Taken, Stopped
<1>3. ASSUME NEW s \in Sockets, ServerStarts(s) \/ ServerReturns(s) \/ ServerFails(s)
      PROVE SocketsInv'
  BY <1>3, <1>a DEF ServerStarts, ServerReturns, ServerFails, SvcInv, ServersInv, SocketsInv,
     Taken, Stopped
<1>4. ASSUME NEW i \in Ids, CreateDevice(i) PROVE SocketsInv'
  BY <1>4, <1>a DEF CreateDevice, netVars, SocketsInv, Taken, Stopped
<1>5. ASSUME NEW p \in Procs, NEW i \in Ids, DeleteAndCloseDevice(p, i) PROVE SocketsInv'
  <2>1. shutter # p
    BY <1>5, <1>a DEF DeleteAndCloseDevice, OneShutter
  <2> QED
    BY <1>5, <2>1, <1>a, OtherGoes DEF DeleteAndCloseDevice, Goes, netVars, SocketsInv, ServeLabels
<1>6. ASSUME NEW p \in Procs, Serve(p) \/ CheckStopped(p) \/ ServeReturns(p) \/ Shutdown(p)
      PROVE SocketsInv'
  <2>1. shutter # p
    BY <1>6, <1>a DEF Serve, CheckStopped, ServeReturns, Shutdown, OneShutter
  <2>2. PICK l \in Labels : Goes(p, l) /\ (Taken => l \notin ServeLabels)
    BY <1>6, <1>a, <1>s DEF Serve, CheckStopped, ServeReturns, Shutdown, Labels, ServeLabels,
       ShutdownLabels, SocketsInv
  <2>3. UNCHANGED <<sock, server, stopping, left, shutter>>
    BY <1>6 DEF Serve, CheckStopped, ServeReturns, Shutdown, netVars
  <2>4. Taken => \A q \in Procs : at'[q] \notin ServeLabels
    BY <2>2, <1>a DEF Goes, SocketsInv
  <2> QED
    BY <2>1, <2>2, <2>3, <2>4, OtherGoes, SocketsUnchanged
<1>7. ASSUME NEW p \in Procs, NetServe(p) PROVE SocketsInv'
  <2>1. shutter # p /\ ~Taken
    BY <1>7, <1>a DEF NetServe, OneShutter, SocketsInv, ServeLabels
  <2>2. ~Taken' /\ (Stopped' <=> Stopped)
    BY <1>7, <2>1, OtherGoes DEF NetServe
  <2> QED
    BY <1>7, <2>2, <1>a DEF NetServe, SocketsInv, SvcInv, ServersInv
<1>8. ASSUME NEW p \in Procs, NetClose(p) PROVE SocketsInv'
  <2>1. shutter # p
    BY <1>8, <1>a DEF NetClose, OneShutter
  <2>2. CASE stopped
    <3>1. Goes(p, "wait") /\ UNCHANGED <<sock, server, stopping, left, shutter>>
      BY <1>8, <2>2 DEF NetClose
    <3>2. Taken => \A q \in Procs : at'[q] \notin ServeLabels
      BY <3>1, <1>a DEF Goes, SocketsInv, ServeLabels
    <3> QED
      BY <2>1, <3>1, <3>2, OtherGoes, SocketsUnchanged
  <2>3. CASE ~stopped
    <3>1. ~Taken' /\ ~Stopped'
      BY <1>8, <2>3, <1>a DEF NetClose, Goes, Taken, Stopped
    <3> QED
      BY <3>1 DEF SocketsInv
  <2> QED
    BY <2>2, <2>3
<1>9. ASSUME NEW p \in Procs, CloseUnserved(p) PROVE SocketsInv'
  <2>1. shutter = p /\ ~Taken
    BY <1>9, <1>a DEF CloseUnserved, OneShutter, Taken
  <2>2. ~Taken'
    BY <1>9, <2>1, <1>a DEF CloseUnserved, Goes, Taken
  <2>3. \A s \in Sockets : sock'[s] # "open"
    BY <1>9 DEF CloseUnserved, CloseSockets
  <2> QED
    BY <2>2, <2>3 DEF SocketsInv
<1>10. ASSUME NEW p \in Procs, StopServers(p) PROVE SocketsInv'
  <2>1. shutter = p /\ stopping = {} /\ serving
    BY <1>10, <1>a DEF StopServers, OneShutter, SvcInv, ServersInv
  <2>2. ~Taken'
    BY <1>10, <2>1, <1>a DEF StopServers, Goes, Taken
  <2>3. \A s \in Sockets : sock'[s] = "open" => s \in left' \/ (s \in stopping' /\ server'[s] = "starting")
    BY <1>10, <2>1 DEF StopServers, SvcInv, ServersInv
  <2> QED
    BY <2>2, <2>3 DEF SocketsInv
<1>11. ASSUME NEW p \in Procs, TakeDevices(p) PROVE SocketsInv'
  <2>0. \A q \in Procs : at[q] \notin ServeLabels
    BY <1>11 DEF TakeDevices
  <2>1. \A q \in Procs : at'[q] \notin ServeLabels
    BY <1>11, <2>0, <1>a DEF TakeDevices, Goes, ServeLabels
  <2>2. Stopped' => Stopped
    BY <1>11, <1>a DEF TakeDevices, Goes, Stopped, Taken
  <2>3. Taken' => Stopped'
    BY DEF Stopped
  <2>4. \A s \in Sockets : server[s] # "starting"
    BY <2>0 DEF SvcInv, ServersInv, ServeLabels
  <2> QED
    BY <1>11, <2>1, <2>2, <2>3, <2>4, <1>a DEF TakeDevices, netVars, SocketsInv
<1>12. ASSUME NEW p \in Procs, CloseDevice(p) PROVE SocketsInv'
  BY <1>12, <1>a DEF CloseDevice, netVars, SocketsInv, Taken, Stopped
<1>13. ASSUME NEW p \in Procs, Closed(p) PROVE SocketsInv'
  <2>1. Taken' => Taken
    BY <1>13, <1>a DEF Closed, OneShutter, Goes, Taken
  <2>2. Stopped' => Stopped
    BY <1>13, <1>a DEF Closed, OneShutter, Goes, Taken, Stopped
  <2>3. Taken => \A q \in Procs : at'[q] \notin ServeLabels
    BY <1>13, <1>a DEF Closed, Goes, SocketsInv, ServeLabels
  <2> QED
    BY <1>13, <2>1, <2>2, <2>3, <1>a DEF Closed, netVars, SocketsInv
<1> QED
  BY <1>1, <1>2, <1>3, <1>4, <1>5, <1>6, <1>7, <1>8, <1>9, <1>10, <1>11, <1>12, <1>13,
     NewOpensSockets DEF SvcNext, Calls, Servers

\* A device that the service had when it was shut down is never put back.
LEMMA BeforeStep == SvcInv /\ [SvcNext]_svcVars => BeforeInv'
<1> SUFFICES ASSUME SvcInv, [SvcNext]_svcVars PROVE BeforeInv'
  OBVIOUS
<1> USE ProcsAssumption
<1>a. at \in [Procs -> Labels] /\ BeforeInv /\ OneShutter
  BY DEF SvcInv, HoldInv, DevicesInv, Labels
<1>n. None \notin before
  BY <1>a, NoDeviceAssumption DEF SvcInv, HoldInv, DevicesInv, BeforeInv
<1>1. CASE UNCHANGED svcVars
  BY <1>1, <1>a DEF svcVars, BeforeInv, Taken
<1>2. ASSUME NEW s \in Sockets, OpenNext(s) \/ ServerStarts(s) \/ ServerReturns(s) \/ ServerFails(s)
      PROVE BeforeInv'
  BY <1>2, <1>a DEF OpenNext, ServerStarts, ServerReturns, ServerFails, BeforeInv, Taken
<1>3. ASSUME NEW i \in Ids, CreateDevice(i) PROVE BeforeInv'
  <2>1. PICK o \in Objs \ open : devices' = [devices EXCEPT ![i] = o] /\ open' = open \union {o}
    BY <1>3 DEF CreateDevice
  <2> QED
    BY <1>3, <2>1, <1>a DEF CreateDevice, SvcInv, HoldInv, DevicesInv, BeforeInv, Taken
<1>4. ASSUME NEW p \in Procs, NEW i \in Ids, DeleteAndCloseDevice(p, i) PROVE BeforeInv'
  BY <1>4, <1>a, <1>n DEF DeleteAndCloseDevice, Goes, SvcInv, HoldInv, DevicesInv, OneShutter,
     BeforeInv, Taken
<1>5. ASSUME NEW p \in Procs,
             \/ Serve(p) \/ CheckStopped(p) \/ NetServe(p) \/ ServeReturns(p) \/ Shutdown(p)
             \/ CloseUnserved(p) \/ StopServers(p)
      PROVE BeforeInv'
  <2>1. Taken' => Taken
    BY <1>5, <1>a DEF Serve, CheckStopped, NetServe, ServeReturns, Shutdown, CloseUnserved,
       StopServers, Goes, Taken
  <2> QED
    BY <1>5, <2>1, <1>a DEF Serve, CheckStopped, NetServe, ServeReturns, Shutdown, CloseUnserved,
       StopServers, BeforeInv
<1>6. ASSUME NEW p \in Procs, NetClose(p) PROVE BeforeInv'
  <2>1. CASE stopped
    BY <1>6, <2>1, <1>a DEF NetClose, Goes, BeforeInv, Taken
  <2>2. CASE ~stopped
    BY <1>6, <2>2, <1>a DEF NetClose, Goes, BeforeInv, Taken
  <2> QED
    BY <2>1, <2>2
<1>7. ASSUME NEW p \in Procs, TakeDevices(p) PROVE BeforeInv'
  BY <1>7, <1>a, <1>n DEF TakeDevices, BeforeInv
<1>8. ASSUME NEW p \in Procs, CloseDevice(p) PROVE BeforeInv'
  BY <1>8, <1>a DEF CloseDevice, BeforeInv, Taken
<1>9. ASSUME NEW p \in Procs, Closed(p) PROVE BeforeInv'
  <2>1. Taken' => Taken
    BY <1>9, <1>a DEF Closed, OneShutter, Goes, Taken
  <2> QED
    BY <1>9, <2>1, <1>a DEF Closed, BeforeInv
<1> QED
  BY <1>1, <1>2, <1>3, <1>4, <1>5, <1>6, <1>7, <1>8, <1>9, NewOpensSockets
     DEF SvcNext, Calls, Servers

\* Nothing opens a socket after New has failed.
LEMMA FailedStep == SvcInv /\ [SvcNext]_svcVars => FailedNewLeavesNothing'
<1> SUFFICES ASSUME SvcInv, [SvcNext]_svcVars PROVE FailedNewLeavesNothing'
  OBVIOUS
<1>a. FailedNewLeavesNothing /\ sock \in [Sockets -> {"none", "open", "closed"}]
  BY DEF SvcInv, ServersInv
<1>1. ASSUME NEW s \in Sockets, OpenNext(s) PROVE FailedNewLeavesNothing'
  BY <1>1, <1>a DEF OpenNext, CloseSockets, FailedNewLeavesNothing
<1>2. ASSUME NEW p \in Procs, CloseUnserved(p) \/ StopServers(p) PROVE FailedNewLeavesNothing'
  BY <1>2, <1>a DEF CloseUnserved, CloseSockets, StopServers, FailedNewLeavesNothing
<1>3. CASE UNCHANGED <<state, sock>>
  BY <1>3, <1>a DEF FailedNewLeavesNothing
<1> QED
  BY <1>1, <1>2, <1>3, NewOpensSockets DEF SvcNext, Calls, Servers, svcVars, netVars, ServerStarts,
     ServerReturns, ServerFails, Serve, CheckStopped, NetServe, ServeReturns, Shutdown, NetClose,
     TakeDevices, CloseDevice, Closed, CreateDevice, DeleteAndCloseDevice

\* The inductive invariant of BridgeService holds throughout.
LEMMA SvcInvariant == SvcSpec => []SvcInv
<1>1. SvcInit => SvcInv
  <2> SUFFICES ASSUME SvcInit PROVE SvcInv
    OBVIOUS
  <2> USE ProcsAssumption DEF SvcInit
  <2>1. HoldInv
    BY DEF HoldInv, DevicesInv, OneHolder
  <2>2. OneShutter
    BY DEF OneShutter, ShutdownLabels
  <2>3. ServersInv
    BY DEF ServersInv
  <2>4. ~Taken /\ ~Stopped
    BY DEF Taken, Stopped
  <2>5. SocketsInv /\ BeforeInv /\ FailedNewLeavesNothing
    BY <2>4 DEF SocketsInv, BeforeInv, FailedNewLeavesNothing
  <2> QED
    BY <2>1, <2>2, <2>3, <2>5 DEF SvcInv
<1>2. SvcInv /\ [SvcNext]_svcVars => SvcInv'
  BY HoldStep, ShutterStep, ServersStep, SocketsStep, BeforeStep, FailedStep DEF SvcInv
<1> QED
  BY <1>1, <1>2, PTL DEF SvcSpec

\* Every device that is not closed is in exactly one place, so that exactly one
\* goroutine closes it: whatever Shutdowns, DeleteAndCloseDevices and
\* CreateDevices run at the same time.
THEOREM OneClosesHolds == SvcSpec => []OneCloses
<1>1. SvcInv => OneCloses
  <2> SUFFICES ASSUME SvcInv, NEW o \in open
               PROVE  Cardinality({i \in Ids : devices[i] = o} \union {p \in Procs : o \in mine[p]}) = 1
    BY DEF OneCloses
  <2> DEFINE H == {i \in Ids : devices[i] = o} \union {p \in Procs : o \in mine[p]}
  <2>0. o # None
    BY NoDeviceAssumption DEF SvcInv, HoldInv, DevicesInv
  <2>1. ASSUME NEW i \in Ids, devices[i] = o PROVE H = {i}
    <3>1. {j \in Ids : devices[j] = o} = {i}
      BY <2>0, <2>1 DEF SvcInv, HoldInv, OneHolder
    <3>2. {p \in Procs : o \in mine[p]} = {}
      BY <2>1 DEF SvcInv, HoldInv, OneHolder
    <3> QED
      BY <3>1, <3>2
  <2>2. ASSUME NEW p \in Procs, o \in mine[p] PROVE H = {p}
    <3>1. {q \in Procs : o \in mine[q]} = {p}
      BY <2>2 DEF SvcInv, HoldInv, OneHolder
    <3>2. {i \in Ids : devices[i] = o} = {}
      BY <2>2 DEF SvcInv, HoldInv, OneHolder
    <3> QED
      BY <3>1, <3>2
  <2>3. \E x : H = {x}
    BY <2>1, <2>2 DEF SvcInv, HoldInv, OneHolder
  <2> HIDE DEF H
  <2>4. Cardinality(H) = 1
    BY <2>3, FS_Singleton
  <2> QED
    BY <2>4 DEF H
<1> QED
  BY <1>1, SvcInvariant, PTL

\* Neither a New that fails, at whichever socket, nor a Shutdown that has
\* stopped the servers leaves sockets or devices open.
THEOREM NothingLeftOpenHolds == SvcSpec => []NothingLeftOpen
<1>1. SvcInv => NothingLeftOpen
  <2> SUFFICES ASSUME SvcInv, shutter = "done"
               PROVE  /\ before \subseteq UNION {mine[p] : p \in Procs}
                      /\ \A s \in Sockets : sock[s] = "open" => s \in left
    BY DEF NothingLeftOpen, ShutdownLeavesNothing, SvcInv
  <2>1. Taken
    BY DEF Taken
  <2>2. \A o \in before : \E p \in Procs : o \in mine[p]
    BY <2>1 DEF SvcInv, HoldInv, OneHolder, BeforeInv
  <2> QED
    BY <2>1, <2>2 DEF SvcInv, SocketsInv
<1> QED
  BY <1>1, SvcInvariant, PTL

------------------------------------------------------------------------------
(* The credentials of a device                                              *)

\* While the manager is open, a credential whose request was answered is in its
\* map; only what was under way at Close is saved late.
AnsweredIsStored == ~closed => answered \intersect Gone(credentials) = {}

CredInv ==
    /\ CredentialsInv
    /\ AnsweredIsStored
    /\ closed \in BOOLEAN /\ late \in BOOLEAN
    /\ late => closed

\* A credential stored under an ID of its own takes none away.
LEMMA PutAdds ==
    ASSUME NEW id, NEW c
    PROVE  /\ id \notin DOMAIN credentials => Gone(Put(id, c)) \subseteq Gone(credentials)
           /\ c \notin Gone(Put(id, c))
  BY DEF Gone, Put

\* Every step keeps the credentials.
LEMMA CredStep == CredInv /\ [CredNext]_credVars => CredInv'
<1> SUFFICES ASSUME CredInv, [CredNext]_credVars PROVE CredInv'
  OBVIOUS
<1> USE DEF CredInv, CredentialsInv, AddedIsKept, AnsweredIsSaved, AnsweredIsStored
<1>1. ASSUME NEW p \in Posters, NEW c \in Creds, NEW id \in IDs, AddOrReplaceCredential(p, c, id)
      PROVE CredInv'
  <2>1. CASE id = 0
    BY <1>1, <2>1 DEF AddOrReplaceCredential
  <2>2. CASE id # 0
    BY <1>1, <2>2, PutAdds DEF AddOrReplaceCredential
  <2> QED
    BY <2>1, <2>2
<1>2. ASSUME NEW p \in Posters, Add(p) PROVE CredInv'
  <2>1. CASE post[p].id \in DOMAIN credentials
    BY <1>2, <2>1 DEF Add
  <2>2. CASE post[p].id \notin DOMAIN credentials
    BY <1>2, <2>2, PutAdds DEF Add
  <2> QED
    BY <2>1, <2>2
<1>3. ASSUME NEW p \in Posters, GetNextID(p) PROVE CredInv'
  BY <1>3 DEF GetNextID
<1>4. ASSUME NEW p \in Posters, Post(p) PROVE CredInv'
  BY <1>4 DEF Post
<1>5. CASE SaveByCloud
  BY <1>5 DEF SaveByCloud
<1>6. ASSUME NEW s \in Subjects, RemoveCredentialsBySubjects(s) PROVE CredInv'
  BY <1>6 DEF RemoveCredentialsBySubjects
<1>7. ASSUME NEW i \in IDs, RemoveCredentials(i) PROVE CredInv'
  BY <1>7 DEF RemoveCredentials
<1>8. CASE CloseCredentials
  BY <1>8 DEF CloseCredentials
<1>9. CASE ImportConfig
  BY <1>9 DEF ImportConfig
<1>10. CASE UNCHANGED credVars
  BY <1>10 DEF credVars
<1> QED
  BY <1>1, <1>2, <1>3, <1>4, <1>5, <1>6, <1>7, <1>8, <1>9, <1>10 DEF CredNext

\* No credential is lost, from the map or from what is saved, however many
\* requests add credentials at the same time, and across Close and crashes.
THEOREM CredentialsKept == CredSpec => []CredentialsInv
<1>1. CredInit => CredInv
  BY DEF CredInit, CredInv, CredentialsInv, AddedIsKept, AnsweredIsSaved, AnsweredIsStored
<1>2. CredInv => CredentialsInv
  BY DEF CredInv
<1> QED
  BY <1>1, <1>2, CredStep, PTL DEF CredSpec

-----------------------------------------------------------------------------
(* When a token is refreshed                                               *)

\* Quotient is the truncated division: a third of a non-negative duration is
\* non-negative, and no more than the duration.
LEMMA ThirdBounds == \A d \in Nat : 0 <= d \div 3 /\ d \div 3 <= d
  OBVIOUS

\* A token lives for a natural number of units, or for ever.
LEMMA LifetimesAreInts == \A l \in Lifetimes : l = -1 \/ l \in Nat
  BY LifetimeAssumption

LEMMA ValidUntilType ==
    ASSUME now \in Nat, NEW l \in Lifetimes
    PROVE  /\ ValidUntil(l) \in Nat \union {NoTime}
           /\ ValidUntil(l) # NoTime => l \in Nat /\ ValidUntil(l) = now + l
<1>1. CASE l = -1
  BY <1>1 DEF ValidUntil
<1>2. CASE l \in Nat
  <2>1. l # -1 /\ now + l \in Nat
    BY <1>2
  <2>2. ValidUntil(l) = now + l
    BY <2>1 DEF ValidUntil
  <2> QED
    BY <1>2, <2>1, <2>2
<1> QED
  BY <1>1, <1>2, LifetimesAreInts

LEMMA InitIInv == Init => IInv
<1> SUFFICES ASSUME Init PROVE IInv
  OBVIOUS
<1> USE TickAssumption
<1>1. /\ validUntil \in Nat \union {NoTime}
      /\ validUntil # NoTime => lifetime \in Nat /\ validUntil = now + lifetime
  BY ValidUntilType DEF Init
<1>2. now = 0 /\ nextTick \in Nat /\ 1 <= nextTick /\ nextTick <= TickInterval
  BY DEF Init
<1>3. lifetime \in Lifetimes /\ refreshable \in BOOLEAN /\ ticked \in BOOLEAN
  BY DEF Init
<1>4. manager \in Managing /\ dropped \in BOOLEAN /\ failed \in BOOLEAN
  BY DEF Init, Managing
<1>5. now \in Nat
  BY <1>2
<1>6. TypeOK
  BY <1>1, <1>2, <1>3, <1>4, <1>5 DEF TypeOK
<1>7. TickerInv
  BY <1>2 DEF TickerInv
<1>8. ValidAtNextTick
  BY <1>1, <1>2 DEF Init, ValidAtNextTick, BeyondTheMargin
<1> QED
  BY <1>6, <1>7, <1>8 DEF IInv

\* The test of isCredsExpiring that the connect of a handler makes.
LEMMA ConnectIInv ==
    ASSUME IInv, NEW forced \in BOOLEAN, Connect(forced), ticked' \in BOOLEAN
    PROVE  IInv'
<1> USE TickAssumption
<1>1. TypeOK' /\ TickerInv'
  BY DEF IInv, TypeOK, TickerInv, Connect, Managing
<1>2. ASSUME validUntil # NoTime, manager' # "refresh", ~BeyondTheMargin
      PROVE  nextTick + TickInterval <= validUntil
  <2>1. ~IsCredsExpiring /\ refreshable
    BY <1>2 DEF Connect, BeyondTheMargin
  <2>2. now \in Nat /\ validUntil \in Nat /\ nextTick \in Nat
    BY <1>2 DEF IInv, TypeOK
  <2>3. validUntil - now >= TickInterval * 2
    BY <1>2, <2>1, <2>2 DEF IsCredsExpiring, Diff
  <2> QED
    BY <2>2, <2>3 DEF IInv, TickerInv
<1>3. UNCHANGED <<validUntil, lifetime, refreshable, nextTick, dropped, failed>>
  BY DEF Connect
<1>4. BeyondTheMargin' = BeyondTheMargin
  BY <1>3 DEF BeyondTheMargin
<1>5. nextTick \in Nat /\ (validUntil # NoTime => validUntil \in Nat)
  BY DEF IInv, TypeOK
<1>6. ValidAtNextTick'
  BY <1>2, <1>3, <1>4, <1>5 DEF ValidAtNextTick, NoTime
<1> QED
  BY <1>1, <1>6 DEF IInv

LEMMA TokenStep == IInv /\ [Next]_vars => IInv'
<1> SUFFICES ASSUME IInv, [Next]_vars PROVE IInv'
  OBVIOUS
<1> USE TickAssumption, LifetimeAssumption
<1>1. CASE Advance
  BY <1>1 DEF Advance, IInv, TypeOK, ValidAtNextTick, BeyondTheMargin, TickerInv
<1>2. CASE Tick
  <2>1. now \in Nat /\ nextTick \in Nat /\ now = nextTick /\ nextTick' = nextTick + TickInterval
    BY <1>2 DEF Tick, IInv, TypeOK
  <2>2. TypeOK' /\ TickerInv'
    BY <1>2, <2>1 DEF Tick, IInv, TypeOK, TickerInv
  <2>3. ValidAtNextTick'
    BY <1>2, <2>1 DEF Tick, IInv, TypeOK, ValidAtNextTick, BeyondTheMargin
  <2> QED
    BY <2>2, <2>3 DEF IInv
<1>3. CASE HandleTimer
  BY <1>3, ConnectIInv DEF HandleTimer
<1>4. CASE HandleTrigger
  <2>1. ticked' \in BOOLEAN
    BY <1>4 DEF HandleTrigger, IInv, TypeOK
  <2> QED
    BY <1>4, <2>1, ConnectIInv DEF HandleTrigger
<1>5. CASE OtherHandler
  BY <1>5 DEF OtherHandler, IInv, TypeOK, Managing, ValidAtNextTick, BeyondTheMargin, TickerInv
<1>6. CASE Refreshed
  <2>1. lifetime' \in Lifetimes /\ validUntil' = ValidUntil(lifetime') /\ UNCHANGED <<now, nextTick, ticked>>
    BY <1>6 DEF Refreshed, NewToken
  <2>2. now \in Nat /\ nextTick \in Nat /\ nextTick <= now + TickInterval
    BY DEF IInv, TypeOK, TickerInv
  <2>3. /\ validUntil' \in Nat \union {NoTime}
        /\ validUntil' # NoTime => lifetime' \in Nat /\ validUntil' = now + lifetime'
    BY <2>1, <2>2, ValidUntilType
  <2>4. TypeOK' /\ TickerInv'
    BY <1>6, <2>1, <2>3 DEF Refreshed, NewToken, IInv, TypeOK, TickerInv, Managing
  <2>5. ValidAtNextTick'
    BY <2>1, <2>2, <2>3 DEF ValidAtNextTick, BeyondTheMargin
  <2> QED
    BY <2>4, <2>5 DEF IInv
<1>7. CASE RefreshFails
  BY <1>7 DEF RefreshFails, IInv, TypeOK, Managing, ValidAtNextTick, BeyondTheMargin, TickerInv
<1>8. CASE Return
  BY <1>8 DEF Return, IInv, TypeOK, Managing, ValidAtNextTick, BeyondTheMargin, TickerInv
<1>9. CASE UNCHANGED vars
  BY <1>9 DEF vars, IInv, TypeOK, ValidAtNextTick, BeyondTheMargin, TickerInv
<1> QED
  BY <1>1, <1>2, <1>3, <1>4, <1>5, <1>6, <1>7, <1>8, <1>9 DEF Next

\* The access token never expires unnoticed, for every tick interval, every
\* lifetime, every time a handler takes and every refresh that fails: when it
\* expires its refresh is under way, or one of the four cases that
\* BeyondTheMargin names has happened to it.
THEOREM TokenStaysValidHolds == Spec => []TokenStaysValid
<1>1. IInv => TokenStaysValid
  BY TickAssumption DEF IInv, TypeOK, ValidAtNextTick, TickerInv, TokenStaysValid, Expired
<1> QED
  BY <1>1, InitIInv, TokenStep, PTL DEF Spec

\* The test of isCredsExpiring that is to refresh the token a third before it
\* expires is never true on its own: the token is refreshed only when less
\* than two tick intervals are left, however long it lives.
THEOREM ThirdTestIsDead ==
    ASSUME now \in Int, validUntil \in Int, validUntil - now >= TickInterval * 2
    PROVE  ~IsCredsExpiring
<1> USE TickAssumption
<1>1. PICK d \in Nat : d = validUntil - now
  OBVIOUS
<1>2. d > 0
  BY <1>1
<1>3. Quotient(-Diff, 3) = -(d \div 3)
  BY <1>1, <1>2 DEF Quotient, Diff
<1>4. d \div 3 \in Int /\ d \div 3 <= d
  BY ThirdBounds
<1>5. ~(now > validUntil + Quotient(-Diff, 3))
  BY <1>1, <1>3, <1>4
<1> QED
  BY <1>1, <1>5 DEF IsCredsExpiring, Diff
==============================================================================
