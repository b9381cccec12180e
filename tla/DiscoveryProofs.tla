--------------------------- MODULE DiscoveryProofs ---------------------------
(***************************************************************************)
(* Proofs about the client's users of the discovery, for every set of      *)
(* devices, addresses and goroutines and every failure threshold:          *)
(* ObserveDevices keeps what DevicePresence promises and leaves neither an *)
(* event nor a subscription behind, GetDevicesDetails leaves no socket and *)
(* no goroutine behind and returns what was true of the devices, the cache *)
(* that the devices found go to holds each under its ID, closes the others *)
(* and keeps those found by IP, and the links that a device answers with   *)
(* lead to its endpoints.                                                  *)
(***************************************************************************)
EXTENDS DeviceCache, ObserveDevices, DevicesDetails, ResourceLinks, WellFoundedInduction, TLAPS

------------------------------------------------------------------------------
(* ObserveDevices: the inductive invariant                                  *)

\* The caller and the goroutine begin together, and whoever took the
\* subscription out of the client has it no longer.
CallerInv ==
    /\ pc = "new" <=> caller = "idle"
    /\ caller # "observing" => ~subscribed
    /\ closing => ~subscribed /\ caller \notin {"idle", "insert"}
    /\ caller = "stopped" => pc = "done"

\* The handler is closed by whoever took the subscription out, or by the
\* goroutine at its end.
ClosedInv ==
    isClosed /\ pc \notin {"remove", "done"} =>
        cancelled /\ ~subscribed /\ caller \notin {"idle", "insert"}

\* An observation that ended before it was inserted is known to have.
EarlyInv == pc = "done" /\ (subscribed \/ caller = "insert") => early

\* An event is there only while the handler runs.
EventInv ==
    /\ pc # "handle" => event = None
    /\ pc = "handle" => event \in {"online", "offline"} \X Devices

\* Between the rounds the count of failures is the number of rounds missed,
\* and the devices with a count are those last reported online.
BetweenRounds ==
    pc \in {"new", "poll", "wait"} =>
        /\ missed = onlineDeviceIDs
        /\ view = {d \in Devices : onlineDeviceIDs[d] # Absent}
        /\ ~failed

\* After a round the same holds of the new counts.
AfterRound ==
    pc \in {"report", "handle"} \/ (pc = "polled" /\ ~failed) => missed = current

\* What is still to be reported is due: an added device was found in this very
\* round and is not in the view, a removed one has used up its failures.
ReportsAreDue ==
    pc \in {"report", "handle"} =>
        /\ \A d \in added : d \notin view /\ current[d] = 0
        /\ \A d \in removed : d \in view /\ current[d] = Absent
EventIsDue ==
    pc = "handle" =>
        /\ event[2] \notin added \union removed
        /\ event[1] = "online" => event[2] \notin view /\ current[event[2]] = 0
        /\ event[1] = "offline" => event[2] \in view /\ current[event[2]] = Absent

\* Every other device is reported already, unless the handler was closed.
RestIsReported ==
    /\ pc \in {"report", "handle"} /\ ~isClosed =>
          \A d \in Devices : d \notin added \union removed /\ (pc = "handle" => event[2] # d) =>
             (d \in view <=> current[d] # Absent)
    /\ pc = "polled" /\ ~isClosed /\ ~failed =>
          \A d \in Devices : d \in view <=> current[d] # Absent

ObserverInv ==
    /\ TypeOK
    /\ CallerInv /\ ClosedInv /\ EarlyInv /\ EventInv
    /\ BetweenRounds /\ AfterRound /\ ReportsAreDue /\ EventIsDue /\ RestIsReported

------------------------------------------------------------------------------
(* GetDevicesDetails: the inductive invariant                               *)

RunEnded == {"none", "done", "failed"}

DetailsTypes ==
    /\ conn \in [Conns -> {"none", "open", "closed"}]
    /\ run \in [Conns -> RunEnded \union {"build", "publish", "published", "unbuilt", "unpublished"}]
    /\ reader \in [Tasks -> {"none", "links", "doxm", "details", "append", "done"}]

\* Sockets are open only between their dial and their close, and the
\* goroutines of the discovery run only while Discover does.
SocketsInTime ==
    /\ dpc \in {"idle", "dial", "waitIP", "returned"} => \A c \in Conns : conn[c] # "open"
    /\ dpc \in {"idle", "dial", "discover", "close", "waitIP", "returned"} =>
          \A c \in Conns : run[c] \in RunEnded

\* Without an error nobody reads by IP after the return.
ReadersInTime ==
    dpc = "returned" /\ ~err => \A d \in Devs : reader[<<d, "ip">>] \in {"none", "done"}

DetailsInv == DetailsTypes /\ SocketsInTime /\ ReadersInTime

------------------------------------------------------------------------------
(* ObserveDevices: the proof                                                *)

\* What the rounds leave alone, and what the client leaves alone.
ClientPart == CallerInv /\ ClosedInv /\ EarlyInv
RoundPart ==
    EventInv /\ BetweenRounds /\ AfterRound /\ ReportsAreDue /\ EventIsDue /\ RestIsReported

LEMMA ThresholdType == FailureThreshold \in Nat /\ FailureThreshold > 0 /\ Absent = FailureThreshold
  BY ThresholdAssumption DEF Absent

LEMMA ObserverInit == Init => ObserverInv
<1> SUFFICES ASSUME Init PROVE ObserverInv
  OBVIOUS
<1>1. TypeOK
  <2>1. /\ onlineDeviceIDs \in [Devices -> 0..Absent] /\ current \in [Devices -> 0..Absent]
        /\ missed \in [Devices -> 0..FailureThreshold]
    BY ThresholdType DEF Init
  <2>2. {failed, cancelled, isClosed, subscribed, closing, early} \subseteq BOOLEAN
    BY DEF Init
  <2>3. /\ present \subseteq Devices
        /\ {host, byIP, task} \subseteq Devices \union {None}
        /\ {found, added, removed, view} \subseteq SUBSET Devices
    BY DEF Init
  <2> QED
    BY <2>1, <2>2, <2>3 DEF Init, TypeOK
<1>2. ClientPart
  BY DEF Init, ClientPart, CallerInv, ClosedInv, EarlyInv
<1>3. view = {d \in Devices : onlineDeviceIDs[d] # Absent} /\ missed = onlineDeviceIDs
  BY DEF Init, Absent
<1>4. RoundPart
  BY <1>3 DEF Init, RoundPart, EventInv, BetweenRounds, AfterRound, ReportsAreDue,
     EventIsDue, RestIsReported
<1> QED
  BY <1>1, <1>2, <1>4 DEF ObserverInv, ClientPart, RoundPart

\* Whoever leaves these variables alone leaves the rounds' part alone.
LEMMA RoundUnchanged ==
    ASSUME RoundPart,
           UNCHANGED <<pc, onlineDeviceIDs, current, added, removed, failed, event, view, missed,
                       isClosed>>
    PROVE  RoundPart'
  BY DEF RoundPart, EventInv, BetweenRounds, AfterRound, ReportsAreDue, EventIsDue,
     RestIsReported

LEMMA ClientUnchanged ==
    ASSUME ClientPart,
           UNCHANGED <<pc, caller, subscribed, closing, cancelled, isClosed, early>>
    PROVE  ClientPart'
  BY DEF ClientPart, CallerInv, ClosedInv, EarlyInv

\* The network changes only itself.
LEMMA ObserverEnvironment == ObserverInv /\ Environment => ObserverInv'
<1> SUFFICES ASSUME ObserverInv, Environment PROVE ObserverInv'
  OBVIOUS
<1>1. /\ UNCHANGED <<pc, roundVars, event, cancelled, isClosed, subscribed, caller, closing, view,
                     missed, early>>
      /\ present' \subseteq Devices /\ {host', byIP'} \subseteq Devices \union {None}
  BY DEF Environment, Appear, Leave, Readdress, GetDeviceByIP, ObserverInv, TypeOK
<1>2. TypeOK'
  BY <1>1 DEF ObserverInv, TypeOK, roundVars
<1>3. RoundPart' /\ ClientPart'
  BY <1>1, RoundUnchanged, ClientUnchanged DEF ObserverInv, RoundPart, ClientPart, roundVars
<1> QED
  BY <1>2, <1>3 DEF ObserverInv, RoundPart, ClientPart

\* Nor do the steps within a round touch what was counted or reported.
LEMMA ObserverRound ==
    ObserverInv /\ (Observe \/ Ping \/ DiscoveryError \/ \E d \in Devices : Discovered(d))
        => ObserverInv'
<1> SUFFICES ASSUME ObserverInv, Observe \/ Ping \/ DiscoveryError \/ \E d \in Devices : Discovered(d)
             PROVE  ObserverInv'
  OBVIOUS
<1>0. TypeOK /\ RoundPart /\ ClientPart
  BY DEF ObserverInv, RoundPart, ClientPart
<1>1. /\ UNCHANGED <<onlineDeviceIDs, current, added, removed, event, cancelled, isClosed,
                     subscribed, caller, closing, view, missed, early>>
      /\ pc \in {"poll", "wait"} /\ pc' \in {"wait", "polled"}
      /\ pc' = "polled" => failed'
      /\ pc' = "wait" => failed' = failed
  BY DEF Observe, Ping, DiscoveryError, Discovered
<1>2. TypeOK'
  <2>1. /\ present' \subseteq Devices /\ {host', byIP', task'} \subseteq Devices \union {None}
        /\ found' \subseteq Devices /\ failed' \in BOOLEAN
    BY <1>0 DEF TypeOK, Observe, Ping, DiscoveryError, Discovered, envVars
  <2> QED
    BY <1>0, <1>1, <2>1 DEF TypeOK
<1>3. ClientPart'
  BY <1>0, <1>1 DEF ClientPart, CallerInv, ClosedInv, EarlyInv
<1>4. RoundPart'
  BY <1>0, <1>1 DEF RoundPart, EventInv, BetweenRounds, AfterRound, ReportsAreDue, EventIsDue,
     RestIsReported
<1> QED
  BY <1>2, <1>3, <1>4 DEF ObserverInv, RoundPart, ClientPart

\* The client's part of a step that only moves the goroutine within its loop.
LEMMA ClientMoves ==
    ASSUME ClientPart, UNCHANGED <<caller, subscribed, closing, cancelled, isClosed, early>>,
           pc \notin {"new", "remove", "done"}, pc' \notin {"new", "remove", "done"}
    PROVE  ClientPart'
  BY DEF ClientPart, CallerInv, ClosedInv, EarlyInv

\* The count of failures goes on as the rounds missed do.
LEMMA CountIsMissed ==
    ASSUME NEW n \in 0 .. FailureThreshold, NEW F, NEW d, n = onlineDeviceIDs[d]
    PROVE  ProcessDevices(d, F) =
             IF d \in F THEN 0 ELSE IF n < FailureThreshold THEN n + 1 ELSE n
  BY ThresholdType DEF ProcessDevices

\* The end of a round.
LEMMA ObserverRoundOver == ObserverInv /\ RoundOver => ObserverInv'
<1> SUFFICES ASSUME ObserverInv, RoundOver PROVE ObserverInv'
  OBVIOUS
<1>0. TypeOK /\ RoundPart /\ ClientPart
  BY DEF ObserverInv, RoundPart, ClientPart
<1>1. /\ pc = "wait" /\ pc' = "report" /\ ~cancelled
      /\ current' = [d \in Devices |-> ProcessDevices(d, found)]
      /\ added' = {d \in Devices : current'[d] # Absent /\ onlineDeviceIDs[d] = Absent}
      /\ removed' = {d \in Devices : current'[d] = Absent /\ onlineDeviceIDs[d] # Absent}
      /\ UNCHANGED <<present, host, byIP, task, found, onlineDeviceIDs, failed, event, cancelled,
                     isClosed, subscribed, caller, closing, view, early>>
  BY DEF RoundOver, envVars
<1>2. missed' = [d \in Devices |-> IF d \in found THEN 0
                                   ELSE IF missed[d] < FailureThreshold THEN missed[d] + 1
                                   ELSE missed[d]]
  BY DEF RoundOver
<1>3. missed = onlineDeviceIDs /\ view = {d \in Devices : onlineDeviceIDs[d] # Absent}
  BY <1>0, <1>1 DEF RoundPart, BetweenRounds
<1>4. \A d \in Devices : onlineDeviceIDs[d] \in 0 .. FailureThreshold
  BY <1>0, ThresholdType DEF TypeOK
<1>5. \A d \in Devices : ProcessDevices(d, found) =
             IF d \in found THEN 0
             ELSE IF missed[d] < FailureThreshold THEN missed[d] + 1 ELSE missed[d]
  BY <1>3, <1>4, CountIsMissed
<1>6. missed' = current'
  BY <1>1, <1>2, <1>5
<1>7. current' \in [Devices -> 0 .. FailureThreshold]
  BY <1>1, <1>3, <1>4, <1>5, ThresholdType
<1>8. TypeOK'
  BY <1>0, <1>1, <1>6, <1>7, ThresholdType DEF TypeOK
<1>9. ClientPart'
  BY <1>0, <1>1, ClientMoves
<1>10. \A d \in added' : d \notin view /\ current'[d] = 0
  BY <1>1, <1>3, <1>4, <1>5, ThresholdType
<1>11. \A d \in removed' : d \in view /\ current'[d] = Absent
  BY <1>1, <1>3
<1>12. \A d \in Devices : d \notin added' \union removed' => (d \in view <=> current'[d] # Absent)
  BY <1>1, <1>3
<1>13. RoundPart'
  BY <1>0, <1>1, <1>6, <1>10, <1>11, <1>12 DEF RoundPart, EventInv, BetweenRounds, AfterRound,
     ReportsAreDue, EventIsDue, RestIsReported
<1> QED
  BY <1>8, <1>9, <1>13 DEF ObserverInv, RoundPart, ClientPart

\* The next report is taken, and given to the handler unless it is closed.
LEMMA ObserverEmit == ObserverInv /\ Emit => ObserverInv'
<1> SUFFICES ASSUME ObserverInv, Emit PROVE ObserverInv'
  OBVIOUS
<1>0. TypeOK /\ RoundPart /\ ClientPart
  BY DEF ObserverInv, RoundPart, ClientPart
<1>1. PICK d \in (IF added # {} THEN added ELSE removed) :
          /\ added' = added \ {d}
          /\ removed' = IF added # {} THEN removed ELSE removed \ {d}
          /\ IF isClosed THEN UNCHANGED <<event, pc>>
             ELSE event' = <<IF added # {} THEN "online" ELSE "offline", d>> /\ pc' = "handle"
  BY DEF Emit
<1>2. /\ UNCHANGED <<present, host, byIP, task, found, onlineDeviceIDs, current, failed, cancelled,
                     isClosed, subscribed, caller, closing, view, missed, early>>
      /\ pc = "report" /\ pc' \in {"report", "handle"}
  BY <1>1 DEF Emit, envVars
<1>3. d \in Devices /\ added \subseteq Devices /\ removed \subseteq Devices /\ event = None
  BY <1>0, <1>1, <1>2 DEF TypeOK, RoundPart, EventInv
<1>4. added' \subseteq added /\ removed' \subseteq removed
  BY <1>1
<1>5. event' \in ({"online", "offline"} \X Devices) \union {None}
  <2>1. CASE isClosed
    BY <1>1, <1>3, <2>1
  <2>2. CASE ~isClosed
    BY <1>1, <1>3, <2>2
  <2> QED
    BY <2>1, <2>2
<1>6. TypeOK'
  BY <1>0, <1>2, <1>3, <1>4, <1>5 DEF TypeOK
<1>7. ClientPart'
  BY <1>0, <1>2, ClientMoves
<1>8. /\ \A x \in added : x \notin view /\ current[x] = 0
      /\ \A x \in removed : x \in view /\ current[x] = Absent
      /\ missed = current
  BY <1>0, <1>2 DEF RoundPart, ReportsAreDue, AfterRound
<1>9. CASE isClosed
  <2>1. UNCHANGED <<event, pc>>
    BY <1>1, <1>9
  <2>2. RoundPart'
    BY <1>0, <1>2, <1>4, <1>8, <1>9, <2>1 DEF RoundPart, EventInv, BetweenRounds, AfterRound,
       ReportsAreDue, EventIsDue, RestIsReported
  <2> QED
    BY <1>6, <1>7, <2>2 DEF ObserverInv, RoundPart, ClientPart
<1>10. CASE ~isClosed
  <2>1. /\ pc' = "handle" /\ event' = <<IF added # {} THEN "online" ELSE "offline", d>>
    BY <1>1, <1>10
  <2>2. event'[2] = d /\ event' \in {"online", "offline"} \X Devices
        /\ event'[1] = IF added # {} THEN "online" ELSE "offline"
    BY <1>3, <2>1
  <2>3. d \notin added' \union removed'
    BY <1>1, <1>8
  <2>4. /\ event'[1] = "online" => d \notin view /\ current[d] = 0
        /\ event'[1] = "offline" => d \in view /\ current[d] = Absent
    BY <1>1, <1>8, <2>2
  <2>5. \A x \in Devices : x \notin added \union removed => (x \in view <=> current[x] # Absent)
    BY <1>0, <1>2, <1>10 DEF RoundPart, RestIsReported
  <2>6. \A x \in Devices : x \notin added' \union removed' /\ x # d =>
            (x \in view <=> current[x] # Absent)
    BY <1>1, <2>5
  <2>7. RoundPart'
    BY <1>2, <1>4, <1>8, <2>1, <2>2, <2>3, <2>4, <2>6 DEF RoundPart, EventInv, BetweenRounds,
       AfterRound, ReportsAreDue, EventIsDue, RestIsReported
  <2> QED
    BY <1>6, <1>7, <2>7 DEF ObserverInv, RoundPart, ClientPart
<1> QED
  BY <1>9, <1>10

\* The handler brings the view up to date for one device.
LEMMA ObserverHandle == ObserverInv /\ Handle => ObserverInv'
<1> SUFFICES ASSUME ObserverInv, Handle PROVE ObserverInv'
  OBVIOUS
<1>0. TypeOK /\ RoundPart /\ ClientPart
  BY DEF ObserverInv, RoundPart, ClientPart
<1>1. /\ UNCHANGED <<present, host, byIP, task, found, onlineDeviceIDs, current, added, removed,
                     cancelled, isClosed, subscribed, caller, closing, missed, early>>
      /\ pc = "handle" /\ event' = None
      /\ view' = IF event[1] = "online" THEN view \union {event[2]} ELSE view \ {event[2]}
  BY DEF Handle, envVars
<1>2. (pc' = "report" /\ failed' = failed) \/ (pc' = "polled" /\ failed')
  BY DEF Handle
<1>3. event[2] \in Devices /\ event[1] \in {"online", "offline"}
  BY <1>0, <1>1 DEF RoundPart, EventInv
<1>4. view' \subseteq Devices /\ failed' \in BOOLEAN /\ pc' \in {"report", "polled"}
  BY <1>0, <1>1, <1>2, <1>3 DEF TypeOK, Handle
<1>5. TypeOK'
  BY <1>0, <1>1, <1>4 DEF TypeOK
<1>6. ClientPart'
  BY <1>0, <1>1, <1>4, ClientMoves
<1>7. /\ \A x \in added : x \notin view /\ current[x] = 0
      /\ \A x \in removed : x \in view /\ current[x] = Absent
      /\ missed = current
      /\ event[2] \notin added \union removed
      /\ event[1] = "online" => event[2] \notin view /\ current[event[2]] = 0
      /\ event[1] = "offline" => event[2] \in view /\ current[event[2]] = Absent
  BY <1>0, <1>1 DEF RoundPart, ReportsAreDue, AfterRound, EventIsDue
<1>8. ~isClosed => \A x \in Devices : x \notin added \union removed /\ event[2] # x =>
          (x \in view <=> current[x] # Absent)
  BY <1>0, <1>1 DEF RoundPart, RestIsReported
<1>9. ~isClosed => \A x \in Devices : x \notin added \union removed =>
          (x \in view' <=> current[x] # Absent)
  BY <1>1, <1>3, <1>7, <1>8, ThresholdType
<1>10. /\ \A x \in added : x \notin view' 
       /\ \A x \in removed : x \in view'
  BY <1>1, <1>7
<1>11. RoundPart'
  BY <1>1, <1>2, <1>7, <1>9, <1>10 DEF RoundPart, EventInv, BetweenRounds,
       AfterRound, ReportsAreDue, EventIsDue, RestIsReported
<1> QED
  BY <1>5, <1>6, <1>11 DEF ObserverInv, RoundPart, ClientPart

\* Everything is reported; the next round begins, or the goroutine ends.
LEMMA ObserverPollNext ==
    ObserverInv /\ (Reported \/ PollNext \/ RemoveSubscription) => ObserverInv'
<1> SUFFICES ASSUME ObserverInv, Reported \/ PollNext \/ RemoveSubscription PROVE ObserverInv'
  OBVIOUS
<1>0. TypeOK /\ RoundPart /\ ClientPart
  BY DEF ObserverInv, RoundPart, ClientPart
<1>1. CASE Reported
  <2>1. /\ UNCHANGED <<envVars, roundVars, event, cancelled, isClosed, subscribed, caller, closing,
                       view, missed, early>>
        /\ pc = "report" /\ pc' = "polled" /\ added = {} /\ removed = {}
    BY <1>1 DEF Reported
  <2>2. TypeOK'
    BY <1>0, <2>1 DEF TypeOK, envVars, roundVars
  <2>3. ClientPart'
    BY <1>0, <2>1, ClientMoves
  <2>4. RoundPart'
    BY <1>0, <2>1 DEF RoundPart, EventInv, BetweenRounds, AfterRound, ReportsAreDue, EventIsDue,
       RestIsReported, roundVars
  <2> QED
    BY <2>2, <2>3, <2>4 DEF ObserverInv, RoundPart, ClientPart
<1>2. CASE PollNext /\ ~cancelled /\ ~failed
  <2>1. /\ UNCHANGED <<envVars, task, found, current, added, removed, failed, event, cancelled,
                       subscribed, caller, closing, view, missed, isClosed, early>>
        /\ onlineDeviceIDs' = current
        /\ pc = "polled" /\ pc' = "poll"
    BY <1>2 DEF PollNext
  <2>2. TypeOK'
    BY <1>0, <2>1 DEF TypeOK, envVars, roundVars
  <2>3. ClientPart'
    BY <1>0, <2>1, ClientMoves
  <2>4. ~isClosed /\ missed = current
    BY <1>0, <1>2, <2>1 DEF ClientPart, ClosedInv, RoundPart, AfterRound
  <2>5. \A d \in Devices : d \in view <=> current[d] # Absent
    BY <1>0, <1>2, <2>1, <2>4 DEF RoundPart, RestIsReported
  <2>6. view = {d \in Devices : current[d] # Absent}
    BY <1>0, <2>5 DEF TypeOK
  <2>7. RoundPart'
    BY <1>0, <1>2, <2>1, <2>4, <2>6 DEF RoundPart, EventInv, BetweenRounds, AfterRound, ReportsAreDue,
       EventIsDue, RestIsReported
  <2> QED
    BY <2>2, <2>3, <2>7 DEF ObserverInv, RoundPart, ClientPart
<1>3. CASE PollNext /\ (cancelled \/ failed)
  <2>1. /\ UNCHANGED <<envVars, task, found, current, added, removed, failed, event, cancelled,
                       subscribed, caller, closing, view, missed, onlineDeviceIDs>>
        /\ isClosed' = TRUE /\ early' = (caller = "insert")
        /\ pc = "polled" /\ pc' = IF isClosed THEN "done" ELSE "remove"
    BY <1>3 DEF PollNext
  <2>2. TypeOK'
    BY <1>0, <2>1 DEF TypeOK, envVars, roundVars
  <2>3. ClientPart'
    BY <1>0, <2>1 DEF ClientPart, CallerInv, ClosedInv, EarlyInv
  <2>4. RoundPart'
    BY <1>0, <2>1 DEF RoundPart, EventInv, BetweenRounds, AfterRound, ReportsAreDue, EventIsDue,
       RestIsReported
  <2> QED
    BY <2>2, <2>3, <2>4 DEF ObserverInv, RoundPart, ClientPart
<1>4. CASE RemoveSubscription
  <2>1. /\ UNCHANGED <<envVars, roundVars, event, isClosed, caller, closing, view, missed>>
        /\ subscribed' = FALSE /\ early' = (caller = "insert")
        /\ pc = "remove" /\ pc' = "done"
    BY <1>4 DEF RemoveSubscription
  <2>2. cancelled' = (cancelled \/ subscribed)
    BY <1>4 DEF RemoveSubscription
  <2>3. cancelled' \in BOOLEAN /\ early' \in BOOLEAN
    BY <2>1, <2>2
  <2>4. TypeOK'
    BY <1>0, <2>1, <2>3 DEF TypeOK, envVars, roundVars
  <2>5. ClientPart'
    BY <1>0, <2>1 DEF ClientPart, CallerInv, ClosedInv, EarlyInv
  <2>6. RoundPart'
    BY <1>0, <2>1 DEF RoundPart, EventInv, BetweenRounds, AfterRound, ReportsAreDue, EventIsDue,
       RestIsReported, roundVars
  <2> QED
    BY <2>4, <2>5, <2>6 DEF ObserverInv, RoundPart, ClientPart
<1> QED
  BY <1>1, <1>2, <1>3, <1>4

\* The calls of the client.
LEMMA ObserverClient == ObserverInv /\ Client => ObserverInv'
<1> SUFFICES ASSUME ObserverInv, Client PROVE ObserverInv'
  OBVIOUS
<1>0. TypeOK /\ RoundPart /\ ClientPart
  BY DEF ObserverInv, RoundPart, ClientPart
<1>1. CASE ObserveDevices
  <2>1. /\ UNCHANGED <<envVars, roundVars, event, cancelled, isClosed, subscribed, closing,
                       view, missed, early>>
        /\ caller = "idle" /\ caller' = "insert" /\ pc' = "poll"
    BY <1>1 DEF ObserveDevices
  <2>2. pc = "new"
    BY <1>0, <2>1 DEF ClientPart, CallerInv
  <2>3. TypeOK'
    BY <1>0, <2>1 DEF TypeOK, envVars, roundVars
  <2>4. ClientPart'
    BY <1>0, <2>1, <2>2 DEF ClientPart, CallerInv, ClosedInv, EarlyInv
  <2>5. RoundPart'
    BY <1>0, <2>1, <2>2 DEF RoundPart, EventInv, BetweenRounds, AfterRound, ReportsAreDue,
       EventIsDue, RestIsReported, roundVars
  <2> QED
    BY <2>3, <2>4, <2>5 DEF ObserverInv, RoundPart, ClientPart
<1>2. CASE InsertSubscription \/ StopObservingDevices \/ Wait \/ Close
  <2>1. UNCHANGED <<envVars, pc, roundVars, event, cancelled, isClosed, view, missed, early>>
    BY <1>2 DEF InsertSubscription, StopObservingDevices, Wait, Close
  <2>2. subscribed' \in BOOLEAN /\ closing' \in BOOLEAN
    BY <1>0, <1>2 DEF InsertSubscription, StopObservingDevices, Wait, Close, TypeOK
  <2>3. caller' \in {"idle", "insert", "observing", "cancel", "wait", "stopped"}
    BY <1>0, <1>2 DEF InsertSubscription, StopObservingDevices, Wait, Close, TypeOK
  <2>4. TypeOK'
    BY <1>0, <2>1, <2>2, <2>3 DEF TypeOK, envVars, roundVars
  <2>5. ClientPart'
    BY <1>0, <1>2 DEF InsertSubscription, StopObservingDevices, Wait, Close, ClientPart,
       CallerInv, ClosedInv, EarlyInv
  <2>6. RoundPart'
    BY <1>0, <2>1, RoundUnchanged DEF roundVars
  <2> QED
    BY <2>4, <2>5, <2>6 DEF ObserverInv, RoundPart, ClientPart
<1>3. CASE Cancel
  <2>1. /\ UNCHANGED <<envVars, pc, roundVars, event, subscribed, view, missed, early>>
        /\ isClosed' = TRUE /\ cancelled' = TRUE
        /\ \/ caller = "cancel" /\ caller' = "wait" /\ closing' = closing
           \/ closing /\ closing' = FALSE /\ caller' = caller
    BY <1>3 DEF Cancel
  <2>2. closing' \in BOOLEAN /\ caller' \in {"idle", "insert", "observing", "cancel", "wait", "stopped"}
    BY <1>0, <2>1 DEF TypeOK
  <2>4. TypeOK'
    BY <1>0, <2>1, <2>2 DEF TypeOK, envVars, roundVars
  <2>5. ClientPart'
    BY <1>0, <2>1 DEF ClientPart, CallerInv, ClosedInv, EarlyInv
  <2>6. RoundPart'
    BY <1>0, <2>1 DEF RoundPart, EventInv, BetweenRounds, AfterRound, ReportsAreDue,
       EventIsDue, RestIsReported, roundVars
  <2> QED
    BY <2>4, <2>5, <2>6 DEF ObserverInv, RoundPart, ClientPart
<1> QED
  BY <1>1, <1>2, <1>3 DEF Client

LEMMA ObserverStep == ObserverInv /\ [Next]_vars => ObserverInv'
<1>1. ObserverInv /\ UNCHANGED vars => ObserverInv'
  BY DEF vars, envVars, roundVars, ObserverInv, TypeOK, CallerInv, ClosedInv, EarlyInv, EventInv,
     BetweenRounds, AfterRound, ReportsAreDue, EventIsDue, RestIsReported
<1> QED
  BY <1>1, ObserverEnvironment, ObserverRound, ObserverRoundOver, ObserverEmit, ObserverHandle,
     ObserverPollNext, ObserverClient DEF Next, Observer

LEMMA ObserverInvariant == Spec => []ObserverInv
  BY ObserverInit, ObserverStep, PTL DEF Spec

\* No event comes after StopObservingDevices has returned, and an observation
\* that has ended is not in the client's subscriptions, in every order in which
\* the goroutine, StopObservingDevices, Close and the insertion meet but one:
\* when the goroutine ends before ObserveDevices inserts the subscription
\* (early), it stays there.  Every variable keeps its type.
THEOREM EndedInvHolds == Spec => []EndedInv
<1>1. ObserverInv => EndedInv
  BY DEF ObserverInv, CallerInv, EarlyInv, EventInv, EndedInv, NoEventAfterStop,
     NoDanglingSubscription
<1> QED
  BY <1>1, ObserverInvariant, PTL

------------------------------------------------------------------------------
(* ObserveDevices implements DevicePresence                                 *)

LEMMA PresenceInit == Init => Presence!Init
  BY DEF Init, Presence!Init

\* A report is what DevicePresence allows: of a device found in the latest
\* round, or missed in FailureThreshold rounds, and not reported already.
LEMMA PresenceReports ==
    ASSUME ObserverInv, Handle
    PROVE  \E d \in Devices : Presence!Online(d) \/ Presence!Offline(d)
<1>1. /\ pc = "handle" /\ pc' \in {"report", "polled"} /\ missed' = missed
      /\ view' = IF event[1] = "online" THEN view \union {event[2]} ELSE view \ {event[2]}
  BY DEF Handle
<1>2. event[2] \in Devices /\ event[1] \in {"online", "offline"}
  BY <1>1 DEF ObserverInv, EventInv
<1>3. missed = current
  BY <1>1 DEF ObserverInv, AfterRound
<1>4. CASE event[1] = "online"
  <2>1. event[2] \notin view /\ missed[event[2]] = 0
    BY <1>1, <1>3, <1>4 DEF ObserverInv, EventIsDue
  <2>2. Presence!Online(event[2])
    BY <1>1, <1>4, <2>1 DEF Presence!Online
  <2> QED
    BY <1>2, <2>2
<1>5. CASE event[1] = "offline"
  <2>1. event[2] \in view /\ missed[event[2]] = FailureThreshold
    BY <1>1, <1>3, <1>5 DEF ObserverInv, EventIsDue, Absent
  <2>2. Presence!Offline(event[2])
    BY <1>1, <1>5, <2>1 DEF Presence!Offline
  <2> QED
    BY <1>2, <2>2
<1> QED
  BY <1>2, <1>4, <1>5

LEMMA PresenceRound ==
    ASSUME ObserverInv, RoundOver
    PROVE  Presence!Round(found)
<1>1. /\ missed' = [d \in Devices |-> IF d \in found THEN 0
                                    ELSE IF missed[d] < FailureThreshold THEN missed[d] + 1
                                    ELSE missed[d]]
      /\ pc = "wait" /\ pc' = "report" /\ view' = view
  BY DEF RoundOver
<1>2. \A d \in Devices : missed[d] \in 0 .. FailureThreshold
  BY DEF ObserverInv, TypeOK
<1>3. \A d \in Devices : ~(missed[d] < FailureThreshold) => missed[d] = FailureThreshold
  BY <1>2, ThresholdType
<1>4. missed' = [d \in Devices |-> IF d \in found THEN 0
                                    ELSE IF missed[d] < FailureThreshold THEN missed[d] + 1
                                    ELSE FailureThreshold]
  BY <1>1, <1>3
<1> QED
  BY <1>1, <1>4 DEF Presence!Round

LEMMA PresenceStep == ObserverInv /\ [Next]_vars => [Presence!Next]_Presence!vars
<1> SUFFICES ASSUME ObserverInv, [Next]_vars PROVE [Presence!Next]_Presence!vars
  OBVIOUS
<1>1. CASE Handle
  BY <1>1, PresenceReports DEF Presence!Next
<1>2. CASE RoundOver
  <2>1. found \in SUBSET Devices
    BY DEF ObserverInv, TypeOK
  <2> QED
    BY <1>2, <2>1, PresenceRound DEF Presence!Next
<1>3. CASE PollNext \/ RemoveSubscription
  <2>1. view' = view /\ missed' = missed /\ pc # "done"
    BY <1>3 DEF PollNext, RemoveSubscription
  <2>2. CASE pc' = "done"
    BY <2>1, <2>2 DEF Presence!Next, Presence!End
  <2>3. CASE pc' # "done"
    BY <2>1, <2>3 DEF Presence!vars
  <2> QED
    BY <2>2, <2>3
<1>4. CASE Environment \/ UNCHANGED vars \/ \E d \in Devices : Discovered(d)
  <2>1. view' = view /\ missed' = missed /\ pc' = pc
    BY <1>4 DEF Environment, Appear, Leave, Readdress, GetDeviceByIP, Discovered, vars
  <2> QED
    BY <2>1 DEF Presence!vars
<1>5. CASE Observe \/ Ping \/ DiscoveryError \/ Emit \/ Reported
  <2>1. view' = view /\ missed' = missed /\ pc # "done" /\ pc' # "done"
    BY <1>5 DEF Observe, Ping, DiscoveryError, Emit, Reported
  <2> QED
    BY <2>1 DEF Presence!vars
<1>6. CASE Client
  <2>1. view' = view /\ missed' = missed
    BY <1>6 DEF Client, ObserveDevices, InsertSubscription, StopObservingDevices, Cancel, Wait,
       Close
  <2>2. (pc = "new" /\ pc' = "poll") \/ pc' = pc
    BY <1>6 DEF Client, ObserveDevices, InsertSubscription, StopObservingDevices, Cancel, Wait,
       Close, ObserverInv, CallerInv
  <2> QED
    BY <2>1, <2>2 DEF Presence!vars
<1> QED
  BY <1>1, <1>2, <1>3, <1>4, <1>5, <1>6 DEF Next, Observer

\* ObserveDevices implements DevicePresence: the two events of a device
\* alternate, online only after a round that has found it, by its answer or by
\* one from its address, and offline only after FailureThreshold rounds that
\* have not, however answers are lost, the address changes hands, or the
\* observation is stopped.
THEOREM PresenceIsKept == Spec => PresenceKept
  BY PresenceInit, PresenceStep, ObserverInvariant, PTL DEF Spec, PresenceKept, Presence!Spec

------------------------------------------------------------------------------
(* GetDevicesDetails: the proof                                             *)

LEMMA DetailsInvInit == DetailsInit => DetailsInv
  BY DEF DetailsInit, DetailsInv, DetailsTypes, SocketsInTime, ReadersInTime, RunEnded

\* Steps of a goroutine that reads a device.
LEMMA DetailsRead ==
    ASSUME DetailsInv, NEW t \in Tasks, Read(t)
    PROVE  DetailsInv'
<1>0. CASE PanicByIP(t)
  <2>1. dpc' = "panicked" /\ UNCHANGED <<err, conn, run, reader>>
    BY <1>0 DEF PanicByIP, discVars, readVars
  <2> QED
    BY <2>1 DEF DetailsInv, DetailsTypes, SocketsInTime, ReadersInTime
<1> SUFFICES ASSUME ~PanicByIP(t) PROVE DetailsInv'
  BY <1>0
<1>1. /\ UNCHANGED <<dpc, err, conn, run>>
      /\ reader[t] \in {"links", "doxm", "details", "append"}
      /\ \E l \in {"doxm", "details", "append", "done"} : reader' = [reader EXCEPT ![t] = l]
  BY DEF Read, GetDetails, GetOwnership, GetDeviceDetails, AppendDevice, Goto, discVars
<1>2. DetailsTypes'
  BY <1>1 DEF DetailsInv, DetailsTypes
<1>3. SocketsInTime'
  BY <1>1 DEF DetailsInv, SocketsInTime
<1>4. \A x \in Tasks : reader[x] \in {"none", "done"} => reader'[x] = reader[x]
  BY <1>1 DEF DetailsInv, DetailsTypes
<1>5. \A d \in Devs : <<d, "ip">> \in Tasks
  BY DEF Tasks
<1>6. ReadersInTime'
  BY <1>1, <1>4, <1>5 DEF DetailsInv, ReadersInTime
<1> QED
  BY <1>2, <1>3, <1>6 DEF DetailsInv

\* Steps of a goroutine of the discovery, and an answer it receives.
LEMMA DetailsRun ==
    ASSUME DetailsInv, NEW c \in Conns, RunStep(c) \/ \E d \in Devs : HandleResponse(c, d)
    PROVE  DetailsInv'
<1>1. CASE RunStep(c)
  <2>1. /\ UNCHANGED <<conn, reader>>
        /\ run[c] \notin RunEnded
        /\ \E l \in RunEnded \union {"build", "publish", "published", "unbuilt", "unpublished"} :
              run' = [run EXCEPT ![c] = l]
        /\ (dpc' = dpc /\ err' = err) \/ (dpc = "select" /\ dpc' = "wait")
    BY <1>1 DEF RunStep, Build, Publish, RunDone, SelectError, Runs, RunEnded, readVars
  <2>2. DetailsTypes'
    BY <2>1 DEF DetailsInv, DetailsTypes
  <2>3. dpc \notin {"idle", "dial", "discover", "close", "waitIP", "returned"}
    BY <2>1 DEF DetailsInv, SocketsInTime
  <2>4. dpc' \notin {"idle", "dial", "discover", "close", "waitIP", "returned"}
    BY <2>1, <2>3
  <2> QED
    BY <2>2, <2>4 DEF DetailsInv, SocketsInTime, ReadersInTime
<1>2. ASSUME NEW d \in Devs, HandleResponse(c, d) PROVE DetailsInv'
  <2>1. /\ UNCHANGED <<dpc, err, conn, run>> /\ conn[c] = "open"
        /\ reader' = [reader EXCEPT ![<<d, "multicast">>] = "links"]
    BY <1>2 DEF HandleResponse
  <2>2. dpc # "returned"
    BY <2>1 DEF DetailsInv, SocketsInTime
  <2>3. DetailsTypes'
    BY <2>1 DEF DetailsInv, DetailsTypes
  <2> QED
    BY <2>1, <2>2, <2>3 DEF DetailsInv, SocketsInTime, ReadersInTime
<1> QED
  BY <1>1, <1>2

\* Steps of GetDevicesDetails itself.
LEMMA DetailsMain ==
    ASSUME DetailsInv, GetDevicesDetails \/ Deadline \/ Main
    PROVE  DetailsInv'
<1>1. CASE GetDevicesDetails
  <2>1. /\ UNCHANGED <<err, conn, run>> /\ dpc = "idle" /\ dpc' = "dial"
        /\ \E ips \in SUBSET ByIP :
          reader' = [t \in Tasks |-> IF t[2] = "ip" /\ t[1] \in ips THEN "links" ELSE "none"]
    BY <1>1 DEF GetDevicesDetails, discVars
  <2>2. DetailsTypes'
    BY <2>1 DEF DetailsInv, DetailsTypes
  <2> QED
    BY <2>1, <2>2 DEF DetailsInv, SocketsInTime, ReadersInTime
<1>2. CASE DialDiscoveryAddresses
  <2>1. UNCHANGED <<run, reader>> /\ dpc = "dial" /\ dpc' \in {"discover", "returned"}
    BY <1>2 DEF DialDiscoveryAddresses, readVars
  <2>2. dpc' = "returned" => err' /\ conn' = conn
    BY <1>2 DEF DialDiscoveryAddresses
  <2>3. conn' \in [Conns -> {"none", "open", "closed"}]
    BY <1>2 DEF DialDiscoveryAddresses, DetailsInv, DetailsTypes
  <2> QED
    BY <2>1, <2>2, <2>3 DEF DetailsInv, DetailsTypes, SocketsInTime, ReadersInTime
<1>3. CASE Discover
  <2>1. /\ UNCHANGED <<conn, reader>> /\ dpc' = "select"
        /\ run' = [c \in Conns |-> IF conn[c] = "open" THEN "build" ELSE "none"]
    BY <1>3 DEF Discover, readVars
  <2>2. DetailsTypes'
    BY <2>1 DEF DetailsInv, DetailsTypes, RunEnded
  <2> QED
    BY <2>1, <2>2 DEF DetailsInv, SocketsInTime, ReadersInTime
<1>4. CASE Deadline \/ SelectDone \/ WaitDiscovery
  <2>1. UNCHANGED <<conn, run, reader, err>>
    BY <1>4 DEF Deadline, SelectDone, WaitDiscovery, readVars, discVars
  <2>2. \/ dpc' = dpc \/ dpc' = "wait"
        \/ dpc' = "close" /\ \A c \in Conns : run[c] \in {"none", "done", "failed"}
    BY <1>4 DEF Deadline, SelectDone, WaitDiscovery
  <2> QED
    BY <2>1, <2>2 DEF DetailsInv, DetailsTypes, SocketsInTime, ReadersInTime, RunEnded
<1>5. CASE CloseConns
  <2>1. /\ UNCHANGED <<err, run, reader>> /\ dpc = "close"
        /\ conn' = [c \in Conns |-> IF conn[c] = "open" THEN "closed" ELSE conn[c]]
        /\ dpc' = IF err THEN "returned" ELSE "waitIP"
    BY <1>5 DEF CloseConns, readVars
  <2>2. DetailsTypes' /\ \A c \in Conns : conn'[c] # "open"
    BY <2>1 DEF DetailsInv, DetailsTypes
  <2> QED
    BY <2>1, <2>2 DEF DetailsInv, SocketsInTime, ReadersInTime
<1>6. CASE ReturnDevices
  <2>1. /\ UNCHANGED <<conn, run, reader, err>> /\ dpc = "waitIP" /\ dpc' = "returned"
        /\ \A d \in Devs : reader[<<d, "ip">>] \in {"none", "done"}
    BY <1>6 DEF ReturnDevices, discVars, readVars
  <2> QED
    BY <2>1 DEF DetailsInv, DetailsTypes, SocketsInTime, ReadersInTime
<1> QED
  BY <1>1, <1>2, <1>3, <1>4, <1>5, <1>6 DEF Main

LEMMA DetailsStep == DetailsInv /\ [DetailsNext]_detailsVars => DetailsInv'
<1> SUFFICES ASSUME DetailsInv, [DetailsNext]_detailsVars PROVE DetailsInv'
  OBVIOUS
<1>1. CASE UNCHANGED detailsVars \/ \E d \in Devs, o \in Owners : ChangeOwner(d, o)
  <2>1. UNCHANGED <<dpc, err, conn, run, reader>>
    BY <1>1 DEF ChangeOwner, detailsVars, discVars, readVars
  <2> QED
    BY <2>1 DEF DetailsInv, DetailsTypes, SocketsInTime, ReadersInTime
<1> QED
  BY <1>1, DetailsRead, DetailsRun, DetailsMain DEF DetailsNext

\* When GetDevicesDetails has returned, every socket of the discovery is
\* closed and every goroutine that used it has ended, also after an error, and
\* without one nobody reads a device by IP any more.
THEOREM NothingIsLeftHolds == DetailsSpec => []NothingIsLeft
<1>1. DetailsInv => NothingIsLeft
  BY DEF DetailsInv, SocketsInTime, ReadersInTime, NothingIsLeft, RunEnded
<1> QED
  BY <1>1, DetailsInvInit, DetailsStep, PTL DEF DetailsSpec

------------------------------------------------------------------------------
(* The device cache: the inductive invariant                                *)

NeedsId == {"load", "links", "compare", "mcast", "mcastLinks", "closeNew", "got", "owning", "moveExp",
            "moveDelete", "temporary"}
NeedsDev == Dereferences \union {"closeNew", "ipStore", "ipDrop", "moveDelete"}
NeedsNew == {"mcastLinks", "closeNew", "store", "ipOld", "ipStore", "moveDelete",
             "rename", "closeRenamed"}
AfterTouch == {"links", "ipStore", "closeNew", "ipDrop", "handleLinks", "idle", "moveDelete", "closeRenamed"}
AfterStore == {"closeNew", "ipDrop", "handleLinks", "idle", "moveDelete", "closeRenamed"}
NeedsKey == {"touch", "compare", "rekey", "rename"}

\* What a call has, by where it is.
Fields(r) ==
    /\ r.at \in NeedsId => r.id # Nil
    /\ r.at \in NeedsDev => r.dev # Nil
    /\ r.at \in NeedsNew => r.new # Nil
    /\ r.at \notin NeedsNew \union {"touch"} => r.new = Nil
    /\ r.at = "touch" => r.then \in AfterTouch
    /\ r.at = "store" => r.then \in AfterStore
    /\ r.at \in {"unlessIP", "delete"} => r.then \in {"load", "idle"}
    /\ r.at \notin {"touch", "store", "unlessIP", "delete"} => r.then = "idle"
    /\ r.then \in NeedsId => r.id # Nil
    /\ r.then \in {"ipStore", "closeNew", "moveDelete", "closeRenamed"} => r.new # Nil
    /\ r.at \in NeedsKey => r.key # Nil
    /\ r.at = "touch" /\ ~r.perm /\ r.saw[2] => r.saw[1] # "never"
    /\ r.at = "store" /\ r.then = "moveDelete" => r.dev = r.new
    /\ r.at = "store" /\ r.then \in {"ipDrop", "idle"} => r.perm

CallsInv == CacheTypes /\ \A w \in Workers : Fields(call[w])

\* r has found a new device that was not found by IP, and has not stored it.
Discovering(r) == r.at = "mcastLinks" \/ (r.at = "store" /\ r.then \in {"closeNew", "handleLinks"})

\* What is in the cache, and what a call got from it, has been stored; a device
\* that has not been is in the hands of one call, which closes it if it has
\* opened it.
ObjectsInv ==
    /\ \A i \in Ids : cache[i] # Nil => cache[i] \in stored
    /\ \A w \in Workers : call[w].dev # Nil => call[w].dev \in stored
    /\ \A w \in Workers : LET r == call[w] IN r.new # Nil =>
        /\ r.new \in stored \/ ~open[r.new] \/ "closeNew" \in {r.at, r.then}
        /\ \A v \in Workers : v # w /\ call[v].new = r.new => r.new \in stored
        /\ Discovering(r) => r.new \notin stored /\ ~foundByIP[r.new]
    /\ LoserIsClosed

\* The call that moves device o away from ID i.
MovesFrom(w, o, i) ==
    /\ call[w].id = i
    /\ call[w].dev = o \/ call[w].new = o
    /\ call[w].at \in {"owning", "moveExp", "moveDelete"} \/ call[w].then = "moveDelete"

\* A device under an ID that is not its own is being moved away from there.
KeysInv == \A i \in Ids :
    cache[i] # Nil => \/ idOf[cache[i]] = i
                      \/ cache[i] \in stale
                      \/ \E w \in Workers : MovesFrom(w, cache[i], i)

------------------------------------------------------------------------------
(* The device cache: the fields of a call                                   *)

\* What a call that goes on at l has of its fields.
Going(w, r, l) ==
    /\ call'[w].at = l /\ call'[w].ping = r.ping /\ call'[w].id = r.id
    /\ call'[w].dev = IF l \in {"load", "mcast", "mcastLinks", "ipFind", "ipOld", "rename", "closeRenamed"}
                      THEN Nil ELSE r.dev
    /\ call'[w].new = IF l \in {"touch", "store", "mcastLinks", "closeNew", "ipOld", "ipStore", "moveDelete",
                                "rename", "closeRenamed"}
                      THEN r.new ELSE Nil
    /\ call'[w].old = IF l \in {"touch", "store", "ipStore", "ipDrop"} THEN r.old ELSE {}
    /\ call'[w].key = IF l \in {"touch", "compare", "rekey", "rename"} THEN r.key ELSE Nil
    /\ call'[w].saw = IF l = "touch" THEN r.saw ELSE <<"never", FALSE>>
    /\ call'[w].perm = IF l \in {"touch", "store"} THEN r.perm ELSE FALSE
    /\ call'[w].then = IF l \in {"touch", "store", "unlessIP", "delete"} THEN r.then ELSE "idle"

OthersWait(w) == \A v \in Workers : v # w => call'[v] = call[v]

LEMMA IdleIsCall == Idle \in Calls /\ Idle.at = "idle" /\ Idle.new = Nil /\ Idle.dev = Nil /\ Idle.then = "idle"
  BY DEF Idle, Calls, OrNil, Labels

Seen == {"never", "fresh", "expired"} \X BOOLEAN

LEMMA CallTypes ==
    ASSUME NEW r \in Calls
    PROVE  /\ r.at \in Labels /\ r.ping \in BOOLEAN /\ r.id \in OrNil(Ids)
           /\ r.dev \in OrNil(Objs) /\ r.new \in OrNil(Objs) /\ r.old \in SUBSET Objs
           /\ r.key \in OrNil(Ids) /\ r.saw \in Seen /\ r.perm \in BOOLEAN /\ r.then \in Labels
  BY DEF Calls, Seen

LEMMA StepFields ==
    ASSUME call \in [Workers -> Calls], NEW w \in Workers, NEW r \in Calls, NEW l \in Labels \ {"idle"},
           Step(w, r, l)
    PROVE  call' \in [Workers -> Calls] /\ OthersWait(w) /\ Going(w, r, l)
<1> DEFINE dev == IF l \in {"load", "mcast", "mcastLinks", "ipFind", "ipOld", "rename", "closeRenamed"}
                  THEN Nil ELSE r.dev
           new == IF l \in {"touch", "store", "mcastLinks", "closeNew", "ipOld", "ipStore", "moveDelete",
                            "rename", "closeRenamed"}
                  THEN r.new ELSE Nil
           old == IF l \in {"touch", "store", "ipStore", "ipDrop"} THEN r.old ELSE {}
           key == IF l \in {"touch", "compare", "rekey", "rename"} THEN r.key ELSE Nil
           saw == IF l = "touch" THEN r.saw ELSE <<"never", FALSE>>
           perm == IF l \in {"touch", "store"} THEN r.perm ELSE FALSE
           then == IF l \in {"touch", "store", "unlessIP", "delete"} THEN r.then ELSE "idle"
           n == [Idle EXCEPT !.at = l, !.ping = r.ping, !.id = r.id, !.dev = dev, !.new = new, !.old = old,
                             !.key = key, !.saw = saw, !.perm = perm, !.then = then]
<1>1. call' = [call EXCEPT ![w] = n]
  BY DEF Step, Idle
<1>2. n \in Calls
  <2>1. dev \in OrNil(Objs) /\ new \in OrNil(Objs) /\ old \in SUBSET Objs /\ key \in OrNil(Ids)
    BY CallTypes DEF OrNil
  <2>2. saw \in Seen
    BY CallTypes DEF Seen
  <2>3. perm \in BOOLEAN
    BY CallTypes
  <2>4. then \in Labels
    BY CallTypes DEF Labels
  <2>5. l \in Labels /\ r.ping \in BOOLEAN /\ r.id \in OrNil(Ids)
    BY CallTypes
  <2> HIDE DEF dev, new, old, key, saw, perm, then
  <2> QED
    BY <2>1, <2>2, <2>3, <2>4, <2>5 DEF Calls, Idle, Seen
<1>3. call'[w] = n /\ OthersWait(w) /\ call' \in [Workers -> Calls]
  <2> HIDE DEF n
  <2> QED
    BY <1>1, <1>2 DEF OthersWait
<1>4. Going(w, r, l)
  BY <1>3 DEF Going, Idle
<1> QED
  BY <1>3, <1>4

LEMMA StepIdle ==
    ASSUME call \in [Workers -> Calls], NEW w \in Workers, NEW r, Step(w, r, "idle")
    PROVE  call' \in [Workers -> Calls] /\ OthersWait(w) /\ call'[w] = Idle
  BY IdleIsCall DEF Step, OthersWait

\* What r must have to go on at l.
Ready(r, l) ==
    /\ l \in NeedsId => r.id # Nil
    /\ l \in NeedsDev => r.dev # Nil
    /\ l \in NeedsNew => r.new # Nil
    /\ l \in {"touch", "store", "unlessIP", "delete"} /\ r.then \in NeedsId => r.id # Nil
    /\ l \in NeedsKey => r.key # Nil
    /\ l = "touch" => /\ r.then \in AfterTouch
                      /\ r.then \in {"ipStore", "closeNew", "moveDelete", "closeRenamed"} => r.new # Nil
                      /\ ~r.perm /\ r.saw[2] => r.saw[1] # "never"
    /\ l = "store" => /\ r.then \in AfterStore
                      /\ r.then = "moveDelete" => r.dev = r.new
                      /\ r.then \in {"ipDrop", "idle"} => r.perm
    /\ l \in {"unlessIP", "delete"} => r.then \in {"load", "idle"}

\* The call of w has gone on, and has what it needs.
Moved(w) == call' \in [Workers -> Calls] /\ OthersWait(w) /\ Fields(call'[w])

LEMMA Arrive ==
    ASSUME call \in [Workers -> Calls], NEW w \in Workers, NEW r \in Calls, NEW l \in Labels \ {"idle"},
           Step(w, r, l), Ready(r, l)
    PROVE  Moved(w)
<1>1. call' \in [Workers -> Calls] /\ OthersWait(w) /\ Going(w, r, l)
  BY StepFields
<1>2. Fields(call'[w])
  BY <1>1 DEF Going, Fields, Ready, NeedsId, NeedsDev, NeedsNew, NeedsKey, Dereferences, AfterTouch, AfterStore, Labels
<1> QED
  BY <1>1, <1>2 DEF Moved

LEMMA ArriveIdle ==
    ASSUME call \in [Workers -> Calls], NEW w \in Workers, NEW r, Step(w, r, "idle")
    PROVE  Moved(w) /\ call'[w] = Idle
<1>1. call' \in [Workers -> Calls] /\ OthersWait(w) /\ call'[w] = Idle
  BY StepIdle
<1>2. Fields(Idle)
  BY DEF Fields, Idle, NeedsId, NeedsDev, NeedsNew, NeedsKey, Dereferences
<1> QED
  BY <1>1, <1>2 DEF Moved

------------------------------------------------------------------------------
(* The device cache: steps of calls that move no device                     *)

SharedTypes ==
    /\ cache \in [Ids -> OrNil(Objs)] /\ exp \in [Ids -> {"never", "fresh", "expired"}]
    /\ closed \in BOOLEAN
    /\ idOf \in [Objs -> Ids] /\ foundByIP \in [Objs -> BOOLEAN] /\ open \in [Objs -> BOOLEAN]
    /\ stored \subseteq Objs /\ stale \subseteq Objs /\ raced \subseteq Objs

Mover(r) == r.at \in {"owning", "moveExp", "moveDelete"} \/ r.then = "moveDelete"

\* The device that w has found is kept, or is in the cache, or is not open.
NewKept(w) ==
    LET n == call[w].new
        m == call'[w].new
    IN  \/ m = Nil /\ (n = Nil \/ n \in stored \/ ~open'[n])
        \/ /\ m = n /\ ~Discovering(call'[w])
           /\ "closeNew" \in {call[w].at, call[w].then} => "closeNew" \in {call'[w].at, call'[w].then}
        \/ n = Nil /\ m \in stored /\ ~Discovering(call'[w])

\* The cache loses entries at most, and no device that is not stored is opened.
Shrinks ==
    /\ SharedTypes'
    /\ \A i \in Ids : (cache'[i] = cache[i] /\ exp'[i] = exp[i]) \/ cache'[i] = Nil
    /\ UNCHANGED <<idOf, foundByIP, stored, raced>> /\ stale \subseteq stale'
    /\ \A o \in Objs : open'[o] => open[o] \/ o \in stored

ObjectsKept ==
    /\ \A i \in Ids : cache'[i] = cache[i] \/ cache'[i] = Nil
    /\ UNCHANGED <<foundByIP, stored>>
    /\ \A o \in Objs : open'[o] => open[o] \/ o \in stored

\* No device found by IP gets an expiration, except by a decision that was too old.
CacheKept ==
    /\ \A i \in Ids : \/ cache'[i] = Nil
                     \/ /\ cache'[i] = cache[i]
                        /\ \/ exp'[i] = "never" \/ exp[i] # "never"
                           \/ ~foundByIP[cache[i]] \/ cache[i] \in raced'
    /\ UNCHANGED <<idOf, foundByIP>> /\ raced \subseteq raced' /\ stale \subseteq stale'

LEMMA ShrinksKeeps == Shrinks => ObjectsKept /\ CacheKept
  BY DEF Shrinks, ObjectsKept, CacheKept

Tame(w) ==
    /\ Moved(w) /\ Shrinks
    /\ call[w].at # "touch" /\ ~Mover(call[w])
    /\ call'[w].dev = Nil \/ call'[w].dev \in stored
    /\ NewKept(w)

LEMMA TypesAre == CacheTypes <=> /\ SharedTypes
                                 /\ call \in [Workers -> Calls]
                                 /\ \A w \in Workers : call[w].at \in Dereferences => call[w].dev # Nil
                                 /\ calls \in 0..MaxCalls /\ changes \in 0..MaxChanges
  BY DEF CacheTypes, SharedTypes

LEMMA MovedTypes ==
    ASSUME CallsInv, NEW w \in Workers, Moved(w), SharedTypes', calls' \in 0..MaxCalls, changes' \in 0..MaxChanges
    PROVE  CallsInv'
<1>1. \A v \in Workers : Fields(call'[v])
  BY DEF CallsInv, Moved, OthersWait
<1>2. \A v \in Workers : call'[v].at \in Dereferences => call'[v].dev # Nil
  BY <1>1 DEF Fields, NeedsDev
<1>3. CacheTypes'
  BY <1>2 DEF CacheTypes, SharedTypes, Moved
<1> QED
  BY <1>1, <1>3 DEF CallsInv

LEMMA DropShrinks ==
    ASSUME SharedTypes, NEW I, NEW D, Drop(I, D), UNCHANGED ghosts
    PROVE  /\ Shrinks
           /\ \A i \in Ids : i \in I => cache'[i] = Nil
           /\ \A o \in Objs : o \in D => ~open'[o]
<1>1. /\ cache' \in [Ids -> OrNil(Objs)] /\ exp' \in [Ids -> {"never", "fresh", "expired"}]
      /\ \A i \in Ids : (cache'[i] = cache[i] /\ exp'[i] = exp[i]) \/ cache'[i] = Nil
      /\ \A i \in Ids : i \in I => cache'[i] = Nil
  BY DEF Drop, SharedTypes, OrNil
<1>2. /\ open' \in [Objs -> BOOLEAN]
      /\ \A o \in Objs : open'[o] => open[o] /\ o \notin D
  BY DEF Drop, SharedTypes
<1> QED
  BY <1>1, <1>2 DEF Shrinks, SharedTypes, Drop, ghosts

LEMMA QuietShrinks ==
    ASSUME SharedTypes, UNCHANGED <<cache, exp, closed, devVars, ghosts>>
    PROVE  Shrinks
  BY DEF Shrinks, SharedTypes, devVars, ghosts

LEMMA ConnectShrinks ==
    ASSUME SharedTypes, NEW o \in stored, Connects(o), UNCHANGED <<cache, exp, closed, idOf, foundByIP, ghosts>>
    PROVE  Shrinks
<1>1. open' \in [Objs -> BOOLEAN] /\ \A p \in Objs : open'[p] => open[p] \/ p \in stored
  BY DEF Connects, SharedTypes
<1> QED
  BY <1>1 DEF Shrinks, SharedTypes, ghosts

\* Such a step keeps what is known of devices and of the cache.
LEMMA KeptObjects ==
    ASSUME CallsInv, ObjectsInv, NEW w \in Workers, Moved(w), ObjectsKept, NewKept(w),
           call'[w].dev = Nil \/ call'[w].dev \in stored
    PROVE  ObjectsInv'
<1>1. \A i \in Ids : cache'[i] # Nil => cache'[i] \in stored'
  BY DEF ObjectsInv, ObjectsKept
<1>2. \A v \in Workers : call'[v].dev # Nil => call'[v].dev \in stored'
  BY DEF ObjectsInv, ObjectsKept, Moved, OthersWait
<1>3. \A o \in Objs : open'[o] => open[o] \/ o \in stored
  BY DEF ObjectsKept
<1>o. \A v \in Workers : call[v].new # Nil => call[v].new \in Objs
  BY CallTypes DEF CallsInv, CacheTypes, OrNil
<1>4. ASSUME NEW v \in Workers, call'[v].new # Nil
      PROVE  /\ call'[v].new \in stored \/ ~open'[call'[v].new] \/ "closeNew" \in {call'[v].at, call'[v].then}
             /\ Discovering(call'[v]) => call'[v].new \notin stored /\ ~foundByIP[call'[v].new]
             /\ \A u \in Workers : u # v /\ call'[u].new = call'[v].new => call'[v].new \in stored
  <2>1. \/ v # w /\ call'[v] = call[v]
        \/ v = w /\ call'[v].new \in stored /\ ~Discovering(call'[v])
        \/ /\ v = w /\ call'[v].new = call[v].new /\ ~Discovering(call'[v])
           /\ "closeNew" \in {call[v].at, call[v].then} => "closeNew" \in {call'[v].at, call'[v].then}
    BY <1>4 DEF Moved, OthersWait, NewKept
  <2>2. \A u \in Workers : call'[u].new = call'[v].new /\ call'[v].new \notin stored => call[u].new = call'[v].new
    BY <1>4 DEF Moved, OthersWait, NewKept
  <2> QED
    BY <1>3, <1>4, <1>o, <2>1, <2>2 DEF ObjectsInv
<1>5. LoserIsClosed'
  <2> SUFFICES ASSUME NEW o \in Objs, open'[o], o \notin stored PROVE \E v \in Workers : call'[v].new = o
    BY DEF LoserIsClosed, ObjectsKept
  <2>1. open[o]
    BY <1>3
  <2>2. PICK v \in Workers : call[v].new = o
    BY <2>1 DEF ObjectsInv, LoserIsClosed
  <2>n. o # Nil
    BY NilAssumption
  <2>3. call'[v].new = o
    BY <2>2, <2>n DEF Moved, OthersWait, NewKept
  <2> QED
    BY <2>3
<1> QED
  BY <1>1, <1>2, <1>4, <1>5 DEF ObjectsInv, ObjectsKept

LEMMA TameObjects ==
    ASSUME CallsInv, ObjectsInv, NEW w \in Workers, Tame(w)
    PROVE  ObjectsInv'
  BY KeptObjects, ShrinksKeeps DEF Tame

\* A step that moves nothing keeps KeysInv if whoever moves a device goes on.
LEMMA KeysKept ==
    ASSUME KeysInv, CacheKept,
           \A i \in Ids, w \in Workers :
               cache'[i] # Nil /\ MovesFrom(w, cache[i], i) => MovesFrom(w, cache[i], i)'
    PROVE  KeysInv'
<1> SUFFICES ASSUME NEW i \in Ids, cache'[i] # Nil
             PROVE  \/ idOf'[cache'[i]] = i \/ cache'[i] \in stale'
                    \/ \E w \in Workers : MovesFrom(w, cache[i], i)'
  BY DEF KeysInv, MovesFrom
<1>1. cache'[i] = cache[i] /\ idOf' = idOf /\ stale \subseteq stale'
  BY DEF CacheKept
<1> QED
  BY <1>1 DEF KeysInv

LEMMA TameKeys ==
    ASSUME KeysInv, NEW w \in Workers, Tame(w)
    PROVE  KeysInv'
<1>1. ASSUME NEW i \in Ids, NEW v \in Workers, MovesFrom(v, cache[i], i), cache'[i] # Nil
      PROVE  MovesFrom(v, cache[i], i)'
  <2>1. v # w
    BY <1>1 DEF MovesFrom, Tame, Mover
  <2>2. call'[v] = call[v] /\ cache'[i] = cache[i]
    BY <1>1, <2>1 DEF Tame, Moved, OthersWait, Shrinks
  <2> QED
    BY <1>1, <2>2 DEF MovesFrom
<1> QED
  BY <1>1, KeysKept, ShrinksKeeps DEF Tame

\* v is about to take the expiration away from the device under i.
Removes(v, i) ==
    call[v].at = "touch" /\ call[v].perm /\ call[v].key = i /\ call[v].dev = cache[i]

LEMMA PermKept ==
    ASSUME FoundByIPIsPermanent, CacheKept,
           \A i \in Ids, v \in Workers :
               Removes(v, i) /\ cache'[i] = cache[i] /\ cache[i] # Nil /\ exp'[i] # "never" => Removes(v, i)'
    PROVE  FoundByIPIsPermanent'
<1> SUFFICES ASSUME NEW i \in Ids, cache'[i] # Nil, foundByIP'[cache'[i]], idOf'[cache'[i]] = i, exp'[i] # "never"
             PROVE  cache'[i] \in raced' \union stale' \/ \E v \in Workers : Removes(v, i)'
  BY DEF FoundByIPIsPermanent, Removes
<1>1. /\ cache'[i] = cache[i] /\ (exp[i] # "never" \/ cache[i] \in raced')
      /\ UNCHANGED <<idOf, foundByIP>> /\ raced \subseteq raced' /\ stale \subseteq stale'
  BY DEF CacheKept
<1>2. cache[i] \in raced' \/ cache[i] \in raced \union stale \/ \E v \in Workers : Removes(v, i)
  BY <1>1 DEF FoundByIPIsPermanent, Removes
<1> QED
  BY <1>1, <1>2

LEMMA TamePerm ==
    ASSUME FoundByIPIsPermanent, NEW w \in Workers, Tame(w)
    PROVE  FoundByIPIsPermanent'
<1>1. \A i \in Ids, v \in Workers : Removes(v, i) /\ cache'[i] = cache[i] => Removes(v, i)'
  BY DEF Tame, Moved, OthersWait, Removes
<1> QED
  BY <1>1, PermKept, ShrinksKeeps DEF Tame

Tames(w) == call[w].at \notin {"touch", "store", "owning", "moveExp", "moveDelete"}

\* What is known of the call of w.
LEMMA CallKnown ==
    ASSUME CallsInv, NEW w \in Workers
    PROVE  /\ SharedTypes /\ call \in [Workers -> Calls] /\ call[w] \in Calls /\ Fields(call[w])
           /\ call[w].at \in Labels /\ call[w].then \in Labels
           /\ call[w].id \in OrNil(Ids) /\ call[w].dev \in OrNil(Objs) /\ call[w].new \in OrNil(Objs)
           /\ call[w].old \in SUBSET Objs /\ call[w].key \in OrNil(Ids)
           /\ call[w].saw \in Seen /\ call[w].perm \in BOOLEAN
<1>1. SharedTypes /\ call \in [Workers -> Calls] /\ Fields(call[w])
  BY DEF CallsInv, CacheTypes, SharedTypes
<1> QED
  BY <1>1, CallTypes

LEMMA TameStep ==
    ASSUME CallsInv, NEW w \in Workers, NEW r \in Calls, NEW l \in Labels, Step(w, r, l),
           l = "idle" \/ Ready(r, l), Shrinks, Tames(w), r.dev = Nil \/ r.dev \in stored,
           NewKept(w) \/ (call[w].new = Nil /\ r.new = Nil)
    PROVE  Tame(w)
<1>1. call \in [Workers -> Calls] /\ Fields(call[w])
  BY CallKnown
<1>2. call[w].at # "touch" /\ ~Mover(call[w])
  BY <1>1 DEF Tames, Mover, Fields
<1>3. CASE l = "idle"
  <2>1. Moved(w) /\ call'[w].new = Nil /\ call'[w].dev = Nil
    BY <1>1, <1>3, ArriveIdle, IdleIsCall
  <2> QED
    BY <1>2, <2>1 DEF Tame, NewKept
<1>4. CASE l # "idle"
  <2>1. Moved(w)
    BY <1>1, <1>4, Arrive
  <2>2. Going(w, r, l)
    BY <1>1, <1>4, StepFields
  <2>3. call'[w].dev \in {Nil, r.dev} /\ call'[w].new \in {Nil, r.new}
    BY <2>2 DEF Going
  <2> QED
    BY <1>2, <2>1, <2>3 DEF Tame, NewKept
<1> QED
  BY <1>3, <1>4

\* The device that a call has got from the cache is stored.
LEMMA GotStored ==
    ASSUME CallsInv, ObjectsInv, NEW w \in Workers
    PROVE  /\ call[w].dev = Nil \/ call[w].dev \in stored
           /\ \A i \in Ids : cache[i] = Nil \/ cache[i] \in stored
  BY DEF ObjectsInv

LEMMA LoadTame ==
    ASSUME CallsInv, ObjectsInv, NEW w \in Workers, Load(w)
    PROVE  Tame(w)
<1> DEFINE c == call[w]
<1>1. /\ c \in Calls /\ Fields(c) /\ SharedTypes /\ c.at = "load" /\ c.id \in Ids /\ c.new = Nil
      /\ c.dev = Nil \/ c.dev \in stored
  BY CallKnown, GotStored DEF Load, Fields, NeedsId, NeedsNew, OrNil
<1>2. Shrinks /\ Tames(w)
  BY <1>1, QuietShrinks DEF Load, Tames
<1>3. CASE Live(c.id)
  <2> DEFINE s == Saw(c.id)
             r == [c EXCEPT !.dev = cache[c.id], !.key = c.id, !.perm = FALSE, !.saw = s, !.then = "links"]
             l == IF exp[c.id] # "never" THEN "touch" ELSE "links"
  <2>1. cache[c.id] \in Objs /\ cache[c.id] \in stored /\ exp[c.id] # "expired"
    BY <1>1, <1>3, GotStored DEF Live, SharedTypes, OrNil
  <2>2. s \in Seen /\ s[1] = exp[c.id]
    BY <1>1, <2>1 DEF Saw, Seen, SharedTypes
  <2>3. Step(w, r, l)
    BY <1>3 DEF Load
  <2> HIDE DEF s
  <2>4. r \in Calls /\ r.new = Nil /\ r.dev = cache[c.id] /\ r.id = c.id /\ r.key = c.id /\ r.saw = s /\ r.then = "links" /\ ~r.perm
    BY <1>1, <2>1, <2>2 DEF Calls, Seen, Labels, OrNil
  <2>5. l \in Labels /\ l \in {"touch", "links"} /\ (l = "touch" => exp[c.id] # "never")
    BY DEF Labels
  <2> HIDE DEF r, l
  <2>6. Ready(r, l)
    BY <1>1, <2>1, <2>2, <2>4, <2>5, NilAssumption DEF Ready, NeedsId, NeedsDev, NeedsNew, NeedsKey, Dereferences, AfterTouch
  <2> QED
    BY <1>1, <1>2, <2>1, <2>3, <2>4, <2>5, <2>6, TameStep
<1>4. CASE ~Live(c.id)
  <2> DEFINE r == [c EXCEPT !.dev = Nil]
  <2>1. Step(w, r, "mcast")
    BY <1>4 DEF Load
  <2>2. r \in Calls /\ r.new = Nil /\ r.dev = Nil /\ r.id = c.id
    BY <1>1 DEF Calls, OrNil
  <2> HIDE DEF r
  <2>3. "mcast" \in Labels /\ Ready(r, "mcast")
    BY <1>1, <2>2, NilAssumption DEF Labels, Ready, NeedsId, NeedsDev, NeedsNew, NeedsKey, Dereferences
  <2> QED
    BY <1>1, <1>2, <2>1, <2>2, <2>3, TameStep
<1> QED
  BY <1>3, <1>4

LEMMA LinksTame ==
    ASSUME CallsInv, ObjectsInv, NEW w \in Workers, Links(w)
    PROVE  Tame(w)
<1> DEFINE c == call[w]
<1>1. /\ c \in Calls /\ Fields(c) /\ SharedTypes /\ c.at = "links" /\ c.id \in Ids /\ c.new = Nil
      /\ c.dev \in stored /\ Tames(w)
  BY CallKnown, GotStored DEF Links, Fields, NeedsId, NeedsDev, NeedsNew, NeedsKey, Dereferences, OrNil, Tames
<1>2. CASE Connects(c.dev) /\ Step(w, [c EXCEPT !.key = idOf[c.dev]], "compare")
  <2> DEFINE r == [c EXCEPT !.key = idOf[c.dev]]
  <2>1. Shrinks
    BY <1>1, <1>2, ConnectShrinks DEF Links
  <2>2. c.dev \in Objs /\ idOf[c.dev] \in Ids
    BY <1>1 DEF SharedTypes
  <2>3. r \in Calls /\ r.new = Nil /\ r.dev = c.dev /\ r.id = c.id /\ r.key \in Ids
    BY <1>1, <2>2 DEF Calls, OrNil
  <2>4. Step(w, r, "compare")
    BY <1>2
  <2> HIDE DEF r
  <2>5. "compare" \in Labels /\ Ready(r, "compare")
    BY <1>1, <2>2, <2>3, NilAssumption DEF Labels, Ready, NeedsId, NeedsDev, NeedsNew, NeedsKey, Dereferences
  <2> QED
    BY <1>1, <2>1, <2>3, <2>4, <2>5, TameStep
<1>3. CASE Connects(c.dev) /\ Step(w, c, "idle")
  <2>1. Shrinks
    BY <1>1, <1>3, ConnectShrinks DEF Links
  <2>2. "idle" \in Labels
    BY DEF Labels
  <2> QED
    BY <1>1, <1>3, <2>1, <2>2, TameStep
<1>4. CASE UNCHANGED open /\ Step(w, [c EXCEPT !.then = "load"], IF foundByIP[c.dev] THEN "ipFind" ELSE "unlessIP")
  <2> DEFINE r == [c EXCEPT !.then = "load"]
             l == IF foundByIP[c.dev] THEN "ipFind" ELSE "unlessIP"
  <2>1. Shrinks
    BY <1>1, <1>4, QuietShrinks DEF Links, devVars
  <2>2. r \in Calls /\ r.new = Nil /\ r.dev = c.dev /\ r.id = c.id /\ r.then = "load"
    BY <1>1 DEF Calls, Labels
  <2>3. l \in Labels /\ l \in {"ipFind", "unlessIP"} /\ Step(w, r, l)
    BY <1>4 DEF Labels
  <2> HIDE DEF r, l
  <2>4. Ready(r, l)
    BY <1>1, <2>2, <2>3, NilAssumption DEF Ready, Fields, NeedsId, NeedsDev, NeedsNew, NeedsKey, Dereferences
  <2> QED
    BY <1>1, <2>1, <2>2, <2>3, <2>4, TameStep
<1> QED
  BY <1>2, <1>3, <1>4 DEF Links

LEMMA CheckByLinksTame ==
    ASSUME CallsInv, ObjectsInv, NEW w \in Workers, CheckByLinks(w)
    PROVE  Tame(w)
<1> DEFINE c == call[w]
           l == IF idOf[c.dev] = c.key THEN "got" ELSE "rekey"
<1>1. /\ c \in Calls /\ Fields(c) /\ SharedTypes /\ c.at = "compare" /\ c.id \in Ids /\ c.new = Nil
      /\ c.key # Nil /\ c.dev # Nil /\ c.dev \in stored /\ Tames(w)
  BY CallKnown, GotStored DEF CheckByLinks, Fields, NeedsId, NeedsDev, NeedsNew, NeedsKey, Dereferences, OrNil, Tames
<1>2. Shrinks
  BY <1>1, QuietShrinks DEF CheckByLinks
<1>3. Step(w, c, l) /\ l \in Labels /\ l \in {"got", "rekey"}
  BY DEF CheckByLinks, Returns, Labels
<1> HIDE DEF l
<1>4. Ready(c, l)
  BY <1>1, <1>3, NilAssumption DEF Ready, NeedsId, NeedsDev, NeedsNew, NeedsKey, Dereferences
<1> QED
  BY <1>1, <1>2, <1>3, <1>4, TameStep

LEMMA RekeyTame ==
    ASSUME CallsInv, ObjectsInv, NEW w \in Workers, Rekey(w)
    PROVE  Tame(w)
<1> DEFINE c == call[w]
           d == cache[idOf[c.dev]]
           r == [c EXCEPT !.new = d]
           l == IF d = Nil THEN "idle" ELSE "rename"
<1>1. /\ c \in Calls /\ Fields(c) /\ SharedTypes /\ c.at = "rekey" /\ c.new = Nil /\ c.then = "idle"
      /\ c.key # Nil /\ c.dev \in Objs /\ c.dev \in stored /\ Tames(w) /\ call \in [Workers -> Calls]
  BY CallKnown, GotStored DEF Rekey, Fields, NeedsId, NeedsDev, NeedsNew, NeedsKey, Dereferences, OrNil, Tames
<1>2. Shrinks
  BY <1>1, DropShrinks DEF Rekey
<1>3. d \in OrNil(Objs) /\ (d = Nil \/ d \in stored)
  BY <1>1, GotStored DEF SharedTypes
<1>4. r \in Calls /\ r.new = d /\ r.dev = c.dev /\ r.key = c.key /\ r.then = "idle"
  BY <1>1, <1>3 DEF Calls
<1>5. Step(w, r, l) /\ l \in Labels /\ (l = "idle" \/ (l = "rename" /\ d # Nil))
  BY DEF Rekey, Labels
<1> HIDE DEF d, r, l
<1>6. l = "idle" \/ Ready(r, l)
  BY <1>1, <1>4, <1>5 DEF Ready, NeedsId, NeedsDev, NeedsNew, NeedsKey, Dereferences
<1>7. NewKept(w)
  <2>1. CASE l = "idle"
    BY <1>1, <1>5, <2>1, StepIdle, IdleIsCall DEF NewKept
  <2>2. CASE l # "idle"
    <3>1. Going(w, r, "rename")
      BY <1>1, <1>4, <1>5, <2>2, StepFields
    <3> QED
      BY <1>1, <1>3, <1>4, <1>5, <2>2, <3>1 DEF Going, NewKept, Discovering
  <2> QED
    BY <2>1, <2>2
<1> QED
  BY <1>1, <1>2, <1>4, <1>5, <1>6, <1>7, TameStep

LEMMA EndTame ==
    ASSUME CallsInv, ObjectsInv, NEW w \in Workers, NEW r, Step(w, r, "idle"), Shrinks, Tames(w),
           call[w].new = Nil \/ call[w].new \in stored \/ ~open'[call[w].new]
    PROVE  Tame(w)
<1>1. call \in [Workers -> Calls] /\ Fields(call[w])
  BY CallKnown
<1>2. call[w].at # "touch" /\ ~Mover(call[w])
  BY <1>1 DEF Tames, Mover, Fields
<1>3. Moved(w) /\ call'[w].new = Nil /\ call'[w].dev = Nil
  BY <1>1, ArriveIdle, IdleIsCall
<1> QED
  BY <1>2, <1>3 DEF Tame, NewKept

\* A call that has a device, and has found none, goes on with it.
LEMMA WithDevTame ==
    ASSUME CallsInv, ObjectsInv, NEW w \in Workers, NEW l \in Labels, NEW t \in Labels, Shrinks, Tames(w),
           call[w].at \in NeedsDev, call[w].at \notin NeedsNew,
           Step(w, [call[w] EXCEPT !.then = t], l),
           l \notin NeedsNew \union NeedsKey, l \in NeedsId => call[w].id # Nil,
           l \in {"unlessIP", "delete"} => t = "idle" \/ (t = "load" /\ call[w].id # Nil)
    PROVE  Tame(w)
<1> DEFINE c == call[w]
           r == [c EXCEPT !.then = t]
<1>1. c \in Calls /\ Fields(c) /\ c.new = Nil /\ c.dev # Nil /\ c.dev \in stored
  BY CallKnown, GotStored DEF Fields, Tames
<1>2. r \in Calls /\ r.new = Nil /\ r.dev = c.dev /\ r.id = c.id /\ r.then = t
  BY <1>1 DEF Calls
<1> HIDE DEF r
<1>3. Step(w, r, l)
  BY DEF r
<1>4. Ready(r, l)
  BY <1>1, <1>2 DEF Ready, NeedsId, NeedsNew, NeedsKey
<1> QED
  BY <1>1, <1>2, <1>3, <1>4, TameStep

LEMMA SameThen ==
    ASSUME CallsInv, NEW w \in Workers
    PROVE  [call[w] EXCEPT !.then = call[w].then] = call[w]
<1>1. call[w] \in Calls
  BY CallKnown
<1> QED
  BY <1>1 DEF Calls

LEMMA UnlessIPTame ==
    ASSUME CallsInv, ObjectsInv, NEW w \in Workers, UnlessIP(w)
    PROVE  Tame(w)
<1> DEFINE c == call[w]
<1>1. /\ Fields(c) /\ SharedTypes /\ c.at = "unlessIP" /\ Tames(w) /\ c.new = Nil
      /\ c.then \in {"load", "idle"} /\ (c.then = "load" => c.id # Nil)
      /\ [c EXCEPT !.then = c.then] = c /\ c.at \in NeedsDev /\ c.at \notin NeedsNew
  BY CallKnown, SameThen DEF UnlessIP, Fields, NeedsId, NeedsDev, NeedsNew, NeedsKey, Dereferences, Tames
<1>2. {"load", "idle", "delete"} \subseteq Labels
  BY DEF Labels
<1>3. CASE foundByIP[c.dev]
  <2>1. Shrinks /\ Step(w, c, c.then)
    BY <1>1, <1>3, DropShrinks DEF UnlessIP
  <2> QED
    BY <1>1, <1>2, <2>1, WithDevTame DEF NeedsNew, NeedsKey, NeedsId
<1>4. CASE ~foundByIP[c.dev]
  <2>1. Shrinks /\ Step(w, c, "delete")
    BY <1>1, <1>4, QuietShrinks DEF UnlessIP
  <2> QED
    BY <1>1, <1>2, <2>1, WithDevTame DEF NeedsNew, NeedsKey, NeedsId
<1> QED
  BY <1>3, <1>4

LEMMA DeleteTame ==
    ASSUME CallsInv, ObjectsInv, NEW w \in Workers, DeleteDeviceNotFoundByIP(w)
    PROVE  Tame(w)
<1> DEFINE c == call[w]
<1>1. /\ Fields(c) /\ SharedTypes /\ c.at = "delete" /\ Tames(w) /\ c.new = Nil
      /\ c.then \in {"load", "idle"} /\ (c.then = "load" => c.id # Nil)
      /\ [c EXCEPT !.then = c.then] = c /\ c.at \in NeedsDev /\ c.at \notin NeedsNew
  BY CallKnown, SameThen DEF DeleteDeviceNotFoundByIP, Fields, NeedsId, NeedsDev, NeedsNew, NeedsKey, Dereferences, Tames
<1>2. {"load", "idle", "delete"} \subseteq Labels
  BY DEF Labels
<1>3. Shrinks /\ Step(w, c, c.then)
  BY <1>1, DropShrinks DEF DeleteDeviceNotFoundByIP
<1> QED
  BY <1>1, <1>2, <1>3, WithDevTame DEF NeedsNew, NeedsKey, NeedsId

LEMMA CloseNewTame ==
    ASSUME CallsInv, ObjectsInv, NEW w \in Workers, CloseNew(w)
    PROVE  Tame(w)
<1> DEFINE c == call[w]
<1>1. /\ c \in Calls /\ Fields(c) /\ SharedTypes /\ c.at = "closeNew" /\ c.new \in Objs /\ c.id # Nil
      /\ c.dev # Nil /\ c.dev \in stored /\ Tames(w)
  BY CallKnown, GotStored DEF CloseNew, Fields, NeedsId, NeedsDev, NeedsNew, OrNil, Tames
<1>2. Shrinks /\ ~open'[c.new]
  BY <1>1, DropShrinks DEF CloseNew
<1>3. Step(w, c, "got") /\ "got" \in Labels /\ Ready(c, "got")
  BY <1>1 DEF CloseNew, Returns, Labels, Ready, NeedsNew, NeedsKey
<1>4. NewKept(w)
  <2>1. Going(w, c, "got")
    BY <1>1, <1>3, CallKnown, StepFields
  <2> QED
    BY <1>2, <2>1 DEF Going, NewKept
<1> QED
  BY <1>1, <1>2, <1>3, <1>4, TameStep

LEMMA CloseRenamedTame ==
    ASSUME CallsInv, ObjectsInv, NEW w \in Workers, CloseRenamed(w)
    PROVE  Tame(w)
<1>1. SharedTypes /\ call[w].at = "closeRenamed" /\ call[w].new \in Objs /\ Tames(w)
  BY CallKnown DEF CloseRenamed, Fields, NeedsNew, OrNil, Tames
<1>2. Shrinks /\ ~open'[call[w].new]
  BY <1>1, DropShrinks DEF CloseRenamed
<1> QED
  BY <1>1, <1>2, EndTame DEF CloseRenamed

LEMMA IPDropTame ==
    ASSUME CallsInv, ObjectsInv, NEW w \in Workers, IPDrop(w)
    PROVE  Tame(w)
<1> DEFINE c == call[w]
           l == IF c.ping THEN "idle" ELSE "ipLinks"
<1>1. /\ Fields(c) /\ SharedTypes /\ c.at = "ipDrop" /\ Tames(w) /\ c.then \in Labels
      /\ [c EXCEPT !.then = c.then] = c /\ c.at \in NeedsDev /\ c.at \notin NeedsNew
  BY CallKnown, SameThen DEF IPDrop, NeedsDev, NeedsNew, Tames
<1>2. Shrinks /\ Step(w, c, l)
  BY <1>1, DropShrinks DEF IPDrop
<1>3. l \in {"idle", "ipLinks"} /\ l \in Labels
  BY DEF Labels
<1> HIDE DEF l
<1> QED
  BY <1>1, <1>2, <1>3, WithDevTame DEF NeedsNew, NeedsKey, NeedsId

LEMMA IPLinksTame ==
    ASSUME CallsInv, ObjectsInv, NEW w \in Workers, IPLinks(w)
    PROVE  Tame(w)
<1> DEFINE c == call[w]
<1>1. /\ Fields(c) /\ SharedTypes /\ c.at = "ipLinks" /\ Tames(w) /\ c.then \in Labels /\ c.new = Nil
      /\ [c EXCEPT !.then = c.then] = c /\ c.at \in NeedsDev /\ c.at \notin NeedsNew /\ c.dev \in stored
  BY CallKnown, SameThen, GotStored DEF IPLinks, Fields, NeedsDev, NeedsNew, NeedsKey, Dereferences, Tames
<1>l. {"idle", "got", "unlessIP"} \subseteq Labels
  BY DEF Labels
<1>2. CASE Step(w, c, "idle") /\ (UNCHANGED open \/ Connects(c.dev))
  <2>1. Shrinks
    BY <1>1, <1>2, QuietShrinks, ConnectShrinks DEF IPLinks, devVars
  <2> QED
    BY <1>1, <1>2, <2>1, EndTame
<1>3. CASE Connects(c.dev) /\ Returns(w, c) /\ c.id # Nil
  <2>1. Shrinks /\ Step(w, c, "got")
    BY <1>1, <1>3, ConnectShrinks DEF IPLinks, Returns
  <2> QED
    BY <1>1, <1>l, <1>3, <2>1, WithDevTame DEF NeedsNew, NeedsKey
<1>4. CASE UNCHANGED open /\ Step(w, [c EXCEPT !.then = "idle"], "unlessIP")
  <2>1. Shrinks
    BY <1>1, <1>4, QuietShrinks DEF IPLinks, devVars
  <2> QED
    BY <1>1, <1>l, <1>4, <2>1, WithDevTame DEF NeedsNew, NeedsKey, NeedsId
<1> QED
  BY <1>2, <1>3, <1>4 DEF IPLinks

LEMMA HandleLinksTame ==
    ASSUME CallsInv, ObjectsInv, NEW w \in Workers, HandleLinks(w)
    PROVE  Tame(w)
<1> DEFINE c == call[w]
<1>1. /\ Fields(c) /\ SharedTypes /\ c.at = "handleLinks" /\ Tames(w) /\ c.then \in Labels /\ c.new = Nil
      /\ [c EXCEPT !.then = c.then] = c /\ c.at \in NeedsDev /\ c.at \notin NeedsNew /\ c.dev \in stored
  BY CallKnown, SameThen, GotStored DEF HandleLinks, Fields, NeedsDev, NeedsNew, NeedsKey, Dereferences, Tames
<1>l. {"idle", "handleDelete"} \subseteq Labels
  BY DEF Labels
<1>2. CASE Connects(c.dev) /\ Step(w, c, "idle")
  <2>1. Shrinks
    BY <1>1, <1>2, ConnectShrinks DEF HandleLinks
  <2> QED
    BY <1>1, <1>2, <2>1, EndTame
<1>3. CASE UNCHANGED open /\ Step(w, c, "handleDelete")
  <2>1. Shrinks
    BY <1>1, <1>3, QuietShrinks DEF HandleLinks, devVars
  <2> QED
    BY <1>1, <1>l, <1>3, <2>1, WithDevTame DEF NeedsNew, NeedsKey, NeedsId
<1> QED
  BY <1>2, <1>3 DEF HandleLinks

LEMMA HandleDeleteTame ==
    ASSUME CallsInv, ObjectsInv, NEW w \in Workers, HandleDelete(w)
    PROVE  Tame(w)
<1> DEFINE c == call[w]
<1>1. SharedTypes /\ c.at = "handleDelete" /\ Tames(w) /\ c.new = Nil
  BY CallKnown DEF HandleDelete, Fields, NeedsNew, Tames
<1>2. Shrinks /\ Step(w, c, "idle")
  BY <1>1, DropShrinks DEF HandleDelete
<1> QED
  BY <1>1, <1>2, EndTame

LEMMA RequestTame ==
    ASSUME CallsInv, ObjectsInv, NEW w \in Workers, Request(w) \/ ResetRequest(w)
    PROVE  Tame(w)
<1> DEFINE c == call[w]
<1>1. /\ Fields(c) /\ SharedTypes /\ c.at = "got" /\ Tames(w) /\ c.then \in Labels /\ c.new = Nil /\ c.id # Nil
      /\ [c EXCEPT !.then = c.then] = c /\ c.at \in NeedsDev /\ c.at \notin NeedsNew /\ c.dev \in stored
  BY CallKnown, SameThen, GotStored DEF Request, ResetRequest, Fields, NeedsId, NeedsDev, NeedsNew, NeedsKey, Dereferences, Tames
<1>2. Shrinks
  BY <1>1, ConnectShrinks, QuietShrinks DEF Request, ResetRequest, devVars
<1>3. "temporary" \in Labels
  BY DEF Labels
<1>4. CASE Request(w)
  BY <1>1, <1>2, <1>4, EndTame DEF Request
<1>5. CASE ResetRequest(w)
  <2>1. Step(w, c, "temporary")
    BY <1>5 DEF ResetRequest
  <2> QED
    BY <1>1, <1>2, <1>3, <2>1, WithDevTame DEF NeedsNew, NeedsKey
<1> QED
  BY <1>4, <1>5

LEMMA TemporaryTame ==
    ASSUME CallsInv, ObjectsInv, NEW w \in Workers, RemoveTemporaryDeviceFromCache(w)
    PROVE  Tame(w)
<1> DEFINE c == call[w]
           l == IF foundByIP[c.dev] THEN "idle" ELSE "unlessIP"
<1>1. SharedTypes /\ c.at = "temporary" /\ Tames(w) /\ c.at \in NeedsDev /\ c.at \notin NeedsNew
  BY CallKnown DEF RemoveTemporaryDeviceFromCache, NeedsDev, NeedsNew, NeedsKey, Dereferences, Tames
<1>2. Shrinks /\ Step(w, [c EXCEPT !.then = "idle"], l)
  BY <1>1, QuietShrinks DEF RemoveTemporaryDeviceFromCache
<1>3. l \in {"idle", "unlessIP"} /\ l \in Labels /\ "idle" \in Labels
  BY DEF Labels
<1> HIDE DEF l
<1> QED
  BY <1>1, <1>2, <1>3, WithDevTame DEF NeedsNew, NeedsKey, NeedsId

\* A discovery that finds no device, or none that answers.
LEMMA NothingFoundTame ==
    ASSUME CallsInv, ObjectsInv, NEW w \in Workers, call[w].at \in {"mcast", "mcastLinks", "ipFind"},
           Step(w, call[w], "idle"), UNCHANGED <<cache, exp, closed, devVars, ghosts>>
    PROVE  Tame(w)
<1>1. SharedTypes /\ Fields(call[w]) /\ Tames(w)
  BY CallKnown DEF Tames
<1>2. Shrinks /\ open' = open
  BY <1>1, QuietShrinks DEF devVars
<1>3. call[w].new = Nil \/ ~open[call[w].new]
  BY <1>1 DEF ObjectsInv, Fields, Discovering, NeedsNew
<1> QED
  BY <1>1, <1>2, <1>3, EndTame

\* A device that was found by IP is on its way to the cache.
LEMMA IPStoreNextTame ==
    ASSUME CallsInv, ObjectsInv, NEW w \in Workers, NEW r \in Calls, IPStoreNext(w, r), Shrinks,
           call[w].at \in {"ipOld", "ipStore"}, r.new = call[w].new, r.id = call[w].id, r.dev = call[w].dev
    PROVE  Tame(w)
<1> DEFINE q == [r EXCEPT !.perm = TRUE, !.then = "ipDrop"]
<1>1. /\ Tames(w) /\ call[w].new # Nil /\ call[w].then = "idle"
      /\ call[w].dev = Nil \/ call[w].dev \in stored
  BY CallKnown, GotStored DEF Tames, Fields, NeedsNew
<1>2. q \in Calls /\ q.new = r.new /\ q.dev = r.dev /\ q.perm /\ q.then = "ipDrop" /\ q.id = r.id
  BY DEF Calls, Labels
<1>3. Step(w, q, "store")
  BY DEF IPStoreNext
<1> HIDE DEF q
<1>4. "store" \in Labels /\ Ready(q, "store")
  BY <1>1, <1>2 DEF Labels, Ready, AfterStore, NeedsId, NeedsDev, NeedsNew, NeedsKey, Dereferences
<1>5. NewKept(w)
  <2>1. Going(w, q, "store")
    BY <1>2, <1>3, <1>4, CallKnown, StepFields
  <2>2. call'[w].at = "store" /\ call'[w].then = "ipDrop" /\ call'[w].new = call[w].new
    BY <1>2, <2>1 DEF Going
  <2> QED
    BY <1>1, <2>2 DEF NewKept, Discovering
<1> QED
  BY <1>1, <1>2, <1>3, <1>4, <1>5, TameStep

LEMMA IPStoreTame ==
    ASSUME CallsInv, ObjectsInv, NEW w \in Workers, IPStore(w)
    PROVE  Tame(w)
<1>1. SharedTypes /\ call[w] \in Calls
  BY CallKnown
<1>2. Shrinks
  BY <1>1, QuietShrinks DEF IPStore
<1> QED
  BY <1>1, <1>2, IPStoreNextTame DEF IPStore

LEMMA IPOldTame ==
    ASSUME CallsInv, ObjectsInv, NEW w \in Workers, IPOld(w)
    PROVE  Tame(w)
<1> DEFINE c == call[w]
           Found == {i \in Ids : Live(i) /\ foundByIP[cache[i]]}
           old1 == IF c.id = idOf[c.new] THEN {} ELSE {cache[c.id]}
           c1 == [c EXCEPT !.old = old1]
           c2(i) == [c EXCEPT !.old = IF idOf[cache[i]] = idOf[c.new] THEN {} ELSE {cache[i]}]
<1>1. /\ SharedTypes /\ c \in Calls /\ Fields(c) /\ c.at = "ipOld" /\ c.new # Nil /\ c.then = "idle"
      /\ c.dev = Nil \/ c.dev \in stored
      /\ c.id \in OrNil(Ids)
  BY CallKnown, GotStored DEF IPOld, Fields, NeedsNew
<1>2. Shrinks /\ Tames(w)
  BY <1>1, QuietShrinks DEF IPOld, Tames
<1>3. CASE c.id # Nil /\ Live(c.id)
  <2>1. c.id \in Ids /\ cache[c.id] \in Objs /\ cache[c.id] \in stored
    BY <1>1, <1>3, GotStored DEF Live, SharedTypes, OrNil
  <2>2. old1 \in SUBSET Objs
    BY <2>1
  <2> HIDE DEF old1
  <2>3. c1 \in Calls /\ c1.new = c.new /\ c1.id = c.id /\ c1.dev = c.dev
    BY <1>1, <2>2 DEF Calls
  <2>4. CASE exp[c.id] = "never"
    <3>1. IPStoreNext(w, c1)
      BY <1>3, <2>4 DEF IPOld, old1
    <3> HIDE DEF c1
    <3> QED
      BY <1>1, <1>2, <2>3, <3>1, IPStoreNextTame
  <2>5. CASE exp[c.id] # "never"
    <3> DEFINE s == Saw(c.id)
               r == [c1 EXCEPT !.dev = cache[c.id], !.key = c.id, !.perm = FALSE, !.saw = s, !.then = "ipStore"]
    <3>1. Step(w, r, "touch")
      BY <1>3, <2>5 DEF IPOld, old1
    <3>2. s \in Seen /\ s[1] = exp[c.id]
      BY <1>1, <2>1 DEF Saw, Seen, SharedTypes
    <3> HIDE DEF s, c1
    <3>3. /\ r \in Calls /\ r.new = c.new /\ r.dev = cache[c.id] /\ r.id = c.id /\ r.key = c.id /\ r.saw = s
          /\ r.then = "ipStore" /\ ~r.perm
      BY <2>1, <2>3, <3>2 DEF Calls, Seen, Labels, OrNil
    <3> HIDE DEF r
    <3>4. "touch" \in Labels /\ Ready(r, "touch")
      BY <1>1, <1>3, <2>1, <2>5, <3>2, <3>3, NilAssumption DEF Labels, Ready, NeedsId, NeedsDev, NeedsNew, NeedsKey, Dereferences, AfterTouch
    <3>5. NewKept(w)
      <4>1. Going(w, r, "touch")
        BY <3>1, <3>3, <3>4, CallKnown, StepFields
      <4> QED
        BY <1>1, <3>3, <4>1 DEF NewKept, Discovering, Going
    <3> QED
      BY <1>2, <2>1, <3>1, <3>3, <3>4, <3>5, TameStep
  <2> QED
    BY <2>4, <2>5
<1>4. CASE c.id # Nil /\ ~Live(c.id)
  <2>1. IPStoreNext(w, c)
    BY <1>4 DEF IPOld
  <2> QED
    BY <1>1, <1>2, <2>1, IPStoreNextTame
<1>5. CASE c.id = Nil
  <2>1. IPStoreNext(w, c) \/ \E i \in Found : IPStoreNext(w, c2(i))
    BY <1>5 DEF IPOld
  <2>2. CASE IPStoreNext(w, c)
    BY <1>1, <1>2, <2>2, IPStoreNextTame
  <2>3. ASSUME NEW i \in Found, IPStoreNext(w, c2(i))
        PROVE  Tame(w)
    <3> DEFINE old2 == IF idOf[cache[i]] = idOf[c.new] THEN {} ELSE {cache[i]}
               r == [c EXCEPT !.old = old2]
    <3>1. old2 \in SUBSET Objs
      BY <1>1, <2>3 DEF Live, SharedTypes, OrNil
    <3>2. IPStoreNext(w, r)
      BY <2>3
    <3> HIDE DEF old2
    <3>3. r \in Calls /\ r.new = c.new /\ r.id = c.id /\ r.dev = c.dev
      BY <1>1, <3>1 DEF Calls
    <3> HIDE DEF r
    <3> QED
      BY <1>1, <1>2, <3>2, <3>3, IPStoreNextTame
  <2> QED
    BY <2>1, <2>2, <2>3
<1> QED
  BY <1>3, <1>4, <1>5

LEMMA ObserveTame ==
    ASSUME CallsInv, ObjectsInv, NEW w \in Workers, ObserveResource(w)
    PROVE  Tame(w)
<1> DEFINE c == call[w]
           r == [c EXCEPT !.new = c.dev, !.perm = TRUE, !.then = "idle"]
<1>1. /\ SharedTypes /\ c \in Calls /\ c.at = "got" /\ Tames(w) /\ c.new = Nil /\ c.dev # Nil /\ c.dev \in stored
      /\ c.dev \in OrNil(Objs)
  BY CallKnown, GotStored DEF ObserveResource, Fields, NeedsDev, NeedsNew, NeedsKey, Dereferences, Tames
<1>2. Shrinks /\ Step(w, r, "store")
  BY <1>1, QuietShrinks DEF ObserveResource
<1>3. r \in Calls /\ r.new = c.dev /\ r.dev = c.dev /\ r.perm /\ r.then = "idle"
  BY <1>1 DEF Calls, Labels
<1> HIDE DEF r
<1>4. "store" \in Labels /\ Ready(r, "store")
  BY <1>1, <1>3 DEF Labels, Ready, NeedsId, NeedsDev, NeedsNew, NeedsKey, Dereferences, AfterStore
<1>5. NewKept(w)
  <2>1. Going(w, r, "store")
    BY <1>2, <1>3, <1>4, CallKnown, StepFields
  <2> QED
    BY <1>1, <1>3, <2>1 DEF NewKept, Discovering, Going
<1> QED
  BY <1>1, <1>2, <1>3, <1>4, <1>5, TameStep

\* A call begins.
LEMMA BeginTame ==
    ASSUME CallsInv, ObjectsInv, NEW w \in Workers, NEW r \in Calls, NEW l \in Labels, Begin(w, r, l), Ready(r, l),
           r.new = Nil, r.dev = Nil \/ r.dev \in stored, UNCHANGED <<cache, exp, closed, devVars, ghosts>>
    PROVE  Tame(w)
<1>1. SharedTypes /\ Fields(call[w]) /\ call[w].at = "idle" /\ Tames(w) /\ Step(w, r, l)
  BY CallKnown DEF Begin, Tames
<1>2. Shrinks /\ call[w].new = Nil
  BY <1>1, QuietShrinks DEF Fields, NeedsNew
<1> QED
  BY <1>1, <1>2, TameStep

LEMMA GetDeviceTame ==
    ASSUME CallsInv, ObjectsInv, NEW w \in Workers, NEW i \in Ids, GetDevice(w, i)
    PROVE  Tame(w)
<1> DEFINE r == [Idle EXCEPT !.id = i]
<1>1. r \in Calls /\ r.id # Nil /\ r.new = Nil /\ r.dev = Nil
  BY IdleIsCall, NilAssumption DEF Calls, Idle, OrNil
<1>2. Begin(w, r, "load") /\ UNCHANGED <<cache, exp, closed, devVars, ghosts>>
  BY DEF GetDevice
<1> HIDE DEF r
<1>3. "load" \in Labels /\ Ready(r, "load")
  BY <1>1 DEF Labels, Ready, NeedsId, NeedsDev, NeedsNew, NeedsKey, Dereferences
<1> QED
  BY <1>1, <1>2, <1>3, BeginTame

LEMMA GetDevicesByIPTame ==
    ASSUME CallsInv, ObjectsInv, NEW w \in Workers, GetDevicesByIP(w)
    PROVE  Tame(w)
<1> DEFINE r == [Idle EXCEPT !.then = "idle"]
<1>1. r \in Calls /\ r.new = Nil /\ r.dev = Nil
  BY IdleIsCall DEF Calls, Idle, Labels
<1>2. Begin(w, r, "ipFind") /\ UNCHANGED <<cache, exp, closed, devVars, ghosts>>
  BY DEF GetDevicesByIP
<1> HIDE DEF r
<1>3. "ipFind" \in Labels /\ Ready(r, "ipFind")
  BY <1>1 DEF Labels, Ready, NeedsId, NeedsDev, NeedsNew, NeedsKey, Dereferences
<1> QED
  BY <1>1, <1>2, <1>3, BeginTame

LEMMA PingByIPTame ==
    ASSUME CallsInv, ObjectsInv, NEW w \in Workers, NEW i \in Ids, PingByIP(w, i)
    PROVE  Tame(w)
<1> DEFINE r == [Idle EXCEPT !.id = i, !.ping = TRUE]
<1>1. r \in Calls /\ r.new = Nil /\ r.dev = Nil
  BY IdleIsCall DEF Calls, Idle, OrNil
<1>2. Begin(w, r, "ipFind") /\ UNCHANGED <<cache, exp, closed, devVars, ghosts>>
  BY DEF PingByIP
<1> HIDE DEF r
<1>3. "ipFind" \in Labels /\ Ready(r, "ipFind")
  BY <1>1 DEF Labels, Ready, NeedsId, NeedsDev, NeedsNew, NeedsKey, Dereferences
<1> QED
  BY <1>1, <1>2, <1>3, BeginTame

LEMMA TryDefaultTame ==
    ASSUME CallsInv, ObjectsInv, NEW w \in Workers, NEW i \in Ids, TryDefault(w, i)
    PROVE  Tame(w)
<1> DEFINE s == Saw(i)
           r == [Idle EXCEPT !.dev = cache[i], !.key = i, !.saw = s]
<1>1. cache[i] \in Objs /\ cache[i] \in stored /\ s \in Seen /\ ~s[2]
  BY CallKnown, GotStored DEF TryDefault, Live, SharedTypes, OrNil, Saw, Seen
<1>2. Begin(w, r, "touch") /\ UNCHANGED <<cache, exp, closed, devVars, ghosts>>
  BY DEF TryDefault
<1> HIDE DEF s
<1>3. r \in Calls /\ r.new = Nil /\ r.dev = cache[i] /\ r.key = i /\ r.saw = s /\ r.then = "idle"
  BY <1>1, IdleIsCall DEF Calls, Idle, OrNil, Seen
<1> HIDE DEF r
<1>4. "touch" \in Labels /\ Ready(r, "touch")
  BY <1>1, <1>3, NilAssumption DEF Labels, Ready, NeedsId, NeedsDev, NeedsNew, NeedsKey, Dereferences, AfterTouch
<1> QED
  BY <1>1, <1>2, <1>3, <1>4, BeginTame

------------------------------------------------------------------------------
(* The device cache: steps that find, store and move devices                *)

CacheRest == ObjectsInv /\ KeysInv /\ FoundByIPIsPermanent

LEMMA TameKeeps ==
    ASSUME CallsInv, CacheRest, NEW w \in Workers, Tame(w)
    PROVE  Moved(w) /\ SharedTypes' /\ CacheRest'
<1>1. ObjectsInv' /\ KeysInv' /\ FoundByIPIsPermanent'
  BY TameObjects, TameKeys, TamePerm DEF CacheRest
<1> QED
  BY <1>1 DEF CacheRest, Tame, Shrinks

\* No call goes on.
LEMMA QuietCallsKeep ==
    ASSUME CallsInv, CacheRest, UNCHANGED call, ObjectsKept, CacheKept
    PROVE  CacheRest'
<1>o. \A v \in Workers : call[v].new # Nil => call[v].new \in Objs
  BY CallTypes DEF CallsInv, CacheTypes, OrNil
<1>1. LoserIsClosed'
  BY DEF CacheRest, ObjectsInv, ObjectsKept, LoserIsClosed
<1>2. ObjectsInv'
  BY <1>1, <1>o DEF CacheRest, ObjectsInv, ObjectsKept
<1>3. ASSUME NEW i \in Ids, NEW v \in Workers, cache'[i] # Nil
      PROVE  MovesFrom(v, cache[i], i) => MovesFrom(v, cache[i], i)'
  <2>1. cache'[i] = cache[i]
    BY <1>3 DEF CacheKept
  <2> QED
    BY <2>1 DEF MovesFrom
<1>4. \A i \in Ids, v \in Workers : Removes(v, i) /\ cache'[i] = cache[i] => Removes(v, i)'
  BY DEF Removes
<1> QED
  BY <1>2, <1>3, <1>4, KeysKept, PermKept DEF CacheRest

LEMMA FindsKeeps ==
    ASSUME CallsInv, CacheRest, NEW w \in Workers, NEW o \in Fresh, NEW i \in Ids, NEW ip \in BOOLEAN,
           Finds(o, i, ip), Moved(w), call[w].at # "touch", ~Mover(call[w]), call[w].new = Nil,
           call'[w].new = o, call'[w].dev = Nil, Discovering(call'[w]) => ~ip
    PROVE  SharedTypes' /\ CacheRest'
<1>1. o \in Objs /\ ~open[o] /\ o # Nil
  BY NilAssumption DEF Fresh
<1>2. /\ \A j \in Ids : cache[j] # o
      /\ \A v \in Workers : call[v].dev # o /\ call[v].new # o
  BY DEF Fresh, Referenced
<1>s. SharedTypes
  BY CallKnown
<1>3. /\ SharedTypes'
      /\ \A p \in Objs : p # o => idOf'[p] = idOf[p] /\ foundByIP'[p] = foundByIP[p]
      /\ foundByIP'[o] = ip
      /\ stored' = stored \ {o} /\ stale' = stale \ {o} /\ raced' = raced \ {o}
      /\ UNCHANGED <<cache, exp, open>>
  BY <1>1, <1>s DEF SharedTypes, Finds
<1>t. /\ \A j \in Ids : cache[j] # Nil => cache[j] \in Objs
      /\ \A v \in Workers : call[v].new # Nil => call[v].new \in Objs
  BY <1>s, CallKnown DEF SharedTypes, OrNil
<1>c. \A v \in Workers : v # w => call'[v] = call[v]
  BY DEF Moved, OthersWait
<1>4. ObjectsInv'
  <2>1. \A j \in Ids : cache'[j] # Nil => cache'[j] \in stored'
    BY <1>2, <1>3 DEF CacheRest, ObjectsInv
  <2>2. \A v \in Workers : call'[v].dev # Nil => call'[v].dev \in stored'
    BY <1>2, <1>3, <1>c DEF CacheRest, ObjectsInv
  <2>3. ASSUME NEW v \in Workers, call'[v].new # Nil
        PROVE  /\ call'[v].new \in stored' \/ ~open'[call'[v].new] \/ "closeNew" \in {call'[v].at, call'[v].then}
               /\ Discovering(call'[v]) => call'[v].new \notin stored' /\ ~foundByIP'[call'[v].new]
               /\ \A u \in Workers : u # v /\ call'[u].new = call'[v].new => call'[v].new \in stored'
    <3>1. CASE v = w
      BY <1>1, <1>2, <1>3, <1>c, <3>1
    <3>2. CASE v # w
      <4>1. call'[v] = call[v] /\ call[v].new # o /\ call[v].new \in Objs
        BY <1>2, <1>c, <1>t, <2>3, <3>2
      <4> QED
        BY <1>3, <1>c, <2>3, <3>2, <4>1 DEF CacheRest, ObjectsInv
    <3> QED
      BY <3>1, <3>2
  <2>4. LoserIsClosed'
    BY <1>1, <1>3, <1>c, NilAssumption DEF CacheRest, ObjectsInv, LoserIsClosed
  <2> QED
    BY <2>1, <2>2, <2>3, <2>4 DEF ObjectsInv
<1>5. KeysInv'
  <2> SUFFICES ASSUME NEW j \in Ids, cache[j] # Nil
               PROVE  \/ idOf'[cache[j]] = j \/ cache[j] \in stale'
                      \/ \E v \in Workers : MovesFrom(v, cache[j], j)'
    BY <1>3 DEF KeysInv, MovesFrom
  <2>1. cache[j] \in Objs /\ cache[j] # o
    BY <1>2, <1>t
  <2>2. \A v \in Workers : MovesFrom(v, cache[j], j) => MovesFrom(v, cache[j], j)'
    BY <1>3, <1>c DEF MovesFrom, Mover
  <2> QED
    BY <1>3, <2>1, <2>2 DEF CacheRest, KeysInv
<1>6. FoundByIPIsPermanent'
  <2> SUFFICES ASSUME NEW j \in Ids, cache[j] # Nil, foundByIP'[cache[j]], idOf'[cache[j]] = j, exp[j] # "never"
               PROVE  cache[j] \in raced' \union stale' \/ \E v \in Workers : Removes(v, j)'
    BY <1>3 DEF FoundByIPIsPermanent, Removes
  <2>1. cache[j] \in Objs /\ cache[j] # o
    BY <1>2, <1>t
  <2>2. \A v \in Workers : Removes(v, j) => Removes(v, j)'
    BY <1>3, <1>c DEF Removes
  <2>3. cache[j] \in raced \union stale \/ \E v \in Workers : Removes(v, j)
    BY <1>3, <2>1 DEF CacheRest, FoundByIPIsPermanent, Removes
  <2> QED
    BY <1>3, <2>1, <2>2, <2>3
<1> QED
  BY <1>3, <1>4, <1>5, <1>6 DEF CacheRest

Keeps(w) == Moved(w) /\ SharedTypes' /\ CacheRest'

LEMMA MulticastKeeps ==
    ASSUME CallsInv, CacheRest, NEW w \in Workers, Multicast(w)
    PROVE  Keeps(w)
<1> DEFINE c == call[w]
<1>1. /\ c \in Calls /\ Fields(c) /\ c.at = "mcast" /\ c.id \in Ids /\ c.new = Nil /\ ~Mover(c)
      /\ call \in [Workers -> Calls]
  BY CallKnown DEF Multicast, Fields, NeedsId, NeedsNew, OrNil, Mover
<1>2. ASSUME NEW o \in Fresh, Finds(o, c.id, FALSE), Step(w, [c EXCEPT !.new = o], "mcastLinks")
      PROVE  Keeps(w)
  <2> DEFINE r == [c EXCEPT !.new = o]
  <2>1. o \in Objs /\ o # Nil /\ c.id # Nil
    BY <1>1, NilAssumption DEF Fresh
  <2>2. r \in Calls /\ r.new = o /\ r.id = c.id
    BY <1>1, <2>1 DEF Calls, OrNil
  <2>3. Step(w, r, "mcastLinks")
    BY <1>2
  <2> HIDE DEF r
  <2>4. "mcastLinks" \in Labels /\ Ready(r, "mcastLinks")
    BY <2>1, <2>2 DEF Labels, Ready, NeedsId, NeedsDev, NeedsNew, NeedsKey, Dereferences
  <2>5. Moved(w) /\ Going(w, r, "mcastLinks")
    BY <1>1, <2>2, <2>3, <2>4, Arrive, StepFields
  <2>6. call'[w].new = o /\ call'[w].dev = Nil
    BY <2>2, <2>5 DEF Going
  <2> QED
    BY <1>1, <1>2, <2>5, <2>6, FindsKeeps DEF Keeps
<1>3. CASE Step(w, c, "idle") /\ UNCHANGED <<cache, exp, closed, devVars, ghosts>>
  <2>1. Tame(w)
    BY <1>1, <1>3, NothingFoundTame DEF CacheRest
  <2> QED
    BY <2>1, TameKeeps DEF Keeps
<1> QED
  BY <1>2, <1>3 DEF Multicast

LEMMA IPFindKeeps ==
    ASSUME CallsInv, CacheRest, NEW w \in Workers, IPFind(w)
    PROVE  Keeps(w)
<1> DEFINE c == call[w]
<1>1. /\ c \in Calls /\ Fields(c) /\ c.at = "ipFind" /\ c.new = Nil /\ ~Mover(c)
      /\ call \in [Workers -> Calls]
  BY CallKnown DEF IPFind, Fields, NeedsNew, Mover
<1>2. ASSUME NEW o \in Fresh, NEW i \in Ids, Finds(o, i, TRUE), Step(w, [c EXCEPT !.new = o], "ipOld")
      PROVE  Keeps(w)
  <2> DEFINE r == [c EXCEPT !.new = o]
  <2>1. o \in Objs /\ o # Nil
    BY NilAssumption DEF Fresh
  <2>2. r \in Calls /\ r.new = o
    BY <1>1, <2>1 DEF Calls, OrNil
  <2>3. Step(w, r, "ipOld")
    BY <1>2
  <2> HIDE DEF r
  <2>4. "ipOld" \in Labels /\ Ready(r, "ipOld")
    BY <2>1, <2>2 DEF Labels, Ready, NeedsId, NeedsDev, NeedsNew, NeedsKey, Dereferences
  <2>5. Moved(w) /\ Going(w, r, "ipOld")
    BY <1>1, <2>2, <2>3, <2>4, Arrive, StepFields
  <2>6. call'[w].new = o /\ call'[w].dev = Nil /\ ~Discovering(call'[w])
    BY <2>2, <2>5 DEF Going, Discovering
  <2> QED
    BY <1>1, <1>2, <2>5, <2>6, FindsKeeps DEF Keeps
<1>3. CASE Step(w, c, "idle") /\ UNCHANGED <<cache, exp, closed, devVars, ghosts>>
  <2>1. Tame(w)
    BY <1>1, <1>3, NothingFoundTame DEF CacheRest
  <2> QED
    BY <2>1, TameKeeps DEF Keeps
<1> QED
  BY <1>2, <1>3 DEF IPFind

LEMMA HandleDeviceKeeps ==
    ASSUME CallsInv, CacheRest, NEW w \in Workers, NEW i \in Ids, HandleDevice(w, i)
    PROVE  Keeps(w)
<1>1. PICK o \in Fresh : Begin(w, [Idle EXCEPT !.new = o, !.then = "handleLinks"], "store") /\ Finds(o, i, FALSE)
  BY DEF HandleDevice
<1> DEFINE r == [Idle EXCEPT !.new = o, !.then = "handleLinks"]
<1>2. /\ call \in [Workers -> Calls] /\ call[w].at = "idle" /\ call[w].new = Nil /\ ~Mover(call[w])
      /\ Step(w, r, "store")
  BY <1>1, CallKnown DEF Begin, Fields, NeedsNew, Mover
<1>3. o \in Objs /\ o # Nil
  BY NilAssumption DEF Fresh
<1>4. r \in Calls /\ r.new = o /\ r.then = "handleLinks" /\ r.dev = Nil
  BY <1>3 DEF Calls, Idle, OrNil, Labels
<1> HIDE DEF r
<1>5. "store" \in Labels /\ Ready(r, "store")
  BY <1>3, <1>4 DEF Labels, Ready, NeedsId, NeedsDev, NeedsNew, NeedsKey, Dereferences, AfterStore
<1>6. Moved(w) /\ Going(w, r, "store")
  BY <1>2, <1>4, <1>5, Arrive, StepFields
<1>7. call'[w].new = o /\ call'[w].dev = Nil
  BY <1>4, <1>6 DEF Going
<1> QED
  BY <1>1, <1>2, <1>6, <1>7, FindsKeeps DEF Keeps

\* The device a call has found is opened; it is in the hands of no other call.
LEMMA MulticastLinksKeeps ==
    ASSUME CallsInv, CacheRest, NEW w \in Workers, MulticastLinks(w)
    PROVE  Keeps(w)
<1> DEFINE c == call[w]
<1>1. /\ c \in Calls /\ Fields(c) /\ c.at = "mcastLinks" /\ c.id # Nil /\ c.new \in Objs /\ c.new # Nil
      /\ c.dev = Nil \/ c.dev \in stored
      /\ ~Mover(c) /\ call \in [Workers -> Calls] /\ SharedTypes
  BY CallKnown, GotStored, NilAssumption DEF MulticastLinks, Fields, NeedsId, NeedsNew, OrNil, Mover, CacheRest
<1>2. CASE UNCHANGED open /\ Step(w, c, "idle")
  <2>1. Tame(w)
    BY <1>1, <1>2, NothingFoundTame DEF CacheRest, MulticastLinks, devVars
  <2> QED
    BY <2>1, TameKeeps DEF Keeps
<1>3. CASE Connects(c.new) /\ Step(w, [c EXCEPT !.perm = FALSE, !.then = "closeNew"], "store")
  <2> DEFINE r == [c EXCEPT !.perm = FALSE, !.then = "closeNew"]
  <2>1. r \in Calls /\ r.new = c.new /\ r.dev = c.dev /\ r.id = c.id /\ r.then = "closeNew"
    BY <1>1 DEF Calls, Labels
  <2>2. Step(w, r, "store")
    BY <1>3
  <2> HIDE DEF r
  <2>3. "store" \in Labels /\ Ready(r, "store")
    BY <1>1, <2>1 DEF Labels, Ready, NeedsId, NeedsDev, NeedsNew, NeedsKey, Dereferences, AfterStore
  <2>4. Moved(w) /\ Going(w, r, "store")
    BY <1>1, <2>1, <2>2, <2>3, Arrive, StepFields
  <2>5. call'[w].new = c.new /\ call'[w].dev = c.dev /\ call'[w].then = "closeNew" /\ call'[w].at = "store"
    BY <2>1, <2>4 DEF Going
  <2>c. \A v \in Workers : v # w => call'[v] = call[v]
    BY <2>4 DEF Moved, OthersWait
  <2>6. /\ SharedTypes' /\ UNCHANGED <<cache, exp, idOf, foundByIP, stored, stale, raced>>
        /\ \A o \in Objs : o # c.new => open'[o] = open[o]
    BY <1>1, <1>3 DEF MulticastLinks, Connects, SharedTypes, ghosts
  <2>d. c.new \notin stored /\ ~foundByIP[c.new]
    BY <1>1 DEF CacheRest, ObjectsInv, Discovering
  <2>e. \A v \in Workers : v # w => call[v].new # c.new
    BY <1>1, <2>d DEF CacheRest, ObjectsInv
  <2>7. ObjectsInv'
    <3>1. \A i \in Ids : cache'[i] # Nil => cache'[i] \in stored'
      BY <2>6 DEF CacheRest, ObjectsInv
    <3>2. \A v \in Workers : call'[v].dev # Nil => call'[v].dev \in stored'
      BY <1>1, <2>5, <2>6, <2>c DEF CacheRest, ObjectsInv
    <3>3. ASSUME NEW v \in Workers, call'[v].new # Nil
          PROVE  /\ call'[v].new \in stored' \/ ~open'[call'[v].new] \/ "closeNew" \in {call'[v].at, call'[v].then}
                 /\ Discovering(call'[v]) => call'[v].new \notin stored' /\ ~foundByIP'[call'[v].new]
                 /\ \A u \in Workers : u # v /\ call'[u].new = call'[v].new => call'[v].new \in stored'
      <4>1. CASE v = w
        BY <2>5, <2>6, <2>c, <2>d, <2>e, <4>1
      <4>2. CASE v # w
        <5>1. call'[v] = call[v] /\ call[v].new # c.new /\ call[v].new \in Objs
          BY <2>c, <2>e, <3>3, <4>2, CallKnown DEF OrNil
        <5> QED
          BY <2>5, <2>6, <2>c, <3>3, <4>2, <5>1 DEF CacheRest, ObjectsInv
      <4> QED
        BY <4>1, <4>2
    <3>4. LoserIsClosed'
      <4> SUFFICES ASSUME NEW o \in Objs, open'[o], o \notin stored PROVE \E v \in Workers : call'[v].new = o
        BY <2>6 DEF LoserIsClosed
      <4>1. CASE o = c.new
        BY <2>5, <4>1
      <4>2. CASE o # c.new
        BY <2>6, <2>c, <4>2 DEF CacheRest, ObjectsInv, LoserIsClosed
      <4> QED
        BY <4>1, <4>2
    <3> QED
      BY <3>1, <3>2, <3>3, <3>4 DEF ObjectsInv
  <2>8. CacheKept
    BY <2>6 DEF CacheKept
  <2>9. \A i \in Ids, v \in Workers : MovesFrom(v, cache[i], i) => MovesFrom(v, cache[i], i)'
    BY <1>1, <2>6, <2>c DEF MovesFrom, Mover
  <2>10. \A i \in Ids, v \in Workers : Removes(v, i) => Removes(v, i)'
    BY <1>1, <2>6, <2>c DEF Removes
  <2> QED
    BY <2>4, <2>6, <2>7, <2>8, <2>9, <2>10, KeysKept, PermKept DEF Keeps, CacheRest
<1> QED
  BY <1>2, <1>3 DEF MulticastLinks

\* The step of a call that keeps the devices, the cache and what it moves.
LEMMA KeptKeeps ==
    ASSUME CallsInv, CacheRest, NEW w \in Workers, Moved(w), SharedTypes', ObjectsKept, CacheKept, NewKept(w),
           call'[w].dev = Nil \/ call'[w].dev \in stored,
           \A i \in Ids : cache'[i] # Nil /\ MovesFrom(w, cache[i], i) => MovesFrom(w, cache[i], i)',
           \A i \in Ids : Removes(w, i) => exp'[i] = "never"
    PROVE  Keeps(w)
<1>1. ObjectsInv'
  BY KeptObjects DEF CacheRest
<1>c. \A v \in Workers : v # w => call'[v] = call[v]
  BY DEF Moved, OthersWait
<1>2. ASSUME NEW i \in Ids, NEW v \in Workers, cache'[i] # Nil, MovesFrom(v, cache[i], i)
      PROVE  MovesFrom(v, cache[i], i)'
  <2>1. cache'[i] = cache[i]
    BY <1>2 DEF CacheKept
  <2> QED
    BY <1>c, <1>2, <2>1 DEF MovesFrom
<1>3. \A i \in Ids, v \in Workers :
          Removes(v, i) /\ cache'[i] = cache[i] /\ cache[i] # Nil /\ exp'[i] # "never" => Removes(v, i)'
  BY <1>c DEF Removes
<1> QED
  BY <1>1, <1>2, <1>3, KeysKept, PermKept DEF Keeps, CacheRest

\* The device that w has found and not opened, or that is stored, may be let go.
LEMMA MayLetGo ==
    ASSUME CallsInv, ObjectsInv, NEW w \in Workers, "closeNew" \notin {call[w].at, call[w].then}
    PROVE  call[w].new = Nil \/ call[w].new \in stored \/ ~open[call[w].new]
  BY DEF ObjectsInv

LEMMA TouchKeeps ==
    ASSUME CallsInv, CacheRest, NEW w \in Workers, Touch(w)
    PROVE  Keeps(w)
<1> DEFINE c == call[w]
<1>1. /\ c \in Calls /\ Fields(c) /\ c.at = "touch" /\ c.then \in AfterTouch /\ c.key \in Ids
      /\ c.dev # Nil /\ c.dev \in stored /\ c.dev \in Objs
      /\ call \in [Workers -> Calls] /\ SharedTypes /\ ObjectsInv /\ c.perm \in BOOLEAN
  BY CallKnown, GotStored DEF Touch, Fields, NeedsDev, NeedsKey, Dereferences, OrNil, CacheRest
<1>2. /\ SharedTypes' /\ UNCHANGED <<cache, closed, idOf, foundByIP, open, stored, stale>>
      /\ raced \subseteq raced'
      /\ \A i \in Ids : exp'[i] = exp[i] \/ (i = c.key /\ cache[i] = c.dev)
  BY <1>1 DEF Touch, SharedTypes, devVars
<1>3. cache[c.key] = c.dev => \/ exp'[c.key] = "never"
                              \/ exp[c.key] # "never" /\ ~c.perm
                              \/ ~foundByIP[c.dev] /\ ~c.perm
                              \/ c.dev \in raced' /\ ~c.perm
  <2> SUFFICES ASSUME cache[c.key] = c.dev, ~c.perm, foundByIP[c.dev], c.dev \notin raced'
               PROVE  exp[c.key] # "never"
    BY <1>1 DEF Touch, SharedTypes
  <2>1. c.saw = <<exp[c.key], foundByIP[c.dev]>>
    BY DEF Touch, Saw
  <2> QED
    BY <1>1, <2>1 DEF Fields
<1>4. ObjectsKept /\ CacheKept
  BY <1>2, <1>3 DEF ObjectsKept, CacheKept
<1>5. Step(w, c, c.then)
  BY DEF Touch
<1>6. \/ c.then = "idle" /\ Moved(w) /\ call'[w] = Idle
      \/ c.then # "idle" /\ Moved(w) /\ Going(w, c, c.then)
  <2>1. CASE c.then = "idle"
    BY <1>1, <1>5, <2>1, ArriveIdle
  <2>2. CASE c.then # "idle"
    <3>1. c.then \in Labels \ {"idle"} /\ Ready(c, c.then)
      BY <1>1, <2>2, CallKnown DEF Ready, Fields, AfterTouch, NeedsNew, NeedsKey
    <3> QED
      BY <1>1, <1>5, <2>2, <3>1, Arrive, StepFields
  <2> QED
    BY <2>1, <2>2
<1>7. Moved(w) /\ (call'[w].dev = Nil \/ call'[w].dev \in stored)
  BY <1>1, <1>6, IdleIsCall DEF Going
<1>8. NewKept(w)
  <2>1. CASE c.then = "closeNew"
    BY <1>6, <2>1 DEF NewKept, Going, Discovering
  <2>2. CASE c.then # "closeNew"
    <3>1. call[w].new = Nil \/ call[w].new \in stored \/ ~open'[call[w].new]
      BY <1>1, <1>2, <2>2, MayLetGo
    <3>2. /\ call'[w].new \in {Nil, c.new} /\ ~Discovering(call'[w])
      BY <1>1, <1>6, IdleIsCall DEF Going, AfterTouch, Discovering
    <3> QED
      BY <1>1, <2>2, <3>1, <3>2 DEF NewKept
  <2> QED
    BY <2>1, <2>2
<1>9. ASSUME NEW i \in Ids, MovesFrom(w, cache[i], i)
      PROVE  MovesFrom(w, cache[i], i)'
  <2>1. c.then = "moveDelete"
    BY <1>1, <1>9 DEF MovesFrom
  <2>2. call'[w].id = c.id /\ call'[w].at = "moveDelete" /\ call'[w].dev = c.dev /\ call'[w].new = c.new
    BY <1>6, <2>1 DEF Going
  <2> QED
    BY <1>2, <1>9, <2>2 DEF MovesFrom
<1>10. \A i \in Ids : Removes(w, i) => exp'[i] = "never"
  <2>1. ASSUME NEW i \in Ids, Removes(w, i)
        PROVE  exp'[i] = "never"
    BY <1>1, <1>3, <2>1 DEF Removes
  <2> QED
    BY <2>1
<1> QED
  BY <1>2, <1>4, <1>7, <1>8, <1>9, <1>10, KeptKeeps

\* Own gives the device another ID, and the call moves it away from the old one.
LEMMA OwnDeviceKeeps ==
    ASSUME CallsInv, CacheRest, NEW w \in Workers, OwnDevice(w)
    PROVE  Keeps(w)
<1> DEFINE c == call[w]
<1>1. /\ c \in Calls /\ Fields(c) /\ c.at = "got" /\ c.id # Nil /\ c.new = Nil /\ c.then = "idle"
      /\ c.dev # Nil /\ c.dev \in stored /\ c.dev \in Objs
      /\ call \in [Workers -> Calls] /\ SharedTypes
  BY CallKnown, GotStored DEF OwnDevice, Fields, NeedsId, NeedsDev, NeedsNew, NeedsKey, Dereferences, OrNil, CacheRest
<1>2. "owning" \in Labels /\ Ready(c, "owning") /\ Step(w, c, "owning")
  BY <1>1 DEF OwnDevice, Labels, Ready, NeedsNew, NeedsKey
<1>3. Moved(w) /\ Going(w, c, "owning")
  BY <1>1, <1>2, Arrive, StepFields
<1>4. /\ call'[w].at = "owning" /\ call'[w].dev = c.dev /\ call'[w].new = Nil /\ call'[w].id = c.id
      /\ \A v \in Workers : v # w => call'[v] = call[v]
  BY <1>3 DEF Going, Moved, OthersWait
<1>5. UNCHANGED <<cache, exp, closed, foundByIP, open, stored, raced>> /\ ObjectsKept /\ NewKept(w)
  BY <1>1, <1>4 DEF OwnDevice, ObjectsKept, NewKept
<1>6. CASE UNCHANGED <<idOf, stale>>
  <2>1. SharedTypes' /\ CacheKept
    BY <1>1, <1>5, <1>6 DEF SharedTypes, CacheKept
  <2>2. \A i \in Ids : ~MovesFrom(w, cache[i], i) /\ ~Removes(w, i)
    BY <1>1 DEF MovesFrom, Removes
  <2> QED
    BY <1>1, <1>3, <1>4, <1>5, <2>1, <2>2, KeptKeeps
<1>7. ASSUME NEW i \in Ids \ {idOf[c.dev]}, idOf' = [idOf EXCEPT ![c.dev] = i],
             stale' = IF idOf[c.dev] # c.id \/ cache[i] = c.dev THEN stale \union {c.dev} ELSE stale
      PROVE  Keeps(w)
  <2>1. /\ SharedTypes' /\ stale \subseteq stale' /\ idOf'[c.dev] = i
        /\ \A o \in Objs : o # c.dev => idOf'[o] = idOf[o]
    BY <1>1, <1>5, <1>7 DEF SharedTypes
  <2>2. ObjectsInv'
    BY <1>1, <1>3, <1>4, <1>5, KeptObjects DEF CacheRest
  <2>3. c.dev \in stale' \/ (idOf[c.dev] = c.id /\ cache[i] # c.dev)
    BY <1>7
  <2>4. \A j \in Ids, v \in Workers : MovesFrom(v, cache[j], j) => v # w /\ MovesFrom(v, cache[j], j)'
    BY <1>1, <1>4, <1>5 DEF MovesFrom
  <2>5. KeysInv'
    <3> SUFFICES ASSUME NEW j \in Ids, cache[j] # Nil
                 PROVE  \/ idOf'[cache[j]] = j \/ cache[j] \in stale'
                        \/ \E v \in Workers : MovesFrom(v, cache[j], j)'
      BY <1>5 DEF KeysInv, MovesFrom
    <3>1. idOf[cache[j]] = j \/ cache[j] \in stale \/ \E v \in Workers : MovesFrom(v, cache[j], j)
      BY DEF CacheRest, KeysInv
    <3>2. cache[j] \in Objs
      BY <1>1 DEF SharedTypes, OrNil
    <3>3. CASE cache[j] # c.dev
      BY <2>1, <2>4, <3>1, <3>2, <3>3
    <3>4. CASE cache[j] = c.dev /\ idOf[c.dev] = c.id /\ j = c.id
      <4>1. MovesFrom(w, cache[j], j)'
        BY <1>4, <1>5, <3>4 DEF MovesFrom
      <4> QED
        BY <4>1
    <3>5. CASE cache[j] = c.dev /\ idOf[c.dev] = c.id /\ j # c.id
      BY <2>1, <2>4, <3>1, <3>5
    <3> QED
      BY <2>3, <3>3, <3>4, <3>5
  <2>6. FoundByIPIsPermanent'
    <3> SUFFICES ASSUME NEW j \in Ids, cache[j] # Nil, foundByIP[cache[j]], idOf'[cache[j]] = j, exp[j] # "never"
                 PROVE  cache[j] \in raced \union stale' \/ \E v \in Workers : Removes(v, j)'
      BY <1>5 DEF FoundByIPIsPermanent, Removes
    <3>1. cache[j] \in Objs
      BY <1>1 DEF SharedTypes, OrNil
    <3>2. CASE cache[j] = c.dev
      BY <2>1, <2>3, <3>2
    <3>3. CASE cache[j] # c.dev
      <4>1. cache[j] \in raced \union stale \/ \E v \in Workers : Removes(v, j)
        BY <2>1, <3>1, <3>3 DEF CacheRest, FoundByIPIsPermanent, Removes
      <4>2. \A v \in Workers : Removes(v, j) => Removes(v, j)'
        BY <1>1, <1>4, <1>5 DEF Removes
      <4> QED
        BY <2>1, <4>1, <4>2
    <3> QED
      BY <3>2, <3>3
  <2> QED
    BY <1>3, <2>1, <2>2, <2>5, <2>6 DEF Keeps, CacheRest
<1> QED
  BY <1>6, <1>7 DEF OwnDevice

\* GetDevice gives a device that it has taken out of the cache the ID of the
\* links; what the cache still has of it is stale.
LEMMA RenameKeeps ==
    ASSUME CallsInv, CacheRest, NEW w \in Workers, Rename(w)
    PROVE  Keeps(w)
<1> DEFINE c == call[w]
           r == [c EXCEPT !.perm = FALSE, !.then = "closeRenamed"]
<1>1. /\ c \in Calls /\ Fields(c) /\ c.at = "rename" /\ c.then = "idle" /\ c.key \in Ids
      /\ c.new # Nil /\ c.new \in Objs /\ (c.dev = Nil \/ c.dev \in stored)
      /\ call \in [Workers -> Calls] /\ SharedTypes
  BY CallKnown, GotStored DEF Rename, Fields, NeedsNew, NeedsKey, OrNil, CacheRest
<1>2. r \in Calls /\ r.new = c.new /\ r.dev = c.dev /\ r.then = "closeRenamed" /\ ~r.perm
  BY <1>1 DEF Calls, Labels
<1>3. Step(w, r, "store")
  BY DEF Rename
<1> HIDE DEF r
<1>4. "store" \in Labels /\ Ready(r, "store")
  BY <1>1, <1>2 DEF Labels, Ready, AfterStore, NeedsId, NeedsDev, NeedsNew, NeedsKey, Dereferences
<1>5. Moved(w) /\ Going(w, r, "store")
  BY <1>1, <1>2, <1>3, <1>4, Arrive, StepFields
<1>6. /\ call'[w].at = "store" /\ call'[w].then = "closeRenamed" /\ call'[w].new = c.new
      /\ call'[w].dev = c.dev
      /\ \A v \in Workers : v # w => call'[v] = call[v]
  BY <1>2, <1>5 DEF Going, Moved, OthersWait
<1>7. UNCHANGED <<cache, exp, closed, foundByIP, open, stored, raced>> /\ ObjectsKept /\ NewKept(w)
  BY <1>1, <1>6 DEF Rename, ObjectsKept, NewKept, Discovering
<1>8. /\ SharedTypes' /\ stale \subseteq stale'
      /\ \A o \in Objs : o # c.new => idOf'[o] = idOf[o]
      /\ \A j \in Ids : cache[j] = c.new => c.new \in stale'
  <2>1. idOf' \in [Objs -> Ids] /\ \A o \in Objs : o # c.new => idOf'[o] = idOf[o]
    BY <1>1 DEF Rename, SharedTypes
  <2>2. stale' = IF \E j \in Ids : cache[j] = c.new THEN stale \union {c.new} ELSE stale
    BY DEF Rename
  <2> QED
    BY <1>1, <1>7, <2>1, <2>2 DEF SharedTypes
<1>9. ObjectsInv'
  BY <1>1, <1>5, <1>6, <1>7, KeptObjects DEF CacheRest
<1>10. KeysInv'
  <2> SUFFICES ASSUME NEW j \in Ids, cache[j] # Nil
               PROVE  \/ idOf'[cache[j]] = j \/ cache[j] \in stale'
                      \/ \E v \in Workers : MovesFrom(v, cache[j], j)'
    BY <1>7 DEF KeysInv, MovesFrom
  <2>1. cache[j] \in Objs
    BY <1>1 DEF SharedTypes, OrNil
  <2>2. \A v \in Workers : MovesFrom(v, cache[j], j) => MovesFrom(v, cache[j], j)'
    BY <1>1, <1>6, <1>7 DEF MovesFrom
  <2> QED
    BY <1>8, <2>1, <2>2 DEF CacheRest, KeysInv
<1>11. FoundByIPIsPermanent'
  <2> SUFFICES ASSUME NEW j \in Ids, cache[j] # Nil, foundByIP[cache[j]], idOf'[cache[j]] = j, exp[j] # "never"
               PROVE  cache[j] \in raced \union stale' \/ \E v \in Workers : Removes(v, j)'
    BY <1>7 DEF FoundByIPIsPermanent, Removes
  <2>1. cache[j] \in Objs
    BY <1>1 DEF SharedTypes, OrNil
  <2>2. CASE cache[j] = c.new
    BY <1>8, <2>2
  <2>3. CASE cache[j] # c.new
    <3>1. cache[j] \in raced \union stale \/ \E v \in Workers : Removes(v, j)
      BY <1>8, <2>1, <2>3 DEF CacheRest, FoundByIPIsPermanent, Removes
    <3>2. \A v \in Workers : Removes(v, j) => Removes(v, j)'
      BY <1>1, <1>6, <1>7 DEF Removes
    <3> QED
      BY <1>8, <3>1, <3>2
  <2> QED
    BY <2>2, <2>3
<1> QED
  BY <1>5, <1>8, <1>9, <1>10, <1>11 DEF Keeps, CacheRest

LEMMA OwnedKeeps ==
    ASSUME CallsInv, CacheRest, NEW w \in Workers, Owned(w)
    PROVE  Keeps(w)
<1> DEFINE c == call[w]
           l == IF idOf[c.dev] = c.id THEN "idle" ELSE "moveExp"
<1>1. /\ c \in Calls /\ Fields(c) /\ c.at = "owning" /\ c.id # Nil /\ c.new = Nil /\ c.then = "idle"
      /\ c.dev # Nil /\ c.dev \in stored /\ c.dev \in Objs
      /\ call \in [Workers -> Calls] /\ SharedTypes
  BY CallKnown, GotStored DEF Owned, Fields, NeedsId, NeedsDev, NeedsNew, NeedsKey, Dereferences, OrNil, CacheRest
<1>2. UNCHANGED <<cache, exp, closed, idOf, foundByIP, open, stored, raced>> /\ ObjectsKept
  BY DEF Owned, devVars, ObjectsKept
<1>s. SharedTypes' /\ stale \subseteq stale' /\ CacheKept
  BY <1>1, <1>2 DEF Owned, SharedTypes, CacheKept
<1>r. \A i \in Ids : ~Removes(w, i)
  BY <1>1 DEF Removes
<1>3. CASE Step(w, c, "idle") /\ (idOf[c.dev] # c.id => c.dev \in stale')
  <2>1. Moved(w) /\ call'[w] = Idle
    BY <1>1, <1>3, ArriveIdle
  <2>2. NewKept(w) /\ call'[w].dev = Nil
    BY <1>1, <2>1, IdleIsCall DEF NewKept
  <2>3. ObjectsInv'
    BY <1>2, <2>1, <2>2, KeptObjects DEF CacheRest
  <2>4. KeysInv'
    <3> SUFFICES ASSUME NEW j \in Ids, cache[j] # Nil
                 PROVE  \/ idOf[cache[j]] = j \/ cache[j] \in stale'
                        \/ \E v \in Workers : MovesFrom(v, cache[j], j)'
      BY <1>2 DEF KeysInv, MovesFrom
    <3>1. idOf[cache[j]] = j \/ cache[j] \in stale \/ \E v \in Workers : MovesFrom(v, cache[j], j)
      BY DEF CacheRest, KeysInv
    <3>2. \A v \in Workers : v # w /\ MovesFrom(v, cache[j], j) => MovesFrom(v, cache[j], j)'
      BY <1>2, <2>1 DEF MovesFrom, Moved, OthersWait
    <3>3. MovesFrom(w, cache[j], j) => cache[j] = c.dev /\ j = c.id
      BY <1>1 DEF MovesFrom
    <3> QED
      BY <1>3, <1>s, <3>1, <3>2, <3>3
  <2>5. FoundByIPIsPermanent'
    <3>1. \A i \in Ids, v \in Workers : Removes(v, i) => Removes(v, i)'
      BY <1>2, <1>r, <2>1 DEF Removes, Moved, OthersWait
    <3> QED
      BY <1>s, <3>1, PermKept DEF CacheRest
  <2> QED
    BY <1>s, <2>1, <2>3, <2>4, <2>5 DEF Keeps, CacheRest
<1>4. CASE Step(w, c, "moveExp")
  <2>1. "moveExp" \in Labels /\ Ready(c, "moveExp")
    BY <1>1 DEF Labels, Ready, NeedsNew, NeedsKey
  <2>2. Moved(w) /\ Going(w, c, "moveExp")
    BY <1>1, <1>4, <2>1, Arrive, StepFields
  <2>3. call'[w].at = "moveExp" /\ call'[w].dev = c.dev /\ call'[w].new = Nil /\ call'[w].id = c.id
    BY <2>2 DEF Going
  <2>4. \A i \in Ids : MovesFrom(w, cache[i], i) => MovesFrom(w, cache[i], i)'
    BY <1>1, <1>2, <2>3 DEF MovesFrom
  <2> QED
    BY <1>1, <1>2, <1>s, <1>r, <2>2, <2>3, <2>4, KeptKeeps DEF NewKept
<1>5. (Step(w, c, "idle") /\ (idOf[c.dev] # c.id => c.dev \in stale')) \/ Step(w, c, "moveExp")
  BY DEF Owned
<1> QED
  BY <1>3, <1>4, <1>5

LEMMA MoveExpKeeps ==
    ASSUME CallsInv, CacheRest, NEW w \in Workers, MoveExp(w)
    PROVE  Keeps(w)
<1> DEFINE c == call[w]
           perm == Live(c.id) /\ exp[c.id] = "never"
<1>1. /\ c \in Calls /\ Fields(c) /\ c.at = "moveExp" /\ c.id # Nil /\ c.new = Nil
      /\ c.dev # Nil /\ c.dev \in stored /\ c.dev \in Objs
      /\ call \in [Workers -> Calls] /\ SharedTypes
  BY CallKnown, GotStored DEF MoveExp, Fields, NeedsId, NeedsDev, NeedsNew, NeedsKey, Dereferences, OrNil, CacheRest
<1>p. perm \in BOOLEAN
  BY DEF Live
<1>q. UNCHANGED <<cache, exp, closed, devVars, ghosts>> /\ cache' = cache
  BY DEF MoveExp
<1>m. PICK p \in BOOLEAN : Step(w, [c EXCEPT !.new = c.dev, !.perm = p, !.then = "moveDelete"], "store")
  <2>1. Step(w, [c EXCEPT !.new = c.dev, !.perm = perm, !.then = "moveDelete"], "store")
    BY DEF MoveExp
  <2> HIDE DEF perm
  <2> QED
    BY <1>p, <2>1
<1> DEFINE r == [c EXCEPT !.new = c.dev, !.perm = p, !.then = "moveDelete"]
<1>s. Step(w, r, "store")
  BY <1>m
<1>2. r \in Calls /\ r.new = c.dev /\ r.dev = c.dev /\ r.id = c.id /\ r.then = "moveDelete"
  <2>0. "moveDelete" \in Labels /\ c.dev \in OrNil(Objs)
    BY <1>1 DEF Labels, OrNil
  <2> DEFINE q(b) == [c EXCEPT !.new = c.dev, !.perm = b, !.then = "moveDelete"]
  <2>1. /\ q(TRUE) \in Calls /\ q(TRUE).new = c.dev /\ q(TRUE).dev = c.dev /\ q(TRUE).id = c.id
        /\ q(TRUE).then = "moveDelete"
    BY <1>1, <2>0 DEF Calls
  <2>2. /\ q(FALSE) \in Calls /\ q(FALSE).new = c.dev /\ q(FALSE).dev = c.dev /\ q(FALSE).id = c.id
        /\ q(FALSE).then = "moveDelete"
    BY <1>1, <2>0 DEF Calls
  <2>3. r = q(TRUE) \/ r = q(FALSE)
    <3>1. p = TRUE \/ p = FALSE
      OBVIOUS
    <3> QED
      BY <3>1, Zenon
  <2> HIDE DEF r, q
  <2> QED
    BY <2>1, <2>2, <2>3
<1> HIDE DEF r
<1>3. "store" \in Labels /\ Ready(r, "store")
  BY <1>1, <1>2 DEF Labels, Ready, NeedsNew, NeedsDev, NeedsId, NeedsKey, Dereferences, AfterStore
<1>4. Moved(w) /\ Going(w, r, "store")
  BY <1>1, <1>2, <1>3, <1>s, Arrive, StepFields
<1>5. /\ call'[w].at = "store" /\ call'[w].dev = c.dev /\ call'[w].new = c.dev /\ call'[w].id = c.id
      /\ call'[w].then = "moveDelete"
  BY <1>2, <1>4 DEF Going
<1>6. Shrinks
  BY <1>1, <1>q, QuietShrinks
<1>7. SharedTypes' /\ ObjectsKept /\ CacheKept
  BY <1>6, ShrinksKeeps DEF Shrinks
<1>8. \A i \in Ids : cache'[i] # Nil /\ MovesFrom(w, cache[i], i) => MovesFrom(w, cache[i], i)'
  BY <1>1, <1>5, <1>q DEF MovesFrom
<1>9. \A i \in Ids : ~Removes(w, i)
  BY <1>1 DEF Removes
<1>10. NewKept(w)
  BY <1>1, <1>5 DEF NewKept, Discovering
<1> QED
  BY <1>1, <1>4, <1>5, <1>7, <1>8, <1>9, <1>10, KeptKeeps

LEMMA MoveDeleteKeeps ==
    ASSUME CallsInv, CacheRest, NEW w \in Workers, MoveDelete(w)
    PROVE  Keeps(w)
<1> DEFINE c == call[w]
<1>1. Fields(c) /\ c.at = "moveDelete" /\ c.then = "idle" /\ call \in [Workers -> Calls] /\ SharedTypes
  BY CallKnown DEF MoveDelete, Fields
<1>2. Shrinks /\ \A i \in Ids : i = c.id => cache'[i] = Nil
  BY <1>1, DropShrinks DEF MoveDelete
<1>3. SharedTypes' /\ ObjectsKept /\ CacheKept
  BY <1>2, ShrinksKeeps DEF Shrinks
<1>4. Moved(w) /\ call'[w].new = Nil /\ call'[w].dev = Nil
  BY <1>1, ArriveIdle, IdleIsCall DEF MoveDelete
<1>5. NewKept(w)
  <2>1. c.new = Nil \/ c.new \in stored \/ ~open[c.new]
    BY <1>1, MayLetGo DEF CacheRest
  <2>2. c.new = Nil \/ c.new \in Objs
    BY CallKnown DEF OrNil
  <2> QED
    BY <1>3, <1>4, <2>1, <2>2 DEF NewKept, ObjectsKept
<1>6. \A i \in Ids : cache'[i] # Nil => ~MovesFrom(w, cache[i], i)
  BY <1>2 DEF MovesFrom
<1>7. \A i \in Ids : ~Removes(w, i)
  BY <1>1 DEF Removes
<1> QED
  BY <1>3, <1>4, <1>5, <1>6, <1>7, KeptKeeps

\* Store, of a device whose ID the cache has a device under.
LEMMA StoreLiveKeeps ==
    ASSUME CallsInv, CacheRest, NEW w \in Workers, Store(w), Live(idOf[call[w].new])
    PROVE  Keeps(w)
<1> DEFINE c == call[w]
           i == idOf[c.new]
           d == cache[i]
           ip == foundByIP[d] \/ foundByIP[c.new]
           s == <<exp[i], foundByIP'[d]>>
           r == [c EXCEPT !.dev = d, !.key = i, !.saw = s]
           l == IF exp[i] # "never" THEN "touch" ELSE c.then
<1>1. /\ c \in Calls /\ Fields(c) /\ c.at = "store" /\ c.then \in AfterStore /\ c.new # Nil /\ c.new \in Objs
      /\ c.then \in Labels /\ call \in [Workers -> Calls] /\ SharedTypes /\ c.perm \in BOOLEAN /\ ObjectsInv
  BY CallKnown DEF Store, Fields, NeedsNew, OrNil, CacheRest
<1>2. i \in Ids /\ d \in Objs /\ d \in stored /\ d # Nil
  BY <1>1, NilAssumption DEF Live, SharedTypes, OrNil, ObjectsInv
<1>3. /\ idOf' = [idOf EXCEPT ![d] = i]
      /\ foundByIP' = [foundByIP EXCEPT ![d] = ip]
      /\ raced' = IF MovedLate(c) THEN raced \union {d} ELSE raced
      /\ stale' = IF idOf[d] # i THEN stale \union {d} ELSE stale
      /\ Step(w, r, l)
      /\ UNCHANGED <<cache, exp, stored, closed, open>>
  BY DEF Store
<1>4. /\ SharedTypes' /\ raced \subseteq raced' /\ stale \subseteq stale'
      /\ idOf'[d] = i /\ (foundByIP'[d] <=> ip)
      /\ \A o \in Objs : o # d => idOf'[o] = idOf[o] /\ foundByIP'[o] = foundByIP[o]
  <2>1. ip \in BOOLEAN
    BY <1>1, <1>2 DEF SharedTypes
  <2> HIDE DEF ip
  <2> QED
    BY <1>1, <1>2, <1>3, <2>1 DEF SharedTypes
<1>5. s \in Seen /\ s[1] = exp[i]
  BY <1>1, <1>2, <1>4 DEF Seen, SharedTypes
<1> HIDE DEF s
<1>6. /\ r \in Calls /\ r.new = c.new /\ r.dev = d /\ r.id = c.id /\ r.key = i /\ r.saw = s
      /\ r.then = c.then /\ r.perm = c.perm /\ r.at = c.at
  BY <1>1, <1>2, <1>5 DEF Calls, Seen, OrNil
<1>7. (l = "touch" /\ exp[i] # "never") \/ (l = c.then /\ exp[i] = "never")
  OBVIOUS
<1>l. l \in Labels
  BY <1>1 DEF Labels
<1> HIDE DEF r, l
<1>8. \/ l = "idle" /\ Moved(w) /\ call'[w] = Idle
      \/ l # "idle" /\ Moved(w) /\ Going(w, r, l)
  <2>1. CASE l = "idle"
    BY <1>1, <1>3, <2>1, ArriveIdle
  <2>2. CASE l # "idle"
    <3>1. Ready(r, l)
      BY <1>1, <1>2, <1>5, <1>6, <1>7, <2>2, NilAssumption
      DEF Ready, Fields, AfterStore, AfterTouch, NeedsId, NeedsDev, NeedsNew, NeedsKey, Dereferences
    <3> QED
      BY <1>1, <1>3, <1>6, <1>l, <2>2, <3>1, Arrive, StepFields
  <2> QED
    BY <2>1, <2>2
<1>9. /\ Moved(w) /\ call'[w].dev \in {Nil, d} /\ ~Discovering(call'[w])
      /\ call'[w].new = c.new \/ (call'[w].new = Nil /\ c.then # "closeNew")
  BY <1>1, <1>6, <1>7, <1>8, IdleIsCall DEF Going, Discovering, AfterStore
<1>c. \A v \in Workers : v # w => call'[v] = call[v]
  BY <1>9 DEF Moved, OthersWait
<1>n. c.then = "closeNew" => "closeNew" \in {call'[w].at, call'[w].then}
  BY <1>6, <1>7, <1>8 DEF Going
<1>10. ObjectsInv'
  <2>1. \A j \in Ids : cache'[j] # Nil => cache'[j] \in stored'
    BY <1>1, <1>3 DEF ObjectsInv
  <2>2. \A v \in Workers : call'[v].dev # Nil => call'[v].dev \in stored'
    BY <1>1, <1>2, <1>3, <1>9, <1>c DEF ObjectsInv
  <2>3. ASSUME NEW v \in Workers, call'[v].new # Nil
        PROVE  /\ call'[v].new \in stored' \/ ~open'[call'[v].new] \/ "closeNew" \in {call'[v].at, call'[v].then}
               /\ Discovering(call'[v]) => call'[v].new \notin stored' /\ ~foundByIP'[call'[v].new]
               /\ \A u \in Workers : u # v /\ call'[u].new = call'[v].new => call'[v].new \in stored'
    <3>0. call'[v].new = call[v].new /\ call[v].new \in Objs
      BY <1>1, <1>9, <1>c, <2>3, CallKnown DEF OrNil
    <3>1. \A u \in Workers : call'[u].new = call'[v].new => call[u].new = call[v].new
      BY <1>9, <1>c, <2>3, <3>0
    <3>2. CASE v = w
      BY <1>1, <1>3, <1>9, <1>n, <2>3, <3>0, <3>1, <3>2 DEF ObjectsInv
    <3>3. CASE v # w
      <4>1. call'[v] = call[v]
        BY <1>c, <3>3
      <4>2. Discovering(call[v]) => call[v].new # d /\ call[v].new \notin stored /\ ~foundByIP[call[v].new]
        BY <1>1, <1>2, <2>3, <4>1 DEF ObjectsInv
      <4> QED
        BY <1>1, <1>3, <1>4, <2>3, <3>0, <3>1, <4>1, <4>2 DEF ObjectsInv
    <3> QED
      BY <3>2, <3>3
  <2>4. LoserIsClosed'
    <3> SUFFICES ASSUME NEW o \in Objs, open[o], o \notin stored PROVE \E v \in Workers : call'[v].new = o
      BY <1>3 DEF LoserIsClosed
    <3>1. PICK v \in Workers : call[v].new = o
      BY <1>1 DEF ObjectsInv, LoserIsClosed
    <3>2. CASE v # w
      BY <1>c, <3>1, <3>2
    <3>3. CASE v = w
      BY <1>1, <1>9, <3>1, <3>3, MayLetGo
    <3> QED
      BY <3>2, <3>3
  <2> QED
    BY <2>1, <2>2, <2>3, <2>4 DEF ObjectsInv
<1>11. KeysInv'
  <2> SUFFICES ASSUME NEW j \in Ids, cache[j] # Nil
               PROVE  \/ idOf'[cache[j]] = j \/ cache[j] \in stale'
                      \/ \E v \in Workers : MovesFrom(v, cache[j], j)'
    BY <1>3 DEF KeysInv, MovesFrom
  <2>1. cache[j] \in Objs
    BY <1>1 DEF SharedTypes, OrNil
  <2>2. ASSUME NEW v \in Workers, MovesFrom(v, cache[j], j)
        PROVE  MovesFrom(v, cache[j], j)'
    <3>1. CASE v # w
      BY <1>3, <1>c, <2>2, <3>1 DEF MovesFrom
    <3>2. CASE v = w
      <4>1. c.then = "moveDelete" /\ c.dev = c.new /\ cache[j] = c.new /\ c.id = j
        BY <1>1, <2>2, <3>2 DEF MovesFrom, Fields
      <4>2. /\ call'[w].id = c.id /\ call'[w].new = c.new
            /\ call'[w].at = "moveDelete" \/ call'[w].then = "moveDelete"
        BY <1>6, <1>7, <1>8, <4>1 DEF Going
      <4> QED
        BY <1>3, <3>2, <4>1, <4>2 DEF MovesFrom
    <3> QED
      BY <3>1, <3>2
  <2>3. idOf'[cache[j]] = idOf[cache[j]] \/ cache[j] \in stale'
    BY <1>3, <1>4, <2>1
  <2> QED
    BY <1>4, <2>2, <2>3 DEF CacheRest, KeysInv
<1>12. FoundByIPIsPermanent'
  <2> SUFFICES ASSUME NEW j \in Ids, cache[j] # Nil, foundByIP'[cache[j]], idOf'[cache[j]] = j, exp[j] # "never"
               PROVE  cache[j] \in raced' \union stale' \/ \E v \in Workers : Removes(v, j)'
    BY <1>3 DEF FoundByIPIsPermanent, Removes
  <2>1. cache[j] \in Objs
    BY <1>1 DEF SharedTypes, OrNil
  <2>2. \A v \in Workers : Removes(v, j) => Removes(v, j)'
    BY <1>1, <1>3, <1>c DEF Removes
  <2>3. foundByIP[cache[j]] /\ idOf[cache[j]] = j => cache[j] \in raced \union stale \/ \E v \in Workers : Removes(v, j)
    BY DEF CacheRest, FoundByIPIsPermanent, Removes
  <2>4. CASE cache[j] # d
    BY <1>4, <2>1, <2>2, <2>3, <2>4
  <2>5. CASE cache[j] = d
    <3>1. j = i /\ (idOf[d] = i \/ d \in stale')
      BY <1>3, <1>4, <2>5
    <3>2. CASE c.perm
      <4>1. l = "touch" /\ Going(w, r, l)
        BY <1>7, <1>8, <3>1
      <4>2. Removes(w, j)'
        BY <1>3, <1>6, <2>5, <3>1, <3>2, <4>1 DEF Removes, Going
      <4> QED
        BY <4>2
    <3>3. CASE ~c.perm /\ foundByIP[c.new]
      <4>1. c.then \in {"closeNew", "handleLinks", "moveDelete", "closeRenamed"}
        BY <1>1, <3>3 DEF Fields, AfterStore
      <4>2. c.then \in {"moveDelete", "closeRenamed"}
        BY <1>1, <3>3, <4>1 DEF ObjectsInv, Discovering
      <4> QED
        BY <1>3, <2>5, <3>3, <4>2 DEF MovedLate
    <3>4. CASE ~foundByIP[c.new]
      BY <1>4, <2>2, <2>3, <2>5, <3>1, <3>4
    <3> QED
      BY <3>2, <3>3, <3>4
  <2> QED
    BY <2>4, <2>5
<1> QED
  BY <1>4, <1>9, <1>10, <1>11, <1>12 DEF Keeps, CacheRest

\* Store, of a device whose ID the cache has no device under, or an expired one.
LEMMA StoreNewKeeps ==
    ASSUME CallsInv, CacheRest, NEW w \in Workers, Store(w), ~Live(idOf[call[w].new])
    PROVE  Keeps(w)
<1> DEFINE c == call[w]
           i == idOf[c.new]
           r == [c EXCEPT !.dev = c.new]
           l == IF c.then = "closeNew" THEN "got" ELSE IF c.then = "closeRenamed" THEN "idle" ELSE c.then
<1>1. /\ c \in Calls /\ Fields(c) /\ c.at = "store" /\ c.then \in AfterStore /\ c.new # Nil /\ c.new \in Objs
      /\ c.then \in Labels /\ call \in [Workers -> Calls] /\ SharedTypes /\ c.perm \in BOOLEAN /\ ObjectsInv
  BY CallKnown DEF Store, Fields, NeedsNew, OrNil, CacheRest
<1>2. i \in Ids
  BY <1>1 DEF SharedTypes
<1>3. /\ cache' = [cache EXCEPT ![i] = c.new]
      /\ exp' = [exp EXCEPT ![i] = IF c.perm THEN "never" ELSE "fresh"]
      /\ stored' = stored \union {c.new}
      /\ Step(w, r, l)
      /\ raced' = IF MovedLate(c) THEN raced \union {c.new} ELSE raced
      /\ UNCHANGED <<idOf, foundByIP, stale, closed, open>>
  BY DEF Store, Returns
<1>4. /\ SharedTypes' /\ raced \subseteq raced' /\ cache'[i] = c.new /\ (c.perm => exp'[i] = "never")
      /\ \A j \in Ids : j # i => cache'[j] = cache[j] /\ exp'[j] = exp[j]
  BY <1>1, <1>2, <1>3 DEF SharedTypes, OrNil
<1>6. /\ r \in Calls /\ r.new = c.new /\ r.dev = c.new /\ r.id = c.id /\ r.then = c.then
  BY <1>1 DEF Calls
<1>7. l \in Labels /\ l \in {"got", "ipDrop", "handleLinks", "idle", "moveDelete"}
      /\ (c.then = "moveDelete" => l = "moveDelete") /\ (l = "got" => c.then = "closeNew") /\ (l \notin {"got", "idle"} => l = c.then)
  BY <1>1 DEF Labels, AfterStore
<1> HIDE DEF r, l
<1>8. \/ l = "idle" /\ Moved(w) /\ call'[w] = Idle
      \/ l # "idle" /\ Moved(w) /\ Going(w, r, l)
  <2>1. CASE l = "idle"
    BY <1>1, <1>3, <2>1, ArriveIdle
  <2>2. CASE l # "idle"
    <3>1. Ready(r, l)
      BY <1>1, <1>6, <1>7, <2>2
      DEF Ready, Fields, AfterStore, NeedsId, NeedsDev, NeedsNew, NeedsKey, Dereferences
    <3> QED
      BY <1>1, <1>3, <1>6, <1>7, <2>2, <3>1, Arrive, StepFields
  <2> QED
    BY <2>1, <2>2
<1>9. Moved(w) /\ call'[w].dev \in {Nil, c.new} /\ ~Discovering(call'[w]) /\ call'[w].new \in {Nil, c.new}
  BY <1>6, <1>7, <1>8, IdleIsCall DEF Going, Discovering
<1>c. \A v \in Workers : v # w => call'[v] = call[v]
  BY <1>9 DEF Moved, OthersWait
<1>10. ObjectsInv'
  <2>1. \A j \in Ids : cache'[j] # Nil => cache'[j] \in stored'
    BY <1>1, <1>3, <1>4 DEF ObjectsInv
  <2>2. \A v \in Workers : call'[v].dev # Nil => call'[v].dev \in stored'
    BY <1>1, <1>3, <1>9, <1>c DEF ObjectsInv
  <2>3. ASSUME NEW v \in Workers, call'[v].new # Nil
        PROVE  /\ call'[v].new \in stored' \/ ~open'[call'[v].new] \/ "closeNew" \in {call'[v].at, call'[v].then}
               /\ Discovering(call'[v]) => call'[v].new \notin stored' /\ ~foundByIP'[call'[v].new]
               /\ \A u \in Workers : u # v /\ call'[u].new = call'[v].new => call'[v].new \in stored'
    <3>1. CASE v = w
      BY <1>3, <1>9, <2>3, <3>1
    <3>2. CASE v # w
      <4>1. call'[v] = call[v]
        BY <1>c, <3>2
      <4>2. Discovering(call[v]) => call[v].new # c.new /\ call[v].new \notin stored /\ ~foundByIP[call[v].new]
        BY <1>1, <2>3, <3>2, <4>1 DEF ObjectsInv
      <4>3. \A u \in Workers : u # v /\ call'[u].new = call'[v].new => call'[v].new \in stored'
        <5>1. ASSUME NEW u \in Workers, u # v, call'[u].new = call'[v].new
              PROVE  call'[v].new \in stored'
          <6>1. CASE u = w
            BY <1>3, <1>9, <2>3, <5>1, <6>1
          <6>2. CASE u # w
            BY <1>1, <1>3, <1>c, <2>3, <4>1, <5>1, <6>2 DEF ObjectsInv
          <6> QED
            BY <6>1, <6>2
        <5> QED
          BY <5>1
      <4> QED
        BY <1>1, <1>3, <2>3, <4>1, <4>2, <4>3 DEF ObjectsInv
    <3> QED
      BY <3>1, <3>2
  <2>4. LoserIsClosed'
    BY <1>1, <1>3, <1>c DEF ObjectsInv, LoserIsClosed
  <2> QED
    BY <2>1, <2>2, <2>3, <2>4 DEF ObjectsInv
<1>11. KeysInv'
  <2> SUFFICES ASSUME NEW j \in Ids, cache'[j] # Nil
               PROVE  \/ idOf[cache'[j]] = j \/ cache'[j] \in stale
                      \/ \E v \in Workers : MovesFrom(v, cache[j], j)'
    BY <1>3 DEF KeysInv, MovesFrom
  <2>1. CASE j = i
    BY <1>4, <2>1
  <2>2. CASE j # i
    <3>1. cache'[j] = cache[j]
      BY <1>4, <2>2
    <3>2. ASSUME NEW v \in Workers, MovesFrom(v, cache[j], j)
          PROVE  MovesFrom(v, cache[j], j)'
      <4>1. CASE v # w
        BY <1>c, <3>1, <3>2, <4>1 DEF MovesFrom
      <4>2. CASE v = w
        <5>1. c.then = "moveDelete" /\ c.dev = c.new /\ cache[j] = c.new /\ c.id = j
          BY <1>1, <3>2, <4>2 DEF MovesFrom, Fields
        <5>2. call'[w].id = c.id /\ call'[w].new = c.new /\ call'[w].at = "moveDelete"
          BY <1>6, <1>7, <1>8, <5>1 DEF Going
        <5> QED
          BY <3>1, <4>2, <5>1, <5>2 DEF MovesFrom
      <4> QED
        BY <4>1, <4>2
    <3> QED
      BY <3>1, <3>2 DEF CacheRest, KeysInv
  <2> QED
    BY <2>1, <2>2
<1>12. FoundByIPIsPermanent'
  <2> SUFFICES ASSUME NEW j \in Ids, cache'[j] # Nil, foundByIP[cache'[j]], idOf[cache'[j]] = j, exp'[j] # "never"
               PROVE  cache'[j] \in raced' \union stale \/ \E v \in Workers : Removes(v, j)'
    BY <1>3 DEF FoundByIPIsPermanent, Removes
  <2>1. CASE j = i
    <3>1. ~c.perm /\ foundByIP[c.new]
      BY <1>4, <2>1
    <3>2. c.then \in {"closeNew", "handleLinks", "moveDelete", "closeRenamed"}
      BY <1>1, <3>1 DEF Fields, AfterStore
    <3>3. c.then \in {"moveDelete", "closeRenamed"}
      BY <1>1, <3>1, <3>2 DEF ObjectsInv, Discovering
    <3> QED
      BY <1>3, <1>4, <2>1, <3>1, <3>3 DEF MovedLate
  <2>2. CASE j # i
    <3>1. cache'[j] = cache[j] /\ exp'[j] = exp[j]
      BY <1>4, <2>2
    <3>2. \A v \in Workers : Removes(v, j) => Removes(v, j)'
      BY <1>1, <1>c, <3>1 DEF Removes
    <3>3. cache[j] \in raced \union stale \/ \E v \in Workers : Removes(v, j)
      BY <3>1 DEF CacheRest, FoundByIPIsPermanent, Removes
    <3> QED
      BY <1>4, <3>1, <3>2, <3>3
  <2> QED
    BY <2>1, <2>2
<1> QED
  BY <1>4, <1>9, <1>10, <1>11, <1>12 DEF Keeps, CacheRest

------------------------------------------------------------------------------
(* The device cache: every step                                             *)

LEMMA StoreKeeps ==
    ASSUME CallsInv, CacheRest, NEW w \in Workers, Store(w)
    PROVE  Keeps(w)
  BY StoreLiveKeeps, StoreNewKeeps

LEMMA CallingKeeps ==
    ASSUME CallsInv, CacheRest, NEW w \in Workers, Calling(w)
    PROVE  Keeps(w)
<1>1. CASE GetDevicesByIP(w)
  BY <1>1, GetDevicesByIPTame, TameKeeps DEF Keeps, CacheRest
<1>2. CASE \E i \in Ids : GetDevice(w, i)
  BY <1>2, GetDeviceTame, TameKeeps DEF Keeps, CacheRest
<1>3. CASE \E i \in Ids : PingByIP(w, i)
  BY <1>3, PingByIPTame, TameKeeps DEF Keeps, CacheRest
<1>4. CASE \E i \in Ids : TryDefault(w, i)
  BY <1>4, TryDefaultTame, TameKeeps DEF Keeps, CacheRest
<1>5. CASE \E i \in Ids : HandleDevice(w, i)
  BY <1>5, HandleDeviceKeeps
<1> QED
  BY <1>1, <1>2, <1>3, <1>4, <1>5 DEF Calling

LEMMA WorkingKeeps ==
    ASSUME CallsInv, CacheRest, NEW w \in Workers, Working(w)
    PROVE  Keeps(w)
<1>1. CASE Tame(w)
  BY <1>1, TameKeeps DEF Keeps
<1>o. ObjectsInv
  BY DEF CacheRest
<1>2. \/ Tame(w)
      \/ Touch(w) \/ Multicast(w) \/ MulticastLinks(w) \/ Store(w) \/ IPFind(w)
      \/ Rename(w) \/ OwnDevice(w) \/ Owned(w) \/ MoveExp(w) \/ MoveDelete(w)
  <2>5. CASE CheckByLinks(w) \/ Rekey(w) \/ CloseRenamed(w)
    BY <1>o, <2>5, CheckByLinksTame, RekeyTame, CloseRenamedTame
  <2>1. CASE Load(w) \/ Links(w) \/ UnlessIP(w) \/ DeleteDeviceNotFoundByIP(w) \/ CloseNew(w)
    BY <1>o, <2>1, LoadTame, LinksTame, UnlessIPTame, DeleteTame, CloseNewTame
  <2>2. CASE IPOld(w) \/ IPStore(w) \/ IPDrop(w) \/ IPLinks(w) \/ HandleLinks(w) \/ HandleDelete(w)
    BY <1>o, <2>2, IPOldTame, IPStoreTame, IPDropTame, IPLinksTame, HandleLinksTame, HandleDeleteTame
  <2>3. CASE \/ GetResource(w) \/ UpdateResource(w) \/ CreateResource(w) \/ DeleteResource(w)
             \/ GetDeviceDetailsByMulticast(w) \/ OnboardDevice(w) \/ OffboardDevice(w)
             \/ DisownDevice(w) \/ FactoryReset(w) \/ Reboot(w)
    <3>1. Request(w) \/ ResetRequest(w)
      BY <2>3 DEF GetResource, UpdateResource, CreateResource, DeleteResource, GetDeviceDetailsByMulticast,
                  OnboardDevice, OffboardDevice, DisownDevice, FactoryReset, Reboot
    <3> QED
      BY <1>o, <3>1, RequestTame
  <2>4. CASE RemoveTemporaryDeviceFromCache(w) \/ ObserveResource(w)
    BY <1>o, <2>4, TemporaryTame, ObserveTame
  <2> QED
    BY <2>1, <2>2, <2>3, <2>4, <2>5 DEF Working
<1> QED
  BY <1>1, <1>2, RenameKeeps, TouchKeeps, MulticastKeeps, MulticastLinksKeeps, StoreKeeps, IPFindKeeps,
     OwnDeviceKeeps, OwnedKeeps, MoveExpKeeps, MoveDeleteKeeps

\* The steps of nobody's call: time, the eviction, DeleteDevices and Close.
LEMMA EvictionKeeps ==
    ASSUME CallsInv, CacheRest,
           \/ \E i \in Ids : Expire(i) \/ CheckExpirations(i)
           \/ \E I \in SUBSET Ids : DeleteDevices(I)
           \/ CloseCache
    PROVE  UNCHANGED <<call, changes>> /\ SharedTypes' /\ CacheRest'
<1>s. SharedTypes
  BY DEF CallsInv, CacheTypes, SharedTypes
<1>1. CASE \E i \in Ids : Expire(i)
  <2>1. PICK i \in Ids : Expire(i)
    BY <1>1
  <2>2. UNCHANGED call /\ SharedTypes' /\ ObjectsKept /\ CacheKept /\ UNCHANGED changes
    BY <1>s, <2>1 DEF Expire, SharedTypes, ObjectsKept, CacheKept, devVars, ghosts
  <2> QED
    BY <2>2, QuietCallsKeep
<1>2. CASE Shrinks /\ UNCHANGED <<call, changes>>
  BY <1>2, ShrinksKeeps, QuietCallsKeep DEF Shrinks
<1>3. CASE \E i \in Ids : CheckExpirations(i)
  BY <1>s, <1>2, <1>3, DropShrinks DEF CheckExpirations, ghosts
<1>4. CASE \E I \in SUBSET Ids : DeleteDevices(I)
  BY <1>s, <1>2, <1>4, DropShrinks DEF DeleteDevices, ghosts
<1>5. CASE CloseCache
  <2>1. /\ cache' \in [Ids -> OrNil(Objs)] /\ exp' \in [Ids -> {"never", "fresh", "expired"}]
        /\ \A i \in Ids : cache'[i] = Nil
    BY <1>5 DEF CloseCache, OrNil
  <2>2. open' \in [Objs -> BOOLEAN] /\ \A o \in Objs : open'[o] => open[o]
    BY <1>s, <1>5 DEF CloseCache, SharedTypes
  <2>3. Shrinks /\ UNCHANGED <<call, changes>>
    BY <1>s, <1>5, <2>1, <2>2 DEF CloseCache, Shrinks, SharedTypes, ghosts
  <2> QED
    BY <1>2, <2>3
<1> QED
  BY <1>1, <1>3, <1>4, <1>5

LEMMA CallingCounts ==
    ASSUME CallsInv, NEW w \in Workers, Calling(w)
    PROVE  calls' \in 0..MaxCalls /\ changes' \in 0..MaxChanges
<1>1. calls \in 0..MaxCalls /\ changes \in 0..MaxChanges /\ MaxCalls \in Nat
  BY BoundsAssumption DEF CallsInv, CacheTypes
<1>2. calls < MaxCalls /\ calls' = calls + 1 /\ changes' = changes
  BY DEF Calling, GetDevicesByIP, GetDevice, PingByIP, HandleDevice, TryDefault, Begin, Finds, ghosts
<1> QED
  BY <1>1, <1>2

LEMMA WorkingCounts ==
    ASSUME CallsInv, NEW w \in Workers, Working(w)
    PROVE  changes' \in 0..MaxChanges
<1>1. changes \in 0..MaxChanges /\ MaxChanges \in Nat
  BY BoundsAssumption DEF CallsInv, CacheTypes
<1>2. CASE OwnDevice(w)
  <2>1. changes' = changes \/ (changes < MaxChanges /\ changes' = changes + 1)
    BY <1>2 DEF OwnDevice
  <2> QED
    BY <1>1, <2>1
<1>3. CASE ~OwnDevice(w)
  <2>1. changes' = changes
    BY <1>3 DEF Working, Load, Touch, Links, CheckByLinks, Rekey, Rename, CloseRenamed, UnlessIP, DeleteDeviceNotFoundByIP, Multicast, MulticastLinks, CloseNew,
                Store, IPFind, IPOld, IPStore, IPDrop, IPLinks, HandleLinks, HandleDelete, GetResource,
                UpdateResource, CreateResource, DeleteResource, GetDeviceDetailsByMulticast, OnboardDevice,
                OffboardDevice, DisownDevice, FactoryReset, Reboot, RemoveTemporaryDeviceFromCache,
                ObserveResource, Owned, MoveExp, MoveDelete, Request, ResetRequest, Finds, ghosts
  <2> QED
    BY <1>1, <2>1
<1> QED
  BY <1>2, <1>3

LEMMA CacheStep ==
    ASSUME CallsInv, CacheRest, [CacheNext]_cacheVars
    PROVE  CallsInv' /\ CacheRest'
<1>c. calls \in 0..MaxCalls /\ changes \in 0..MaxChanges
  BY DEF CallsInv, CacheTypes
<1>1. ASSUME NEW w \in Workers, Calling(w)
      PROVE  CallsInv' /\ CacheRest'
  BY <1>1, CallingKeeps, CallingCounts, MovedTypes DEF Keeps
<1>2. ASSUME NEW w \in Workers, Working(w), UNCHANGED calls
      PROVE  CallsInv' /\ CacheRest'
  BY <1>c, <1>2, WorkingKeeps, WorkingCounts, MovedTypes DEF Keeps
<1>3. ASSUME \/ \E i \in Ids : Expire(i) \/ CheckExpirations(i)
             \/ \E I \in SUBSET Ids : DeleteDevices(I)
             \/ CloseCache,
             UNCHANGED calls
      PROVE  CallsInv' /\ CacheRest'
  <2>1. UNCHANGED <<call, changes>> /\ SharedTypes' /\ CacheRest'
    BY <1>3, EvictionKeeps
  <2>2. CallsInv'
    BY <1>3, <2>1 DEF CallsInv, CacheTypes, SharedTypes
  <2> QED
    BY <2>1, <2>2
<1>4. CASE UNCHANGED cacheVars
  <2>1. CallsInv'
    BY <1>4 DEF CallsInv, CacheTypes, cacheVars, devVars, ghosts
  <2>2. ObjectsKept /\ CacheKept /\ UNCHANGED call
    BY <1>4 DEF ObjectsKept, CacheKept, cacheVars, devVars, ghosts
  <2> QED
    BY <2>1, <2>2, QuietCallsKeep
<1> QED
  BY <1>1, <1>2, <1>3, <1>4 DEF CacheNext

LEMMA CacheStarts == CacheInit => CallsInv /\ CacheRest
<1> SUFFICES ASSUME CacheInit PROVE CallsInv /\ CacheRest
  OBVIOUS
<1>1. /\ SharedTypes /\ call \in [Workers -> Calls] /\ \A w \in Workers : call[w] = Idle
      /\ \A i \in Ids : cache[i] = Nil
      /\ \A o \in Objs : ~open[o]
  BY IdleIsCall, IdsAssumption DEF CacheInit, SharedTypes, OrNil
<1>2. Fields(Idle)
  BY DEF Fields, Idle, NeedsId, NeedsDev, NeedsNew, NeedsKey, Dereferences
<1>3. CallsInv
  <2>1. calls \in 0..MaxCalls /\ changes \in 0..MaxChanges
    BY BoundsAssumption DEF CacheInit
  <2>2. \A w \in Workers : call[w].at \notin Dereferences
    BY <1>1, IdleIsCall DEF Dereferences
  <2>3. CacheTypes
    BY <1>1, <2>1, <2>2, TypesAre
  <2> QED
    BY <1>1, <1>2, <2>3 DEF CallsInv
<1>4. CacheRest
  BY <1>1, IdleIsCall DEF CacheRest, ObjectsInv, KeysInv, FoundByIPIsPermanent, LoserIsClosed
<1> QED
  BY <1>3, <1>4

\* Whatever calls, evictions and moves interleave, no call goes on with a nil
\* device, every device is in the cache under its own ID, unless Own is changing
\* it or Own or GetDevice has left it behind, and a device that was found and
\* never got into the cache is closed by the call that has found it.
THEOREM CacheInvHolds == CacheSpec => []CacheInv
<1>1. CacheInit => CallsInv /\ CacheRest
  BY CacheStarts
<1>2. CallsInv /\ CacheRest /\ [CacheNext]_cacheVars => CallsInv' /\ CacheRest'
  BY CacheStep
<1>3. CallsInv /\ CacheRest => CacheInv
  <2> SUFFICES ASSUME CallsInv, CacheRest PROVE CacheInv
    OBVIOUS
  <2>1. \A i \in Ids, w \in Workers : MovesFrom(w, cache[i], i) => Moving(cache[i])
    BY DEF MovesFrom, Moving
  <2>2. KeyIsDeviceID
    BY <2>1 DEF CacheRest, KeysInv, KeyIsDeviceID
  <2> QED
    BY <2>2 DEF CacheInv, CallsInv, CacheRest, ObjectsInv
<1> QED
  BY <1>1, <1>2, <1>3, PTL DEF CacheSpec

\* A device found by IP has no expiration, whatever prolongs, discovers,
\* observes or moves it, except for a decision of a call that was too old when
\* its effect was written, and for the GetDevice that stores a device again under
\* the ID that an Own has just changed.
THEOREM FoundByIPIsPermanentHolds == CacheSpec => []FoundByIPIsPermanent
<1>1. CacheInit => CallsInv /\ CacheRest
  BY CacheStarts
<1>2. CallsInv /\ CacheRest /\ [CacheNext]_cacheVars => CallsInv' /\ CacheRest'
  BY CacheStep
<1>3. CacheRest => FoundByIPIsPermanent
  BY DEF CacheRest
<1> QED
  BY <1>1, <1>2, <1>3, PTL DEF CacheSpec

------------------------------------------------------------------------------
(* The loops over slices.  They are recursive functions of the position;     *)
(* induction over the position is stated with a set.                         *)

\* A set of naturals that is not empty has a least element.
LEMMA LeastNatural ==
    ASSUME NEW T, T \subseteq Nat, T # {}
    PROVE  \E n \in T : \A m \in T : n <= m
<1>0. OpToRel(<, Nat) = {p \in Nat \X Nat : p[1] < p[2]}
  BY DEF OpToRel
<1>1. PICK x \in T : \A y \in T : ~ (<<y, x>> \in OpToRel(<, Nat))
  BY WFMin, NatLessThanWellFounded
<1>2. \A y \in T : ~(y < x)
  <2> TAKE y \in T
  <2>0. y \in Nat /\ x \in Nat
    OBVIOUS
  <2>1. y < x => <<y, x>> \in {p \in Nat \X Nat : p[1] < p[2]}
    BY <2>0
  <2>2. ~ (<<y, x>> \in OpToRel(<, Nat))
    BY <1>1
  <2> QED
    BY <1>0, <2>1, <2>2
<1> QED
  BY <1>2

\* Induction over an initial segment of the naturals, with a set for the
\* induction hypothesis.
LEMMA SetInduction ==
    ASSUME NEW n \in Nat, NEW T, 0 \in T, \A i \in 0 .. n : i \in T /\ i < n => i + 1 \in T
    PROVE  \A i \in 0 .. n : i \in T
<1> DEFINE U == {i \in 0 .. n : i \notin T}
<1>1. SUFFICES ASSUME U # {} PROVE FALSE
  BY <1>1
<1>u. U \subseteq Nat
  OBVIOUS
<1>2. PICK i \in U : \A j \in U : i <= j
  <2> HIDE DEF U
  <2> QED
    BY <1>1, <1>u, LeastNatural
<1>3. i # 0 /\ i \in Nat /\ i <= n
  OBVIOUS
<1>4. i - 1 \in 0 .. n /\ i - 1 \in T /\ i - 1 < n
  BY <1>2, <1>3
<1>5. (i - 1) + 1 \in T
  BY <1>4
<1> QED
  BY <1>5, <1>3

\* What a filter has kept after each of the first n elements.
KeptSoFar(k, s, I, n) == [i \in 0 .. n |->
    IF i = 0 THEN <<>>
    ELSE IF i \in I THEN Append(k[i - 1], s[i])
    ELSE k[i - 1]]

\* A filter is well defined, whatever the length of the slice.
LEMMA FilterExists ==
    ASSUME NEW n \in Nat, NEW s, NEW I
    PROVE  \E k : k = KeptSoFar(k, s, I, n)
<1> DEFINE T == {i \in 0 .. n : \E k : k = KeptSoFar(k, s, I, i)}
<1>1. 0 \in T
  <2> DEFINE k == [i \in 0 .. 0 |-> <<>>]
  <2>1. k = KeptSoFar(k, s, I, 0)
    BY DEF KeptSoFar
  <2> QED
    BY <2>1
<1>2. ASSUME NEW i \in 0 .. n, i \in T, i < n PROVE i + 1 \in T
  <2>1. PICK k : k = KeptSoFar(k, s, I, i)
    BY <1>2
  <2> DEFINE g == [j \in 0 .. i + 1 |->
                     IF j = i + 1
                     THEN IF j \in I THEN Append(k[i], s[j]) ELSE k[i]
                     ELSE k[j]]
  <2>0. i \in Nat /\ i + 1 \in 0 .. n
    BY <1>2
  <2>2. ASSUME NEW j \in 0 .. i + 1 PROVE g[j] = KeptSoFar(g, s, I, i + 1)[j]
    <3>1. CASE j = i + 1
      BY <3>1, <2>0 DEF KeptSoFar
    <3>2. CASE j = 0
      BY <3>2, <2>0, <2>1 DEF KeptSoFar
    <3>3. CASE j # 0 /\ j # i + 1
      <4>1. j \in 0 .. i /\ j - 1 \in 0 .. i + 1 /\ j - 1 # i + 1
        BY <3>3, <2>0
      <4>2. g[j] = k[j] /\ g[j - 1] = k[j - 1]
        BY <4>1, <2>0
      <4>3. k[j] = IF j \in I THEN Append(k[j - 1], s[j]) ELSE k[j - 1]
        BY <2>1, <4>1, <3>3 DEF KeptSoFar
      <4>4. KeptSoFar(g, s, I, i + 1)[j] = IF j \in I THEN Append(g[j - 1], s[j]) ELSE g[j - 1]
        BY <3>3 DEF KeptSoFar
      <4> HIDE DEF g
      <4> QED
        BY <4>2, <4>3, <4>4
    <3> QED
      BY <3>1, <3>2, <3>3
  <2>3. DOMAIN g = 0 .. i + 1 /\ DOMAIN KeptSoFar(g, s, I, i + 1) = 0 .. i + 1
    BY DEF KeptSoFar
  <2>4. KeptSoFar(g, s, I, i + 1) = [j \in 0 .. i + 1 |-> KeptSoFar(g, s, I, i + 1)[j]]
    BY DEF KeptSoFar
  <2>5. g = [j \in 0 .. i + 1 |-> g[j]]
    OBVIOUS
  <2> HIDE DEF g
  <2>6. g = KeptSoFar(g, s, I, i + 1)
    BY <2>2, <2>3, <2>4, <2>5
  <2> QED
    BY <2>6, <2>0
<1> HIDE DEF T
<1>3. n \in T
  BY <1>1, <1>2, SetInduction
<1> QED
  BY <1>3 DEF T

\* Selected is what the filter has kept at the end; kept is extended or left
\* alone by every element.
LEMMA SelectedDef ==
    ASSUME NEW s, NEW I, Len(s) \in Nat
    PROVE  \E k : /\ Selected(s, I) = k[Len(s)]
                  /\ k[0] = <<>>
                  /\ \A i \in 0 .. Len(s) : i < Len(s) =>
                        k[i + 1] = IF i + 1 \in I THEN Append(k[i], s[i + 1]) ELSE k[i]
<1> DEFINE K == CHOOSE k : k = KeptSoFar(k, s, I, Len(s))
<1>1. K = KeptSoFar(K, s, I, Len(s))
  BY FilterExists
<1>2. Selected(s, I) = K[Len(s)]
  BY DEF Selected, KeptSoFar
<1> HIDE DEF K
<1>3. K[0] = <<>>
  BY <1>1 DEF KeptSoFar
<1>4. ASSUME NEW i \in 0 .. Len(s), i < Len(s)
      PROVE  K[i + 1] = IF i + 1 \in I THEN Append(K[i], s[i + 1]) ELSE K[i]
  <2> DEFINE j == i + 1
  <2>1. j \in 0 .. Len(s) /\ j # 0 /\ j - 1 = i
    BY <1>4
  <2>2. K[j] = IF j \in I THEN Append(K[j - 1], s[j]) ELSE K[j - 1]
    <3> HIDE DEF j
    <3> QED
      BY <1>1, <2>1 DEF KeptSoFar
  <2> QED
    BY <2>1, <2>2
<1> QED
  BY <1>2, <1>3, <1>4

\* f enumerates the positions in I up to i, in their order.
Picks(f, m, I, i) ==
   /\ f \in [1 .. m -> I \intersect (1 .. i)]
   /\ \A a, b \in 1 .. m : a < b => f[a] < f[b]
   /\ \A j \in I \intersect (1 .. i) : \E a \in 1 .. m : f[a] = j

\* The next position is picked,
LEMMA PicksNext ==
    ASSUME NEW m \in Nat, NEW i \in Nat, NEW I, i + 1 \in I, NEW f, Picks(f, m, I, i)
    PROVE  Picks([a \in 1 .. m + 1 |-> IF a = m + 1 THEN i + 1 ELSE f[a]], m + 1, I, i + 1)
<1> DEFINE g == [a \in 1 .. m + 1 |-> IF a = m + 1 THEN i + 1 ELSE f[a]]
<1>1. \A a \in 1 .. m + 1 : a # m + 1 => a \in 1 .. m /\ g[a] = f[a] /\ f[a] \in 1 .. i /\ f[a] \in I
  BY DEF Picks
<1>2. g[m + 1] = i + 1 /\ m + 1 \in 1 .. m + 1 /\ DOMAIN g = 1 .. m + 1
  OBVIOUS
<1>3. g \in [1 .. m + 1 -> I \intersect (1 .. i + 1)]
  BY <1>1, <1>2
<1> HIDE DEF g
<1>4. ASSUME NEW a \in 1 .. m + 1, NEW b \in 1 .. m + 1, a < b PROVE g[a] < g[b]
  <2>1. a # m + 1
    BY <1>4
  <2>2. CASE b = m + 1
    BY <2>1, <2>2, <1>1, <1>2
  <2>3. CASE b # m + 1
    BY <2>1, <2>3, <1>4, <1>1 DEF Picks
  <2> QED
    BY <2>2, <2>3
<1>5. ASSUME NEW j \in I \intersect (1 .. i + 1) PROVE \E a \in 1 .. m + 1 : g[a] = j
  <2>1. CASE j = i + 1
    BY <2>1, <1>2
  <2>2. CASE j # i + 1
    <3>0. j \in I \intersect (1 .. i)
      BY <2>2
    <3>1. PICK a \in 1 .. m : f[a] = j
      BY <3>0 DEF Picks
    <3> QED
      BY <3>1, <1>1
  <2> QED
    BY <2>1, <2>2
<1>6. Picks(g, m + 1, I, i + 1)
  BY <1>3, <1>4, <1>5 DEF Picks
<1> QED
  BY <1>6 DEF g

\* or passed over.
LEMMA PicksSkip ==
    ASSUME NEW m \in Nat, NEW i \in Nat, NEW I, i + 1 \notin I, NEW f, Picks(f, m, I, i)
    PROVE  Picks(f, m, I, i + 1)
<1>1. I \intersect (1 .. i + 1) = I \intersect (1 .. i)
  OBVIOUS
<1> QED
  BY <1>1 DEF Picks

\* The filter picks the same positions of s and of t.
Alike(s, t, I) ==
    \E f : /\ Picks(f, Len(Selected(s, I)), I, Len(s))
           /\ \A a \in 1 .. Len(Selected(s, I)) :
                Selected(s, I)[a] = s[f[a]] /\ Selected(t, I)[a] = t[f[a]]

\* A filter keeps what is at the positions in I and nothing else, in its order;
\* two slices of one length are filtered alike.
LEMMA SelectedPicks ==
    ASSUME NEW S, NEW s \in Seq(S), NEW R, NEW t \in Seq(R), Len(s) = Len(t), NEW I
    PROVE  /\ Selected(s, I) \in Seq(S)
           /\ Selected(t, I) \in Seq(R)
           /\ Len(Selected(s, I)) = Len(Selected(t, I))
           /\ Alike(s, t, I)
<1> DEFINE n == Len(s)
<1>n. n \in Nat /\ n = Len(t)
  OBVIOUS
<1>k. PICK k : /\ Selected(s, I) = k[n] /\ k[0] = <<>>
               /\ \A i \in 0 .. n : i < n => k[i + 1] = IF i + 1 \in I THEN Append(k[i], s[i + 1]) ELSE k[i]
  BY SelectedDef
<1>l. PICK l : /\ Selected(t, I) = l[n] /\ l[0] = <<>>
               /\ \A i \in 0 .. n : i < n => l[i + 1] = IF i + 1 \in I THEN Append(l[i], t[i + 1]) ELSE l[i]
  BY SelectedDef
<1> DEFINE Both(i, f) == /\ Picks(f, Len(k[i]), I, i)
                         /\ \A a \in 1 .. Len(k[i]) : k[i][a] = s[f[a]] /\ l[i][a] = t[f[a]]
           Good(i) == /\ k[i] \in Seq(S) /\ l[i] \in Seq(R) /\ Len(k[i]) = Len(l[i])
                      /\ \E f : Both(i, f)
           T == {i \in 0 .. n : Good(i)}
<1>1. 0 \in T
  <2>1. k[0] = <<>> /\ l[0] = <<>>
    BY <1>k, <1>l
  <2>2. Picks([a \in {} |-> 1], 0, I, 0)
    BY DEF Picks
  <2>3. Both(0, [a \in {} |-> 1])
    BY <2>1, <2>2
  <2>4. 0 \in 0 .. n
    BY <1>n
  <2>5. k[0] \in Seq(S) /\ l[0] \in Seq(R) /\ Len(k[0]) = Len(l[0])
    BY <2>1
  <2> HIDE DEF Both
  <2>6. Good(0)
    BY <2>3, <2>5
  <2> QED
    BY <2>4, <2>6
<1>2. ASSUME NEW i \in 0 .. n, i \in T, i < n PROVE i + 1 \in T
  <2>0. i \in Nat /\ i + 1 \in 0 .. n /\ s[i + 1] \in S /\ t[i + 1] \in R
    BY <1>2, <1>n
  <2>1. /\ k[i] \in Seq(S) /\ l[i] \in Seq(R) /\ Len(k[i]) = Len(l[i])
    BY <1>2
  <2>2. PICK f : Both(i, f)
    BY <1>2
  <2>3. /\ k[i + 1] = IF i + 1 \in I THEN Append(k[i], s[i + 1]) ELSE k[i]
        /\ l[i + 1] = IF i + 1 \in I THEN Append(l[i], t[i + 1]) ELSE l[i]
    BY <1>2, <1>k, <1>l
  <2>4. CASE i + 1 \notin I
    <3>1. Picks(f, Len(k[i + 1]), I, i + 1)
      BY <2>0, <2>1, <2>2, <2>3, <2>4, PicksSkip
    <3>2. Both(i + 1, f)
      BY <3>1, <2>2, <2>3, <2>4
    <3> QED
      BY <3>2, <2>0, <2>1, <2>3, <2>4
  <2>5. CASE i + 1 \in I
    <3> DEFINE m == Len(k[i])
               g == [a \in 1 .. m + 1 |-> IF a = m + 1 THEN i + 1 ELSE f[a]]
    <3>1. /\ m \in Nat
          /\ k[i + 1] \in Seq(S) /\ Len(k[i + 1]) = m + 1
          /\ l[i + 1] \in Seq(R) /\ Len(l[i + 1]) = m + 1
          /\ k[i + 1][m + 1] = s[i + 1] /\ l[i + 1][m + 1] = t[i + 1]
          /\ \A a \in 1 .. m : k[i + 1][a] = k[i][a] /\ l[i + 1][a] = l[i][a]
      BY <2>0, <2>1, <2>3, <2>5
    <3>2. Picks(g, m + 1, I, i + 1)
      BY <2>0, <2>2, <2>5, <3>1, PicksNext
    <3>3. \A a \in 1 .. m + 1 : k[i + 1][a] = s[g[a]] /\ l[i + 1][a] = t[g[a]]
      <4> TAKE a \in 1 .. m + 1
      <4>1. CASE a = m + 1
        BY <4>1, <3>1
      <4>2. CASE a # m + 1
        <5>1. a \in 1 .. m /\ g[a] = f[a]
          BY <4>2, <3>1
        <5> HIDE DEF g
        <5> QED
          BY <5>1, <3>1, <2>2
      <4> QED
        BY <4>1, <4>2
    <3> HIDE DEF g, m
    <3>4. Both(i + 1, g)
      BY <3>1, <3>2, <3>3
    <3> QED
      BY <3>1, <3>4, <2>0
  <2> QED
    BY <2>4, <2>5
<1>3. n \in T
  <2>1. \A i \in 0 .. n : i \in T /\ i < n => i + 1 \in T
    BY <1>2
  <2>2. n \in 0 .. n
    BY <1>n
  <2> HIDE DEF T, n
  <2> QED
    BY <1>1, <2>1, <2>2, <1>n, SetInduction
<1> QED
  BY <1>3, <1>k, <1>l DEF Alike

\* A slice of S has a place for e.
LEMMA PlaceExists ==
    ASSUME NEW S, NEW f, \A x \in S : x[f] \in Int, NEW s \in Seq(S), NEW e \in S
    PROVE  LET k == Place(s, e, f)
           IN  /\ k \in 0 .. Len(s)
               /\ \A i \in 1 .. k : s[i][f] <= e[f]
               /\ k < Len(s) => e[f] < s[k + 1][f]
<1> DEFINE n == Len(s)
           U == {k \in 0 .. n : k < n => e[f] < s[k + 1][f]}
<1>0. n \in Nat /\ e[f] \in Int /\ \A i \in 1 .. n : s[i][f] \in Int
  OBVIOUS
<1> HIDE DEF n
<1>1. U \subseteq Nat /\ n \in U
  BY <1>0
<1>2. PICK k \in U : \A m \in U : k <= m
  <2> HIDE DEF U
  <2> QED
    BY <1>1, LeastNatural
<1>3. k \in 0 .. n /\ (k < n => e[f] < s[k + 1][f])
  OBVIOUS
<1>4. ASSUME NEW i \in 1 .. k PROVE s[i][f] <= e[f]
  <2>1. i - 1 \in 0 .. n /\ i - 1 < n /\ i - 1 < k /\ (i - 1) + 1 = i /\ i \in 1 .. n
    BY <1>0, <1>3
  <2>2. i - 1 \notin U
    <3> HIDE DEF U
    <3> QED
      BY <2>1, <1>2, <1>3
  <2>3. ~ (e[f] < s[(i - 1) + 1][f])
    BY <2>1, <2>2
  <2> QED
    BY <2>1, <2>3, <1>0
<1>5. \E j \in 0 .. n : (\A i \in 1 .. j : s[i][f] <= e[f]) /\ (j < n => e[f] < s[j + 1][f])
  BY <1>3, <1>4
<1> QED
  BY <1>5 DEF Place, n

\* t is s, a slice of S, with e inserted behind the first k elements: what is
\* before stays there, what is behind moves by one.
Inserted(t, s, S, e, k) ==
    /\ t \in Seq(S) /\ Len(t) = Len(s) + 1
    /\ \A i \in 1 .. k : t[i] = s[i]
    /\ t[k + 1] = e
    /\ \A i \in k + 1 .. Len(s) : t[i + 1] = s[i]

\* With inserts an element in its place.
LEMMA WithPlaces ==
    ASSUME NEW S, NEW f, \A x \in S : x[f] \in Int, NEW s \in Seq(S), NEW e \in S
    PROVE  Inserted(With(e, f, S)[s], s, S, e, Place(s, e, f))
<1> DEFINE k == Place(s, e, f)
           l == SubSeq(s, 1, k)
           r == SubSeq(s, k + 1, Len(s))
           n == Len(s)
<1>1. k \in 0 .. n
  BY PlaceExists
<1>2. n \in Nat /\ k \in Nat
  BY <1>1
<1> HIDE DEF k
<1>3. l \in Seq(S) /\ Len(l) = k /\ \A i \in 1 .. k : l[i] = s[i]
  BY <1>1, <1>2
<1>4. r \in Seq(S) /\ Len(r) = n - k /\ \A i \in 1 .. n - k : r[i] = s[k + i]
  BY <1>1, <1>2
<1> DEFINE t == l \o <<e>> \o r
<1>5. With(e, f, S)[s] = t
  BY DEF With, k
<1> HIDE DEF l, r, n
<1> DEFINE le == l \o <<e>>
<1>6. le \in Seq(S) /\ Len(le) = k + 1 /\ (\A i \in 1 .. k : le[i] = l[i]) /\ le[k + 1] = e
  BY <1>3, <1>2
<1>7. t = le \o r
  OBVIOUS
<1> HIDE DEF le, t
<1>8. t \in Seq(S) /\ Len(t) = n + 1
  BY <1>7, <1>6, <1>4, <1>1, <1>2
<1>9. \A i \in 1 .. k + 1 : t[i] = le[i]
  BY <1>7, <1>6, <1>4, <1>1, <1>2
<1>10. \A i \in 1 .. n - k : t[k + 1 + i] = r[i]
  BY <1>7, <1>6, <1>4, <1>1, <1>2
<1>11. ASSUME NEW i \in k + 1 .. n PROVE t[i + 1] = s[i]
  <2>1. i - k \in 1 .. n - k /\ k + 1 + (i - k) = i + 1 /\ k + (i - k) = i
    BY <1>1, <1>2
  <2> QED
    BY <2>1, <1>10, <1>4
<1> QED
  <2>1. \A i \in 1 .. k : t[i] = s[i]
    BY <1>9, <1>6, <1>3, <1>2
  <2>2. t[k + 1] = e
    BY <1>9, <1>6, <1>2
  <2>3. Inserted(t, s, S, e, k)
    BY <1>8, <1>11, <2>1, <2>2 DEF Inserted, n
  <2> QED
    BY <2>3, <1>5 DEF k

\* The sorted part after each of the first n elements.
SortedSoFar(k, s, f, S, n) == [i \in 0 .. n |-> IF i = 0 THEN <<>> ELSE With(s[i], f, S)[k[i - 1]]]

\* A sort is well defined, whatever the length of the slice.
LEMMA SortExists ==
    ASSUME NEW n \in Nat, NEW s, NEW f, NEW S
    PROVE  \E k : k = SortedSoFar(k, s, f, S, n)
<1> DEFINE T == {i \in 0 .. n : \E k : k = SortedSoFar(k, s, f, S, i)}
<1>1. 0 \in T
  <2> DEFINE k == [i \in 0 .. 0 |-> <<>>]
  <2>1. k = SortedSoFar(k, s, f, S, 0)
    BY DEF SortedSoFar
  <2> QED
    BY <2>1
<1>2. ASSUME NEW i \in 0 .. n, i \in T, i < n PROVE i + 1 \in T
  <2>1. PICK k : k = SortedSoFar(k, s, f, S, i)
    BY <1>2
  <2> DEFINE g == [j \in 0 .. i + 1 |-> IF j = i + 1 THEN With(s[j], f, S)[k[i]] ELSE k[j]]
  <2>0. i \in Nat /\ i + 1 \in 0 .. n
    BY <1>2
  <2>2. ASSUME NEW j \in 0 .. i + 1 PROVE g[j] = SortedSoFar(g, s, f, S, i + 1)[j]
    <3>1. CASE j = i + 1
      BY <3>1, <2>0 DEF SortedSoFar
    <3>2. CASE j = 0
      BY <3>2, <2>0, <2>1 DEF SortedSoFar
    <3>3. CASE j # 0 /\ j # i + 1
      <4>1. j \in 0 .. i /\ j - 1 \in 0 .. i + 1 /\ j - 1 # i + 1
        BY <3>3, <2>0
      <4>2. g[j] = k[j] /\ g[j - 1] = k[j - 1]
        BY <4>1, <2>0
      <4>3. k[j] = With(s[j], f, S)[k[j - 1]]
        BY <2>1, <4>1, <3>3 DEF SortedSoFar
      <4>4. SortedSoFar(g, s, f, S, i + 1)[j] = With(s[j], f, S)[g[j - 1]]
        BY <3>3 DEF SortedSoFar
      <4> HIDE DEF g
      <4> QED
        BY <4>2, <4>3, <4>4
    <3> QED
      BY <3>1, <3>2, <3>3
  <2>3. DOMAIN g = 0 .. i + 1 /\ DOMAIN SortedSoFar(g, s, f, S, i + 1) = 0 .. i + 1
    BY DEF SortedSoFar
  <2>4. SortedSoFar(g, s, f, S, i + 1) = [j \in 0 .. i + 1 |-> SortedSoFar(g, s, f, S, i + 1)[j]]
    BY DEF SortedSoFar
  <2>5. g = [j \in 0 .. i + 1 |-> g[j]]
    OBVIOUS
  <2> HIDE DEF g
  <2>6. g = SortedSoFar(g, s, f, S, i + 1)
    BY <2>2, <2>3, <2>4, <2>5
  <2> QED
    BY <2>6, <2>0
<1> HIDE DEF T
<1>3. n \in T
  BY <1>1, <1>2, SetInduction
<1> QED
  BY <1>3 DEF T

\* SortedBy inserts one element after the other.
LEMMA SortedByDef ==
    ASSUME NEW S, NEW s \in Seq(S), NEW f
    PROVE  \E k : /\ SortedBy(f, S)[s] = k[Len(s)]
                  /\ k[0] = <<>>
                  /\ \A i \in 0 .. Len(s) : i < Len(s) => k[i + 1] = With(s[i + 1], f, S)[k[i]]
<1> DEFINE K == CHOOSE k : k = SortedSoFar(k, s, f, S, Len(s))
<1>0. Len(s) \in Nat
  OBVIOUS
<1>1. K = SortedSoFar(K, s, f, S, Len(s))
  BY <1>0, SortExists
<1>2. SortedBy(f, S)[s] = K[Len(s)]
  BY DEF SortedBy, SortedSoFar
<1> HIDE DEF K
<1>3. K[0] = <<>>
  BY <1>0, <1>1 DEF SortedSoFar
<1>4. ASSUME NEW i \in 0 .. Len(s), i < Len(s) PROVE K[i + 1] = With(s[i + 1], f, S)[K[i]]
  <2> DEFINE j == i + 1
  <2>1. j \in 0 .. Len(s) /\ j # 0 /\ j - 1 = i
    BY <1>0, <1>4
  <2>2. K[j] = With(s[j], f, S)[K[j - 1]]
    <3> HIDE DEF j
    <3> QED
      BY <1>1, <2>1 DEF SortedSoFar
  <2> QED
    BY <2>1, <2>2
<1> QED
  BY <1>2, <1>3, <1>4

\* t is s[p[1]], s[p[2]], ..., a permutation of the first n elements of s in the
\* order of f; those with the same value have the order they have in s.
StableSort(t, p, s, f, n) ==
    /\ p \in [1 .. n -> 1 .. n]
    /\ \A j \in 1 .. n : \E a \in 1 .. n : p[a] = j
    /\ \A a \in 1 .. n : t[a] = s[p[a]]
    /\ \A a, b \in 1 .. n : a < b => t[a][f] < t[b][f] \/ (t[a][f] = t[b][f] /\ p[a] < p[b])

\* One more element is sorted in.
LEMMA SortStep ==
    ASSUME NEW S, NEW f, \A x \in S : x[f] \in Int, NEW n \in Nat, NEW t \in Seq(S), Len(t) = n,
           NEW s, NEW p, StableSort(t, p, s, f, n), s[n + 1] \in S
    PROVE  LET u == With(s[n + 1], f, S)[t]
           IN  /\ u \in Seq(S) /\ Len(u) = n + 1
               /\ \E q : StableSort(u, q, s, f, n + 1)
<1> DEFINE e == s[n + 1]
           u == With(e, f, S)[t]
           k == Place(t, e, f)
           old(a) == IF a <= k THEN a ELSE a - 1
           q == [a \in 1 .. n + 1 |-> IF a = k + 1 THEN n + 1 ELSE p[old(a)]]
<1>0. e \in S
  OBVIOUS
<1> HIDE DEF e
<1>1. /\ u \in Seq(S) /\ Len(u) = n + 1
      /\ \A i \in 1 .. k : u[i] = t[i]
      /\ u[k + 1] = e
      /\ \A i \in k + 1 .. n : u[i + 1] = t[i]
  <2>1. /\ u \in Seq(S) /\ Len(u) = Len(t) + 1
        /\ \A i \in 1 .. k : u[i] = t[i]
        /\ u[k + 1] = e
        /\ \A i \in k + 1 .. Len(t) : u[i + 1] = t[i]
    <3>1. Inserted(u, t, S, e, k)
      BY <1>0, WithPlaces
    <3> QED
      BY <3>1 DEF Inserted
  <2> QED
    BY <2>1
<1>2. /\ k \in 0 .. n
      /\ \A i \in 1 .. k : t[i][f] <= e[f]
      /\ k < n => e[f] < t[k + 1][f]
  <2>1. /\ k \in 0 .. Len(t)
        /\ \A i \in 1 .. k : t[i][f] <= e[f]
        /\ k < Len(t) => e[f] < t[k + 1][f]
    BY <1>0, PlaceExists
  <2> QED
    BY <2>1
<1>3. p \in [1 .. n -> 1 .. n] /\ \A j \in 1 .. n : \E a \in 1 .. n : p[a] = j
  BY DEF StableSort
<1>s. \A a \in 1 .. n : t[a] = s[p[a]]
  BY DEF StableSort
<1>o. \A a, b \in 1 .. n : a < b => t[a][f] < t[b][f] \/ (t[a][f] = t[b][f] /\ p[a] < p[b])
  BY DEF StableSort
<1>4. e[f] \in Int /\ \A i \in 1 .. n : t[i][f] \in Int
  BY <1>0
<1> HIDE DEF u, k
<1>5. ASSUME NEW a \in 1 .. n + 1, a # k + 1
      PROVE  /\ old(a) \in 1 .. n /\ u[a] = t[old(a)] /\ q[a] = p[old(a)]
             /\ (a <= k => old(a) <= k) /\ (k + 1 < a => k + 1 <= old(a))
  <2>1. CASE a <= k
    BY <2>1, <1>5, <1>1, <1>2
  <2>2. CASE k + 1 < a
    <3>1. a - 1 \in k + 1 .. n /\ (a - 1) + 1 = a /\ old(a) = a - 1
      BY <2>2, <1>2
    <3>2. u[(a - 1) + 1] = t[a - 1]
      BY <3>1, <1>1
    <3> QED
      BY <3>1, <3>2, <1>2, <1>5, <2>2
  <2> QED
    BY <2>1, <2>2, <1>2, <1>5
<1>6. k + 1 \in 1 .. n + 1 /\ q[k + 1] = n + 1 /\ DOMAIN q = 1 .. n + 1
  BY <1>2
<1>7. \A a, b \in 1 .. n + 1 : a < b /\ a # k + 1 /\ b # k + 1 => old(a) < old(b)
  BY <1>2
<1>q. q = [a \in 1 .. n + 1 |-> q[a]]
  OBVIOUS
<1>8. \A j \in 1 .. n : \E a \in 1 .. n + 1 : a # k + 1 /\ old(a) = j
  <2> TAKE j \in 1 .. n
  <2>1. CASE j <= k
    <3>1. j \in 1 .. n + 1 /\ j # k + 1 /\ old(j) = j
      BY <2>1, <1>2
    <3> QED
      BY <3>1
  <2>2. CASE ~(j <= k)
    <3>1. j + 1 \in 1 .. n + 1 /\ j + 1 # k + 1 /\ old(j + 1) = j
      BY <2>2, <1>2
    <3> QED
      BY <3>1
  <2> QED
    BY <2>1, <2>2
<1> HIDE DEF q, old
<1>9. q \in [1 .. n + 1 -> 1 .. n + 1]
  <2>1. ASSUME NEW a \in 1 .. n + 1 PROVE q[a] \in 1 .. n + 1
    <3>1. CASE a = k + 1
      BY <3>1, <1>6
    <3>2. CASE a # k + 1
      <4>1. old(a) \in 1 .. n /\ q[a] = p[old(a)]
        BY <3>2, <1>5
      <4>2. p[old(a)] \in 1 .. n
        BY <4>1, <1>3
      <4> QED
        BY <4>1, <4>2
    <3> QED
      BY <3>1, <3>2
  <2> QED
    BY <2>1, <1>q
<1>10. ASSUME NEW j \in 1 .. n + 1 PROVE \E a \in 1 .. n + 1 : q[a] = j
  <2>1. CASE j = n + 1
    BY <2>1, <1>6
  <2>2. CASE j # n + 1
    <3>0. j \in 1 .. n
      BY <2>2
    <3>1. PICK b \in 1 .. n : p[b] = j
      BY <3>0, <1>3
    <3>2. PICK a \in 1 .. n + 1 : a # k + 1 /\ old(a) = b
      BY <1>8
    <3> QED
      BY <3>1, <3>2, <1>5
  <2> QED
    BY <2>1, <2>2
<1>11. \A a \in 1 .. n + 1 : u[a] = s[q[a]]
  <2> TAKE a \in 1 .. n + 1
  <2>1. CASE a = k + 1
    BY <2>1, <1>1, <1>6 DEF e
  <2>2. CASE a # k + 1
    <3>1. old(a) \in 1 .. n /\ u[a] = t[old(a)] /\ q[a] = p[old(a)]
      BY <2>2, <1>5
    <3> QED
      BY <3>1, <1>s
  <2> QED
    BY <2>1, <2>2
<1>12. ASSUME NEW a \in 1 .. n + 1, NEW b \in 1 .. n + 1, a < b
       PROVE  u[a][f] < u[b][f] \/ (u[a][f] = u[b][f] /\ q[a] < q[b])
  <2>1. CASE a # k + 1 /\ b # k + 1
    <3>1. /\ old(a) \in 1 .. n /\ u[a] = t[old(a)] /\ q[a] = p[old(a)]
          /\ old(b) \in 1 .. n /\ u[b] = t[old(b)] /\ q[b] = p[old(b)]
      BY <2>1, <1>5
    <3>2. old(a) < old(b)
      BY <2>1, <1>12, <1>7
    <3> QED
      BY <3>1, <3>2, <1>o
  <2>2. CASE a = k + 1
    <3>1. k + 1 < b /\ b # k + 1 /\ k < n
      BY <2>2, <1>12, <1>2
    <3>2. old(b) \in 1 .. n /\ u[b] = t[old(b)] /\ k + 1 <= old(b) /\ k + 1 \in 1 .. n
      BY <3>1, <1>5, <1>2
    <3>3. t[k + 1][f] <= t[old(b)][f]
      <4>1. CASE k + 1 = old(b)
        BY <4>1, <3>2, <1>4
      <4>2. CASE k + 1 < old(b)
        <5>1. t[k + 1][f] < t[old(b)][f] \/ t[k + 1][f] = t[old(b)][f]
          BY <4>2, <3>2, <1>o
        <5> QED
          BY <5>1, <3>2, <1>4
      <4> QED
        BY <4>1, <4>2, <3>2, <1>2
    <3>4. e[f] < t[k + 1][f]
      BY <3>1, <1>2
    <3> QED
      BY <2>2, <3>2, <3>3, <3>4, <1>1, <1>4
  <2>3. CASE b = k + 1
    <3>1. a <= k /\ a # k + 1 /\ a \in 1 .. n + 1
      BY <2>3, <1>12, <1>2
    <3>2. old(a) \in 1 .. n /\ u[a] = t[old(a)] /\ old(a) <= k /\ old(a) \in 1 .. k /\ q[a] = p[old(a)]
      BY <3>1, <1>5, <1>2
    <3>3. t[old(a)][f] <= e[f] /\ p[old(a)] \in 1 .. n
      BY <3>2, <1>2, <1>3
    <3> QED
      BY <2>3, <3>2, <3>3, <1>1, <1>4, <1>6
  <2> QED
    BY <2>1, <2>2, <2>3
<1>13. StableSort(u, q, s, f, n + 1)
  BY <1>9, <1>10, <1>11, <1>12 DEF StableSort
<1> QED
  BY <1>1, <1>13 DEF u, e

\* Whatever a slice holds, sort.SliceStable returns a permutation of it in the
\* order of the field, in which equal elements have kept their order.
THEOREM SortsStably ==
    ASSUME NEW S, NEW f, \A x \in S : x[f] \in Int, NEW s \in Seq(S)
    PROVE  LET t == SortedBy(f, S)[s]
           IN  /\ t \in Seq(S) /\ Len(t) = Len(s)
               /\ \E p : StableSort(t, p, s, f, Len(s))
<1> DEFINE n == Len(s)
<1>n. n \in Nat
  OBVIOUS
<1>k. PICK k : /\ SortedBy(f, S)[s] = k[n] /\ k[0] = <<>>
               /\ \A i \in 0 .. n : i < n => k[i + 1] = With(s[i + 1], f, S)[k[i]]
  BY SortedByDef
<1> DEFINE Good(i) == k[i] \in Seq(S) /\ Len(k[i]) = i /\ \E p : StableSort(k[i], p, s, f, i)
           T == {i \in 0 .. n : Good(i)}
<1>1. 0 \in T
  <2>1. StableSort(<<>>, [a \in {} |-> 1], s, f, 0)
    BY DEF StableSort
  <2>2. <<>> \in Seq(S) /\ Len(<<>>) = 0
    OBVIOUS
  <2>3. 0 \in 0 .. n
    BY <1>n
  <2>4. Good(0)
    BY <2>1, <2>2, <1>k
  <2> QED
    BY <2>3, <2>4
<1>2. ASSUME NEW i \in 0 .. n, i \in T, i < n PROVE i + 1 \in T
  <2>0. i \in Nat /\ i + 1 \in 0 .. n /\ s[i + 1] \in S
    BY <1>2, <1>n
  <2>1. k[i] \in Seq(S) /\ Len(k[i]) = i
    BY <1>2
  <2>2. PICK p : StableSort(k[i], p, s, f, i)
    BY <1>2
  <2>3. k[i + 1] = With(s[i + 1], f, S)[k[i]]
    BY <1>2, <1>k
  <2> DEFINE u == With(s[i + 1], f, S)[k[i]]
  <2>4. u \in Seq(S) /\ Len(u) = i + 1 /\ \E q : StableSort(u, q, s, f, i + 1)
    BY <2>0, <2>1, <2>2, SortStep
  <2>5. Good(i + 1)
    BY <2>3, <2>4
  <2> QED
    BY <2>0, <2>5
<1>3. n \in T
  <2>1. \A i \in 0 .. n : i \in T /\ i < n => i + 1 \in T
    BY <1>2
  <2>2. n \in 0 .. n
    BY <1>n
  <2> HIDE DEF T, n
  <2> QED
    BY <1>1, <2>1, <2>2, <1>n, SetInduction
<1> QED
  BY <1>3, <1>k

------------------------------------------------------------------------------
(* ResourceLinks: what the operators on endpoints and links return          *)

\* A slice whose elements are all in D is a slice of D.
LEMMA SliceOf ==
    ASSUME NEW S, NEW D, NEW t \in Seq(S), \A i \in 1 .. Len(t) : t[i] \in D
    PROVE  t \in Seq(D)
<1>1. Len(t) \in Nat /\ t = [i \in 1 .. Len(t) |-> t[i]]
  OBVIOUS
<1>2. t \in [1 .. Len(t) -> D]
  BY <1>1
<1> QED
  BY <1>1, <1>2

\* A filter keeps what is in I, and only that.
LEMMA SelectedElements ==
    ASSUME NEW S, NEW s \in Seq(S), NEW I, I \subseteq DOMAIN s
    PROVE  /\ Selected(s, I) \in Seq(S)
           /\ \A a \in 1 .. Len(Selected(s, I)) : \E i \in I : Selected(s, I)[a] = s[i]
           /\ \A i \in I : \E a \in 1 .. Len(Selected(s, I)) : Selected(s, I)[a] = s[i]
<1> DEFINE t == Selected(s, I)
<1>0. I = I \intersect (1 .. Len(s))
  OBVIOUS
<1>1. PICK f : /\ Picks(f, Len(t), I, Len(s)) /\ \A a \in 1 .. Len(t) : t[a] = s[f[a]]
  BY SelectedPicks DEF Alike
<1>2. t \in Seq(S)
  BY SelectedPicks
<1>3. f \in [1 .. Len(t) -> I] /\ \A j \in I : \E a \in 1 .. Len(t) : f[a] = j
  BY <1>0, <1>1 DEF Picks
<1> QED
  BY <1>1, <1>2, <1>3

\* So what it returns is in every set that holds what it keeps.
LEMMA SelectedIn ==
    ASSUME NEW S, NEW s \in Seq(S), NEW I, I \subseteq DOMAIN s, NEW D, \A i \in I : s[i] \in D
    PROVE  Selected(s, I) \in Seq(D) /\ (I # {} => Selected(s, I) # <<>>)
<1> DEFINE t == Selected(s, I)
<1>1. t \in Seq(S)
  BY SelectedElements
<1>2. \A a \in 1 .. Len(t) : t[a] \in D
  BY SelectedElements
<1>3. \A i \in I : \E a \in 1 .. Len(t) : t[a] = s[i]
  BY SelectedElements
<1> HIDE DEF t
<1>4. t \in Seq(D)
  BY <1>1, <1>2, SliceOf
<1>5. I # {} => t # <<>>
  BY <1>3
<1> QED
  BY <1>4, <1>5 DEF t

\* The endpoints with an address, and among them the secured ones and those over
\* TCP.
Addressed == {e \in Endpoint : e.scheme # "bad" /\ e.host \in {"ip", "zoned"}}
SecuredEndpoints == {e \in Addressed : IsSecuredScheme(e.scheme)}
TCPEndpoints == {e \in Addressed : e.scheme \in {"coap+tcp", "coaps+tcp"}}

\* Endpoints.Sort returns the same endpoints.
LEMMA SortEndpointsKeeps ==
    ASSUME NEW D, D \subseteq Endpoint, NEW eps \in Seq(D)
    PROVE  SortEndpoints(eps) \in Seq(D) /\ Len(SortEndpoints(eps)) = Len(eps)
<1> DEFINE t == SortedBy("pri", Endpoint)[eps]
<1>0. eps \in Seq(Endpoint)
  BY SliceOf
<1>1. \A x \in Endpoint : x["pri"] \in Int
  BY DEF Endpoint
<1>2. t \in Seq(Endpoint) /\ Len(t) = Len(eps) /\ \E p : StableSort(t, p, eps, "pri", Len(eps))
  BY <1>0, <1>1, SortsStably
<1>3. PICK p : StableSort(t, p, eps, "pri", Len(eps))
  BY <1>2
<1>4. p \in [1 .. Len(eps) -> 1 .. Len(eps)] /\ \A a \in 1 .. Len(eps) : t[a] = eps[p[a]]
  BY <1>3 DEF StableSort
<1>5. \A a \in 1 .. Len(t) : t[a] \in D
  BY <1>2, <1>4
<1> HIDE DEF t
<1>6. t \in Seq(D)
  BY <1>2, <1>5, SliceOf
<1> QED
  BY <1>2, <1>6 DEF SortEndpoints, t

\* And loses none that can be dialled.
LEMMA SortEndpointsReaches ==
    ASSUME NEW eps \in Seq(Endpoint), Reachable(eps)
    PROVE  Reachable(SortEndpoints(eps))
<1> DEFINE t == SortedBy("pri", Endpoint)[eps]
<1>1. \A x \in Endpoint : x["pri"] \in Int
  BY DEF Endpoint
<1>2. t \in Seq(Endpoint) /\ Len(t) = Len(eps) /\ \E p : StableSort(t, p, eps, "pri", Len(eps))
  BY <1>1, SortsStably
<1>3. PICK p : StableSort(t, p, eps, "pri", Len(eps))
  BY <1>2
<1>4. /\ \A a \in 1 .. Len(eps) : t[a] = eps[p[a]]
      /\ \A k \in 1 .. Len(eps) : \E a \in 1 .. Len(eps) : p[a] = k
  BY <1>3 DEF StableSort
<1>5. PICK k \in 1 .. Len(eps) : eps[k].scheme \in Schemes
  BY DEF Reachable
<1>6. PICK a \in 1 .. Len(eps) : p[a] = k
  BY <1>4
<1> HIDE DEF t
<1>7. a \in DOMAIN t
  BY <1>2
<1>8. t[a] = eps[k]
  BY <1>4, <1>6
<1> QED
  BY <1>5, <1>7, <1>8 DEF SortEndpoints, t, Reachable

\* Endpoints without a foreign one can all be dialled, secured ones always.
LEMMA AddressedReachable ==
    /\ \A e \in Addressed : e.scheme # "other" => e.scheme \in Schemes
    /\ \A e \in SecuredEndpoints : e.scheme \in Schemes
  BY DEF Addressed, SecuredEndpoints, Endpoint, IsSecuredScheme, Schemes

LEMMA SecuredReachable ==
    ASSUME NEW eps \in Seq(SecuredEndpoints), eps # <<>>
    PROVE  Reachable(eps)
<1>1. 1 \in DOMAIN eps /\ eps[1] \in SecuredEndpoints
  OBVIOUS
<1> QED
  BY <1>1, AddressedReachable DEF Reachable

\* The filters of endpoints.
LEMMA FilterSecureKeeps ==
    ASSUME NEW eps \in Seq(Addressed)
    PROVE  /\ FilterSecureEndpoints(eps) \in Seq(SecuredEndpoints)
           /\ (\E i \in DOMAIN eps : IsSecuredScheme(eps[i].scheme)) => FilterSecureEndpoints(eps) # <<>>
<1> DEFINE I == {i \in DOMAIN eps : IsSecuredScheme(eps[i].scheme)}
<1>1. I \subseteq DOMAIN eps /\ \A i \in I : eps[i] \in SecuredEndpoints
  BY DEF SecuredEndpoints
<1>2. (\E i \in DOMAIN eps : IsSecuredScheme(eps[i].scheme)) => I # {}
  OBVIOUS
<1>3. FilterSecureEndpoints(eps) = Selected(eps, I)
  BY DEF FilterSecureEndpoints
<1> HIDE DEF I
<1>4. Selected(eps, I) \in Seq(SecuredEndpoints) /\ (I # {} => Selected(eps, I) # <<>>)
  BY <1>1, SelectedIn
<1> QED
  BY <1>2, <1>3, <1>4

LEMMA FilterTCPKeeps ==
    ASSUME NEW eps \in Seq(Addressed)
    PROVE  FilterTCPEndpoints(eps) \in Seq(TCPEndpoints)
<1> DEFINE I == {i \in DOMAIN eps : eps[i].scheme \in {"coap+tcp", "coaps+tcp"}}
<1>1. I \subseteq DOMAIN eps /\ \A i \in I : eps[i] \in TCPEndpoints
  BY DEF TCPEndpoints
<1>3. FilterTCPEndpoints(eps) = Selected(eps, I)
  BY DEF FilterTCPEndpoints
<1> HIDE DEF I
<1>4. Selected(eps, I) \in Seq(TCPEndpoints)
  BY <1>1, SelectedIn
<1> QED
  BY <1>3, <1>4

\* The endpoints of a policy are those of its ports, at an address that can be
\* dialled.
LEMMA PolicyEndpointsAddressed ==
    ASSUME NEW p \in Policy, NEW addr \in Addressed
    PROVE  /\ PolicyEndpoints(p, addr) \in Seq(Addressed)
           /\ p.ports # {} => PolicyEndpoints(p, addr) # <<>> /\ Reachable(PolicyEndpoints(p, addr))
<1> DEFINE E(s) == [scheme |-> s, host |-> addr.host, pri |-> 0]
           At(port, s) == IF port \in p.ports THEN <<E(s)>> ELSE <<>>
           u == At("udp", IF p.secured THEN "coaps" ELSE "coap")
           t == At("tcp", "coap+tcp")
           l == At("tls", "coaps+tcp")
<1>0. addr.host \in {"ip", "zoned"}
  BY DEF Addressed
<1> DEFINE D == {e \in Addressed : e.scheme \in Schemes}
<1>1. \A s \in Schemes : E(s) \in D
  BY <1>0 DEF Addressed, Endpoint, Schemes
<1>2. {"coap", "coaps", "coap+tcp", "coaps+tcp"} = Schemes
  BY DEF Schemes
<1> DEFINE us == IF p.secured THEN "coaps" ELSE "coap"
<1>3. us \in Schemes
  BY <1>2
<1> HIDE DEF E, D
<1>4. u \in Seq(D) /\ ("udp" \in p.ports => Len(u) = 1) /\ Len(u) \in Nat
  <2>1. E(us) \in D
    BY <1>1, <1>3
  <2>2. u = IF "udp" \in p.ports THEN <<E(us)>> ELSE <<>>
    BY DEF E
  <2> HIDE DEF u, us
  <2> QED
    BY <2>1, <2>2
<1>5. t \in Seq(D) /\ ("tcp" \in p.ports => Len(t) = 1) /\ Len(t) \in Nat
  BY <1>1, <1>2
<1>6. l \in Seq(D) /\ ("tls" \in p.ports => Len(l) = 1) /\ Len(l) \in Nat
  BY <1>1, <1>2
<1>7. PolicyEndpoints(p, addr) = u \o t \o l
  BY DEF PolicyEndpoints, E
<1>8. p.ports # {} => "udp" \in p.ports \/ "tcp" \in p.ports \/ "tls" \in p.ports
  BY DEF Policy
<1> HIDE DEF u, t, l
<1>9. u \o t \o l \in Seq(D) /\ Len(u \o t \o l) = Len(u) + Len(t) + Len(l)
  BY <1>4, <1>5, <1>6
<1>10. p.ports # {} => Len(u \o t \o l) > 0
  <2>1. p.ports # {} => Len(u) = 1 \/ Len(t) = 1 \/ Len(l) = 1
    BY <1>4, <1>5, <1>6, <1>8
  <2>2. Len(u) \in Nat /\ Len(t) \in Nat /\ Len(l) \in Nat
    BY <1>4, <1>5, <1>6
  <2> DEFINE x == Len(u)
             y == Len(t)
             z == Len(l)
  <2>3. p.ports # {} => x + y + z > 0
    <3>1. x \in Nat /\ y \in Nat /\ z \in Nat /\ (p.ports # {} => x = 1 \/ y = 1 \/ z = 1)
      BY <2>1, <2>2
    <3> HIDE DEF x, y, z
    <3> QED
      BY <3>1
  <2> QED
    BY <2>3, <1>9
<1> DEFINE w == u \o t \o l
<1>11. w \in Seq(D) /\ (p.ports # {} => Len(w) > 0)
  BY <1>9, <1>10
<1> HIDE DEF w
<1>12. w \in Seq(Addressed)
  BY <1>11, SliceOf DEF D
<1>13. p.ports # {} => w # <<>> /\ Reachable(w)
  <2> HAVE p.ports # {}
  <2>1. 1 \in DOMAIN w /\ w[1] \in D
    BY <1>11
  <2> QED
    BY <2>1, <1>11 DEF Reachable, D
<1> QED
  BY <1>7, <1>12, <1>13 DEF w

\* One of the endpoints can be dialled, and is secured if the address is.
Suits(deviceEndpoints, addr) ==
    \E i \in DOMAIN deviceEndpoints :
        /\ deviceEndpoints[i].scheme \in Schemes
        /\ IsSecuredScheme(addr.scheme) => IsSecuredScheme(deviceEndpoints[i].scheme)

\* Of a patched link: what it may be changed into.  Its endpoints have an
\* address; a link with a policy has some, if the device has endpoints, secured
\* ones when the address is, and then one that can be dialled, unless the device
\* has sent a foreign one; and one for which the device has sent neither
\* endpoints nor ports has only secured ones when the address is.
Patched(m, l, addr, deviceEndpoints) ==
    /\ m \in Link /\ m.eps \in Seq(Addressed)
    /\ m.id = l.id /\ m.href = l.href /\ m.policy = l.policy
    /\ l.policy # Unset /\ Suits(deviceEndpoints, addr) => m.eps # <<>>
    /\ m.eps # <<>> /\ (l.policy = Unset \/ Suits(deviceEndpoints, addr)) => Foreign(l) \/ Reachable(m.eps)
    /\ l.eps = <<>> /\ l.policy # Unset /\ l.policy.ports = {} /\ IsSecuredScheme(addr.scheme)
       => m.eps \in Seq(SecuredEndpoints)

\* patchEndpoint does that to links whose endpoints have an address.
LEMMA PatchMissingPatches ==
    ASSUME NEW l \in Link, l.eps \in Seq(Addressed), NEW addr \in Addressed, NEW eps \in Seq(Addressed)
    PROVE  Patched(PatchMissing(l, addr, eps), l, addr, eps)
<1> DEFINE m == PatchMissing(l, addr, eps)
<1>1. Addressed \subseteq Endpoint /\ SecuredEndpoints \subseteq Addressed
  BY DEF Addressed, SecuredEndpoints
<1>2. CASE l.eps # <<>> \/ l.policy = Unset
  <2>1. m = l
    BY <1>2 DEF PatchMissing
  <2>2. l.eps # <<>> => Foreign(l) \/ Reachable(l.eps)
    <3> HAVE l.eps # <<>>
    <3>1. 1 \in DOMAIN l.eps /\ l.eps[1] \in Addressed
      OBVIOUS
    <3>2. l.eps[1].scheme = "other" \/ l.eps[1].scheme \in Schemes
      BY <3>1, AddressedReachable
    <3> QED
      BY <3>1, <3>2 DEF Foreign, Reachable
  <2> HIDE DEF m
  <2> QED
    BY <1>2, <2>1, <2>2 DEF Patched, m
<1>3. CASE l.eps = <<>> /\ l.policy # Unset
  <2> DEFINE e == IF l.policy.ports # {} THEN PolicyEndpoints(l.policy, addr)
                  ELSE IF IsSecuredScheme(addr.scheme) THEN FilterSecureEndpoints(eps)
                  ELSE eps
  <2>1. m = [l EXCEPT !.eps = e]
    BY <1>3 DEF PatchMissing
  <2>2. l.policy \in Policy
    BY <1>3 DEF Link
  <2>3. e \in Seq(Addressed)
    <3>1. CASE l.policy.ports # {}
      BY <3>1, <2>2, PolicyEndpointsAddressed
    <3>2. CASE l.policy.ports = {} /\ IsSecuredScheme(addr.scheme)
      <4>1. e \in Seq(SecuredEndpoints)
        BY <3>2, FilterSecureKeeps
      <4> HIDE DEF e
      <4> QED
        BY <4>1, <1>1, SliceOf
    <3>3. CASE l.policy.ports = {} /\ ~IsSecuredScheme(addr.scheme)
      BY <3>3
    <3> QED
      BY <3>1, <3>2, <3>3
  <2>4. e \in Seq(Endpoint)
    <3> HIDE DEF e
    <3> QED
      BY <2>3, <1>1, SliceOf
  <2>5. Suits(eps, addr) => e # <<>> /\ Reachable(e)
    <3> HAVE Suits(eps, addr)
    <3>0. PICK i \in DOMAIN eps :
            eps[i].scheme \in Schemes /\ (IsSecuredScheme(addr.scheme) => IsSecuredScheme(eps[i].scheme))
      BY DEF Suits
    <3>1. CASE l.policy.ports # {}
      BY <3>1, <2>2, PolicyEndpointsAddressed
    <3>2. CASE l.policy.ports = {} /\ IsSecuredScheme(addr.scheme)
      <4>1. e \in Seq(SecuredEndpoints) /\ e # <<>>
        BY <3>0, <3>2, FilterSecureKeeps
      <4> HIDE DEF e
      <4> QED
        BY <4>1, SecuredReachable
    <3>3. CASE l.policy.ports = {} /\ ~IsSecuredScheme(addr.scheme)
      <4>1. e = eps
        BY <3>3
      <4>2. Reachable(eps)
        BY <3>0 DEF Reachable
      <4>3. eps # <<>>
        BY <4>2 DEF Reachable
      <4> QED
        BY <4>1, <4>2, <4>3
    <3> QED
      BY <3>1, <3>2, <3>3
  <2>6. l.policy.ports = {} /\ IsSecuredScheme(addr.scheme) => e \in Seq(SecuredEndpoints)
    BY FilterSecureKeeps
  <2> HIDE DEF e, m
  <2>7. m \in Link /\ m.eps = e /\ m.id = l.id /\ m.href = l.href /\ m.policy = l.policy
    BY <2>1, <2>4 DEF Link
  <2> QED
    BY <1>3, <2>3, <2>5, <2>6, <2>7 DEF Patched, m
<1> QED
  BY <1>2, <1>3

\* PatchEndpoint does it to every link.
LEMMA PatchEndpointPatches ==
    ASSUME NEW l \in Link, NEW addr \in Addressed, NEW eps \in Seq(Addressed)
    PROVE  Patched(PatchEndpoint(l, addr, eps), l, addr, eps)
<1> DEFINE Usable(e) == e.scheme # "bad" /\ e.host # "name" /\ (e.host = "local" => addr.host = "zoned")
           Zoned(e) == IF e.host = "local" THEN [e EXCEPT !.host = addr.host] ELSE e
           I == {i \in DOMAIN l.eps : Usable(l.eps[i])}
           U == {e \in Endpoint : Usable(e)}
           kept == Selected(l.eps, I)
           z == [i \in DOMAIN kept |-> Zoned(kept[i])]
           k == [l EXCEPT !.eps = z]
<1>1. PatchEndpoint(l, addr, eps) = PatchMissing(k, addr, eps)
  BY DEF PatchEndpoint
<1>2. l.eps \in Seq(Endpoint)
  BY DEF Link
<1>3. I \subseteq DOMAIN l.eps /\ \A i \in I : l.eps[i] \in U
  BY <1>2
<1>4. \A e \in U : Zoned(e) \in Addressed
  <2> TAKE e \in U
  <2>1. e \in Endpoint /\ e.scheme # "bad" /\ e.host \in {"ip", "local", "zoned"}
    BY DEF Endpoint
  <2>2. CASE e.host # "local"
    BY <2>1, <2>2 DEF Addressed
  <2>3. CASE e.host = "local"
    <3>1. addr.host = "zoned"
      BY <2>3
    <3>2. [e EXCEPT !.host = "zoned"] \in Addressed
      BY <2>1 DEF Addressed, Endpoint
    <3> QED
      BY <2>3, <3>1, <3>2
  <2> QED
    BY <2>2, <2>3
<1>s. \A e \in U : Zoned(e).scheme = e.scheme
  BY DEF Endpoint
<1> HIDE DEF I, U, Zoned
<1>k. \A a \in 1 .. Len(kept) : \E i \in I : kept[a] = l.eps[i]
  BY <1>2, <1>3, SelectedElements
<1>5. kept \in Seq(U)
  BY <1>2, <1>3, SelectedIn
<1>6. l.eps = <<>> => kept = <<>>
  <2> HAVE l.eps = <<>>
  <2>1. \A i \in I : l.eps[i] \in {}
    BY <1>3
  <2>2. kept \in Seq({})
    BY <1>2, <1>3, <2>1, SelectedIn
  <2> HIDE DEF kept
  <2> QED
    BY <2>2
<1> HIDE DEF kept
<1>7. z \in Seq(Addressed) /\ Len(z) = Len(kept)
  <2>1. Len(kept) \in Nat /\ DOMAIN kept = 1 .. Len(kept)
    BY <1>5
  <2>2. z \in [1 .. Len(kept) -> Addressed]
    BY <1>4, <1>5, <2>1
  <2> QED
    BY <2>1, <2>2
<1>8. l.eps = <<>> => z = <<>>
  BY <1>6, <1>7
\* A foreign endpoint among the kept ones is one the device has sent.
<1>f. ASSUME NEW a \in DOMAIN z, z[a].scheme = "other"
      PROVE  Foreign(l)
  <2>1. a \in 1 .. Len(kept) /\ z[a] = Zoned(kept[a]) /\ kept[a] \in U
    BY <1>5, <1>f
  <2>2. kept[a].scheme = "other"
    BY <2>1, <1>s, <1>f
  <2>3. PICK i \in I : kept[a] = l.eps[i]
    BY <2>1, <1>k
  <2> QED
    BY <2>2, <2>3, <1>3 DEF Foreign
<1>9. z \in Seq(Endpoint)
  <2>1. Addressed \subseteq Endpoint
    BY DEF Addressed
  <2> HIDE DEF z
  <2> QED
    BY <1>7, <2>1, SliceOf
<1> HIDE DEF z
<1>10. k \in Link /\ k.eps = z /\ k.id = l.id /\ k.href = l.href /\ k.policy = l.policy
  BY <1>9 DEF Link
<1> HIDE DEF k
<1>11. Patched(PatchMissing(k, addr, eps), k, addr, eps)
  BY <1>7, <1>10, PatchMissingPatches
<1>12. Foreign(k) => Foreign(l)
  BY <1>f, <1>10 DEF Foreign
<1> QED
  BY <1>1, <1>8, <1>10, <1>11, <1>12 DEF Patched

\* The links of the device, filtered before and after they were patched: as many
\* of them, and each patched where it was.
LEMMA OwnLinksPatched ==
    ASSUME NEW r \in Seq(Link), NEW addr \in Addressed, NEW eps \in Seq(Addressed)
    PROVE  LET own == FilterByDeviceID(PatchEndpoints(r, addr, eps))
               sent == FilterByDeviceID(r)
           IN  /\ own \in Seq(Link) /\ sent \in Seq(Link) /\ Len(own) = Len(sent)
               /\ \A a \in 1 .. Len(own) : Patched(own[a], sent[a], addr, eps)
<1> DEFINE t == PatchEndpoints(r, addr, eps)
           I == {i \in DOMAIN r : r[i].id = DeviceID}
           n == Len(r)
<1>1. n \in Nat /\ DOMAIN r = 1 .. n
  OBVIOUS
<1>2. \A i \in 1 .. n : t[i] = PatchEndpoint(r[i], addr, eps)
  BY <1>1 DEF PatchEndpoints
<1>3. \A i \in 1 .. n : Patched(t[i], r[i], addr, eps)
  BY <1>1, <1>2, PatchEndpointPatches
<1>4. t \in Seq(Link) /\ Len(t) = n /\ DOMAIN t = 1 .. n
  <2>1. DOMAIN t = 1 .. n /\ t = [i \in 1 .. n |-> t[i]]
    BY <1>1 DEF PatchEndpoints
  <2>2. \A i \in 1 .. n : t[i] \in Link
    BY <1>3 DEF Patched
  <2> HIDE DEF t, n
  <2>3. t \in [1 .. n -> Link]
    BY <2>1, <2>2
  <2> QED
    BY <2>3, <1>1
<1>5. {i \in DOMAIN t : t[i].id = DeviceID} = I
  BY <1>1, <1>3, <1>4 DEF Patched
<1>6. FilterByDeviceID(t) = Selected(t, I) /\ FilterByDeviceID(r) = Selected(r, I)
  BY <1>5 DEF FilterByDeviceID
<1> HIDE DEF t, I
<1>7. /\ Selected(t, I) \in Seq(Link) /\ Selected(r, I) \in Seq(Link)
      /\ Len(Selected(t, I)) = Len(Selected(r, I))
  BY <1>4, SelectedPicks
<1>8. PICK f : /\ Picks(f, Len(Selected(t, I)), I, Len(t))
               /\ \A a \in 1 .. Len(Selected(t, I)) :
                    Selected(t, I)[a] = t[f[a]] /\ Selected(r, I)[a] = r[f[a]]
  <2>1. Alike(t, r, I)
    BY <1>4, SelectedPicks
  <2> QED
    BY <2>1 DEF Alike
<1>9. \A a \in 1 .. Len(Selected(t, I)) : f[a] \in 1 .. n
  BY <1>4, <1>8 DEF Picks
<1>10. \A a \in 1 .. Len(Selected(t, I)) : Patched(Selected(t, I)[a], Selected(r, I)[a], addr, eps)
  BY <1>3, <1>8, <1>9
<1> QED
  BY <1>6, <1>7, <1>10 DEF t

\* GetResourceLink returns the link at the first position with the href.
FirstWith(r, href, i) == i \in DOMAIN r /\ r[i].href = href /\ \A j \in 1 .. i - 1 : r[j].href # href

\* There is one, if any link has the href.
LEMMA GetResourceLinkFirst ==
    ASSUME NEW S, NEW r \in Seq(S), NEW href, HasLink(r, href)
    PROVE  \E i \in 1 .. Len(r) : FirstWith(r, href, i) /\ GetResourceLink(r, href) = r[i]
<1> DEFINE n == Len(r)
           T == {i \in 1 .. n : r[i].href = href}
<1>0. n \in Nat /\ DOMAIN r = 1 .. n
  OBVIOUS
<1>1. T # {} /\ T \subseteq Nat
  BY DEF HasLink
<1>2. PICK i \in T : \A j \in T : i <= j
  <2> HIDE DEF T
  <2> QED
    BY <1>1, LeastNatural
<1>3. \A j \in 1 .. i - 1 : r[j].href # href
  BY <1>0, <1>2
<1>4. FirstWith(r, href, i)
  BY <1>0, <1>2, <1>3 DEF FirstWith
<1> DEFINE c == CHOOSE k \in DOMAIN r : r[k].href = href /\ \A j \in 1 .. k - 1 : r[j].href # href
<1>5. c \in DOMAIN r /\ r[c].href = href /\ \A j \in 1 .. c - 1 : r[j].href # href
  BY <1>4 DEF FirstWith
<1>6. GetResourceLink(r, href) = r[c]
  BY DEF GetResourceLink
<1> HIDE DEF c
<1>7. FirstWith(r, href, c)
  BY <1>5 DEF FirstWith
<1> QED
  BY <1>5, <1>6, <1>7, <1>0

\* In two slices with the same hrefs it is found at the same position.
LEMMA GetResourceLinkAlike ==
    ASSUME NEW S, NEW r \in Seq(S), NEW R, NEW t \in Seq(R), Len(r) = Len(t), NEW href,
           \A i \in 1 .. Len(r) : r[i].href = t[i].href, HasLink(r, href)
    PROVE  /\ HasLink(t, href)
           /\ \E i \in 1 .. Len(r) : GetResourceLink(r, href) = r[i] /\ GetResourceLink(t, href) = t[i]
<1>0. Len(r) \in Nat /\ DOMAIN r = 1 .. Len(r) /\ DOMAIN t = 1 .. Len(r)
  OBVIOUS
<1>1. HasLink(t, href)
  BY <1>0 DEF HasLink
<1>2. PICK i \in 1 .. Len(r) : FirstWith(r, href, i) /\ GetResourceLink(r, href) = r[i]
  BY GetResourceLinkFirst
<1>3. PICK j \in 1 .. Len(t) : FirstWith(t, href, j) /\ GetResourceLink(t, href) = t[j]
  BY <1>1, GetResourceLinkFirst
<1>4. i \in Nat /\ j \in Nat /\ i <= Len(r) /\ j <= Len(r) /\ 1 <= i /\ 1 <= j
  BY <1>0
<1>5. ~(i < j)
  <2>1. i < j => i \in 1 .. j - 1
    BY <1>4
  <2>2. r[i].href = href /\ t[i].href = href
    BY <1>2 DEF FirstWith
  <2>3. i \in 1 .. j - 1 => t[i].href # href
    BY <1>3 DEF FirstWith
  <2> QED
    BY <2>1, <2>2, <2>3
<1>6. ~(j < i)
  <2>1. j < i => j \in 1 .. i - 1
    BY <1>4
  <2>2. t[j].href = href /\ r[j].href = href
    BY <1>3, <1>0 DEF FirstWith
  <2>3. j \in 1 .. i - 1 => r[j].href # href
    BY <1>2 DEF FirstWith
  <2> QED
    BY <2>1, <2>2, <2>3
<1>7. i = j
  BY <1>4, <1>5, <1>6
<1> QED
  BY <1>1, <1>2, <1>3, <1>7

\* The setting decides which endpoints are left, and nothing else.
LEMMA EnabledKeeps ==
    ASSUME NEW eps \in Seq(Addressed)
    PROVE  /\ Enabled(eps) \in Seq(Addressed)
           /\ disableUDPEndpoints => Enabled(eps) \in Seq(TCPEndpoints)
           /\ ~disableUDPEndpoints => /\ (eps # <<>>) <=> (Enabled(eps) # <<>>)
                                      /\ Reachable(eps) => Reachable(Enabled(eps))
                                      /\ eps \in Seq(SecuredEndpoints) => Enabled(eps) \in Seq(SecuredEndpoints)
<1>0. Addressed \subseteq Endpoint /\ SecuredEndpoints \subseteq Endpoint /\ TCPEndpoints \subseteq Addressed
  BY DEF Addressed, SecuredEndpoints, TCPEndpoints
<1>1. SortEndpoints(eps) \in Seq(Addressed) /\ Len(SortEndpoints(eps)) = Len(eps)
  BY <1>0, SortEndpointsKeeps
<1>2. CASE disableUDPEndpoints
  <2>1. Enabled(eps) = FilterTCPEndpoints(SortEndpoints(eps))
    BY <1>2 DEF Enabled
  <2>2. Enabled(eps) \in Seq(TCPEndpoints)
    BY <2>1, <1>1, FilterTCPKeeps
  <2>3. Enabled(eps) \in Seq(Addressed)
    BY <2>2, <1>0, SliceOf
  <2> QED
    BY <1>2, <2>2, <2>3
<1>3. CASE ~disableUDPEndpoints
  <2>1. Enabled(eps) = SortEndpoints(eps)
    BY <1>3 DEF Enabled
  <2>2. (eps # <<>>) <=> (SortEndpoints(eps) # <<>>)
    BY <1>1
  <2>4. Reachable(eps) => Reachable(SortEndpoints(eps))
    <3>1. eps \in Seq(Endpoint)
      BY <1>0, SliceOf
    <3> QED
      BY <3>1, SortEndpointsReaches
  <2>3. eps \in Seq(SecuredEndpoints) => SortEndpoints(eps) \in Seq(SecuredEndpoints)
    BY <1>0, SortEndpointsKeeps
  <2> QED
    BY <1>1, <1>3, <2>1, <2>2, <2>3, <2>4
<1> QED
  BY <1>2, <1>3

------------------------------------------------------------------------------
(* ResourceLinks: the inductive invariant                                   *)

\* The endpoints of a device that is known have an address, and the address of
\* the connection, which could be dialled, is one of them unless they were
\* replaced.
KnownAddressed ==
    /\ known # Unset \/ connAddr # Unset => known \in Seq(Addressed)
    /\ connAddr # Unset => connAddr \in Addressed /\ connAddr.scheme \in Schemes
    /\ connAddr # Unset /\ ~replaced => \E i \in DOMAIN known : known[i] = connAddr

LinksIInv == KnownAddressed /\ LinksInv

\* Before links have been read there is little to say of them.
LEMMA NothingRead ==
    ASSUME KnownAddressed, ~LinksRead
    PROVE  LinksInv
<1>1. EveryEndpointHasAddress
  BY DEF KnownAddressed, LinksRead, EveryEndpointHasAddress, Addressed
<1>2. EveryLinkReachable /\ SecuredStaysSecured /\ NoUDPWhenDisabled
  BY DEF LinksRead, EveryLinkReachable, SecuredStaysSecured, NoUDPWhenDisabled
<1> QED
  BY <1>1, <1>2 DEF LinksInv

\* The same of the next state.
LEMMA NothingReadNext ==
    ASSUME KnownAddressed', ~LinksRead'
    PROVE  LinksInv'
<1>1. EveryEndpointHasAddress'
  BY DEF KnownAddressed, LinksRead, EveryEndpointHasAddress, Addressed
<1>2. EveryLinkReachable' /\ SecuredStaysSecured' /\ NoUDPWhenDisabled'
  BY DEF LinksRead, EveryLinkReachable, SecuredStaysSecured, NoUDPWhenDisabled
<1> QED
  BY <1>1, <1>2 DEF LinksInv

LEMMA LinksInitInv == LinksInit => LinksIInv
<1> SUFFICES ASSUME LinksInit PROVE LinksIInv
  OBVIOUS
<1>1. KnownAddressed
  BY DEF LinksInit, KnownAddressed
<1>2. ~LinksRead
  BY DEF LinksInit, LinksRead
<1> QED
  BY <1>1, <1>2, NothingRead DEF LinksIInv

\* HandleAnswer: the endpoints of the first /oic/d link of the answer.
LEMMA HandleAnswerKeeps ==
    ASSUME LinksIInv, NEW h \in {"ip", "zoned"}, NEW r \in Answers,
           HandleAnswer([scheme |-> "coap", host |-> h, pri |-> 0], r)
    PROVE  KnownAddressed' /\ ~LinksRead'
<1> DEFINE addr == [scheme |-> "coap", host |-> h, pri |-> 0]
           own == FilterByDeviceID(PatchEndpoints(r, addr, <<>>))
           sent == FilterByDeviceID(r)
<1>1. r \in Seq(Link)
  BY ResponsesAssumption
<1>2. addr \in Addressed
  BY DEF Addressed, Endpoint, Schemes
<1>3. <<>> \in Seq(Addressed)
  OBVIOUS
<1>4. /\ HasLink(own, DeviceHref)
      /\ known' = SortEndpoints(GetResourceLink(own, DeviceHref).eps)
      /\ replaced' = (connAddr # Unset /\ (replaced \/ known' # known))
      /\ connAddr' = connAddr /\ links' = links /\ links = Unset
  BY DEF HandleAnswer
<1> HIDE DEF addr
<1>5. own \in Seq(Link) /\ Len(own) = Len(sent) /\ \A a \in 1 .. Len(own) : Patched(own[a], sent[a], addr, <<>>)
  BY <1>1, <1>2, <1>3, OwnLinksPatched
<1> HIDE DEF own, sent
<1>6. PICK i \in 1 .. Len(own) : GetResourceLink(own, DeviceHref) = own[i]
  BY <1>4, <1>5, GetResourceLinkFirst
<1>7. own[i].eps \in Seq(Addressed)
  BY <1>5 DEF Patched
<1>8. known' \in Seq(Addressed)
  <2>1. Addressed \subseteq Endpoint
    BY DEF Addressed
  <2> QED
    BY <1>4, <1>6, <1>7, <2>1, SortEndpointsKeeps
<1>9. connAddr' # Unset => connAddr' \in Addressed /\ connAddr'.scheme \in Schemes
  BY <1>4 DEF LinksIInv, KnownAddressed
<1>10. connAddr' # Unset /\ ~replaced' => \E j \in DOMAIN known' : known'[j] = connAddr'
  <2> HAVE connAddr' # Unset /\ ~replaced'
  <2>1. connAddr # Unset /\ ~replaced /\ known' = known
    BY <1>4
  <2> QED
    BY <2>1, <1>4 DEF LinksIInv, KnownAddressed
<1>11. KnownAddressed'
  BY <1>8, <1>9, <1>10 DEF KnownAddressed
<1> QED
  BY <1>4, <1>11 DEF LinksRead

LEMMA ConnectKeeps ==
    ASSUME LinksIInv, ConnectToEndpoints
    PROVE  KnownAddressed' /\ ~LinksRead'
<1>1. known \in Seq(Addressed) /\ known' = known /\ links' = Unset
      /\ \E i \in DOMAIN known : known[i].scheme \in Schemes /\ connAddr' = known[i]
  BY DEF ConnectToEndpoints, LinksIInv, KnownAddressed
<1>2. connAddr' \in Addressed /\ connAddr'.scheme \in Schemes /\ \E i \in DOMAIN known' : known'[i] = connAddr'
  BY <1>1
<1> QED
  BY <1>1, <1>2 DEF KnownAddressed, LinksRead

\* The links of the device that patchResourceLinksEndpoints returns have the
\* endpoints of own, or those of its /oic/d link.
LEMMA PatchResourceLinksEps ==
    ASSUME NEW own \in Seq(Link), HasLink(own, DeviceHref), NEW i \in 1 .. Len(own)
    PROVE  LET m == PatchResourceLinksEndpoints(own)
           IN  m[i].eps = IF Enabled(own[i].eps) # <<>> THEN Enabled(own[i].eps)
                          ELSE Enabled(GetResourceLink(own, DeviceHref).eps)
<1> DEFINE E(j) == IF Enabled(own[j].eps) # <<>> THEN Enabled(own[j].eps)
                   ELSE Enabled(GetResourceLink(own, DeviceHref).eps)
<1>1. DOMAIN own = 1 .. Len(own) /\ own[i] \in Link
  OBVIOUS
<1>2. PatchResourceLinksEndpoints(own) = [j \in DOMAIN own |-> [own[j] EXCEPT !.eps = E(j)]]
  BY DEF PatchResourceLinksEndpoints
<1> HIDE DEF E
<1>3. PatchResourceLinksEndpoints(own)[i] = [own[i] EXCEPT !.eps = E(i)]
  BY <1>1, <1>2
<1>4. [own[i] EXCEPT !.eps = E(i)].eps = E(i)
  BY <1>1 DEF Link
<1> QED
  BY <1>3, <1>4 DEF E

\* GetLinksDevice: everything it returns.
LEMMA GetLinksDeviceKeeps ==
    ASSUME LinksIInv, NEW r \in Responses, GetLinksDevice(r)
    PROVE  LinksIInv'
<1> DEFINE own == FilterByDeviceID(PatchEndpoints(r, connAddr, known))
           sent == FilterByDeviceID(r)
           dev == GetResourceLink(own, DeviceHref)
           m == PatchResourceLinksEndpoints(own)
<1>1. r \in Seq(Link)
  BY ResponsesAssumption
<1>2. /\ connAddr # Unset /\ raw' = sent /\ links' = m
      /\ UNCHANGED <<disableUDPEndpoints, known, connAddr, replaced>>
  BY DEF GetLinksDevice
<1>3. known \in Seq(Addressed) /\ connAddr \in Addressed /\ connAddr.scheme \in Schemes /\ (~replaced => \E i \in DOMAIN known : known[i] = connAddr)
  BY <1>2 DEF LinksIInv, KnownAddressed
<1>4. own \in Seq(Link) /\ sent \in Seq(Link) /\ Len(own) = Len(sent)
      /\ \A a \in 1 .. Len(own) : Patched(own[a], sent[a], connAddr, known)
  BY <1>1, <1>3, OwnLinksPatched
<1>m. ~HasLink(own, DeviceHref) => m = own
  BY DEF PatchResourceLinksEndpoints
<1>d. DOMAIN m = DOMAIN own
  BY DEF PatchResourceLinksEndpoints
<1> HIDE DEF own, sent, m
<1>5. DOMAIN own = 1 .. Len(own) /\ DOMAIN sent = 1 .. Len(own) /\ DOMAIN m = 1 .. Len(own) /\ Len(own) \in Nat
  BY <1>4, <1>d
<1>6. \A i \in 1 .. Len(own) : own[i].eps \in Seq(Addressed) /\ own[i].href = sent[i].href
  BY <1>4 DEF Patched
<1>7. HasLink(sent, DeviceHref) =>
        /\ HasLink(own, DeviceHref)
        /\ \E i \in 1 .. Len(own) : GetResourceLink(sent, DeviceHref) = sent[i] /\ dev = own[i]
  BY <1>4, <1>6, GetResourceLinkAlike
<1>8. HasLink(own, DeviceHref) => dev.eps \in Seq(Addressed)
  BY <1>4, <1>6, GetResourceLinkFirst
<1>9. HasLink(own, DeviceHref) => \A i \in 1 .. Len(own) :
        m[i].eps = IF Enabled(own[i].eps) # <<>> THEN Enabled(own[i].eps) ELSE Enabled(dev.eps)
  BY <1>4, PatchResourceLinksEps DEF m
<1> HIDE DEF dev
<1>10. \A i \in 1 .. Len(own) : m[i].eps \in Seq(Addressed)
  <2> TAKE i \in 1 .. Len(own)
  <2>1. CASE HasLink(own, DeviceHref)
    BY <2>1, <1>6, <1>8, <1>9, EnabledKeeps
  <2>2. CASE ~HasLink(own, DeviceHref)
    BY <2>2, <1>6, <1>m
  <2> QED
    BY <2>1, <2>2
\* Over an address that is still one of the device's, the device has endpoints,
\* and secured ones if the address is.
<1>11. ~replaced => Suits(known, connAddr)
  BY <1>3 DEF Suits
<1>12. ~replaced => \A i \in 1 .. Len(own) :
         /\ sent[i].policy # Unset => own[i].eps # <<>>
         /\ own[i].eps # <<>> => Foreign(sent[i]) \/ Reachable(own[i].eps)
  BY <1>4, <1>11 DEF Patched
<1>13. KnownAddressed'
  BY <1>2 DEF LinksIInv, KnownAddressed
<1>14. EveryEndpointHasAddress'
  <2>1. known' # Unset => \A i \in DOMAIN known' : known'[i].scheme # "bad" /\ known'[i].host \in {"ip", "zoned"}
    BY <1>2, <1>3 DEF Addressed
  <2>2. \A i \in DOMAIN m : \A j \in DOMAIN m[i].eps : m[i].eps[j] \in Addressed
    BY <1>5, <1>10
  <2> QED
    BY <1>2, <2>1, <2>2 DEF EveryEndpointHasAddress, Addressed
<1>15. EveryLinkReachable'
  <2> SUFFICES ASSUME ~disableUDPEndpoints, ~replaced, HasLink(sent, DeviceHref),
                      GetResourceLink(sent, DeviceHref).policy # Unset, NEW i \in 1 .. Len(own)
               PROVE  Reachable(m[i].eps) \/ Foreign(sent[i]) \/ Foreign(GetResourceLink(sent, DeviceHref))
    <3>1. EveryLinkReachable' <=>
            (LinksRead' /\ ~disableUDPEndpoints /\ ~replaced /\ HasLink(sent, DeviceHref)
               /\ GetResourceLink(sent, DeviceHref).policy # Unset =>
             \A k \in DOMAIN m :
                Reachable(m[k].eps) \/ Foreign(sent[k]) \/ Foreign(GetResourceLink(sent, DeviceHref)))
      BY <1>2 DEF EveryLinkReachable, HasLink, GetResourceLink, Reachable, Foreign
    <3> QED
      BY <3>1, <1>5
  <2>1. PICK k \in 1 .. Len(own) : GetResourceLink(sent, DeviceHref) = sent[k] /\ dev = own[k]
    BY <1>7
  <2>2. dev.eps # <<>> /\ dev.eps \in Seq(Addressed) /\ (Foreign(sent[k]) \/ Reachable(dev.eps))
    BY <2>1, <1>12, <1>6
  <2>3. Foreign(sent[k]) \/ Reachable(Enabled(dev.eps))
    BY <2>2, EnabledKeeps
  <2>4. Enabled(own[i].eps) # <<>> => Foreign(sent[i]) \/ Reachable(Enabled(own[i].eps))
    BY <1>6, <1>12, EnabledKeeps
  <2> QED
    BY <2>1, <2>3, <2>4, <1>7, <1>9
<1>16. SecuredStaysSecured'
  <2> SUFFICES ASSUME IsSecuredScheme(connAddr.scheme), ~disableUDPEndpoints, ~replaced,
                      NEW i \in 1 .. Len(own), sent[i].eps = <<>>, sent[i].policy # Unset, sent[i].policy.ports = {}
               PROVE  \A j \in DOMAIN m[i].eps : IsSecuredScheme(m[i].eps[j].scheme)
    BY <1>2, <1>5 DEF SecuredStaysSecured, IsSecuredScheme
  <2>1. own[i].eps \in Seq(SecuredEndpoints) /\ own[i].eps # <<>>
    BY <1>4, <1>12 DEF Patched
  <2>2. Enabled(own[i].eps) \in Seq(SecuredEndpoints) /\ Enabled(own[i].eps) # <<>>
    BY <2>1, <1>6, EnabledKeeps
  <2>3. m[i].eps \in Seq(SecuredEndpoints)
    <3>1. CASE HasLink(own, DeviceHref)
      BY <3>1, <2>2, <1>9
    <3>2. CASE ~HasLink(own, DeviceHref)
      BY <3>2, <2>1, <1>m
    <3> QED
      BY <3>1, <3>2
  <2>4. \A j \in DOMAIN m[i].eps : m[i].eps[j] \in SecuredEndpoints
    BY <2>3
  <2> QED
    BY <2>4 DEF SecuredEndpoints
<1>17. NoUDPWhenDisabled'
  <2> SUFFICES ASSUME disableUDPEndpoints, HasLink(sent, DeviceHref), NEW i \in 1 .. Len(own)
               PROVE  \A j \in DOMAIN m[i].eps : m[i].eps[j].scheme \notin {"coap", "coaps"}
    BY <1>2, <1>5 DEF NoUDPWhenDisabled, HasLink
  <2>1. m[i].eps \in Seq(TCPEndpoints)
    BY <1>6, <1>7, <1>8, <1>9, EnabledKeeps
  <2>2. \A j \in DOMAIN m[i].eps : m[i].eps[j] \in TCPEndpoints
    BY <2>1
  <2> QED
    BY <2>2 DEF TCPEndpoints
<1> QED
  BY <1>13, <1>14, <1>15, <1>16, <1>17 DEF LinksIInv, LinksInv

LEMMA LinksStep == LinksIInv /\ [LinksNext]_linkVars => LinksIInv'
<1> SUFFICES ASSUME LinksIInv, [LinksNext]_linkVars PROVE LinksIInv'
  OBVIOUS
<1>1. ASSUME NEW h \in {"ip", "zoned"}, NEW r \in Answers,
             HandleAnswer([scheme |-> "coap", host |-> h, pri |-> 0], r)
      PROVE  LinksIInv'
  <2>1. KnownAddressed' /\ ~LinksRead'
    BY <1>1, HandleAnswerKeeps
  <2> QED
    BY <2>1, NothingReadNext DEF LinksIInv
<1>2. CASE ConnectToEndpoints
  <2>1. KnownAddressed' /\ ~LinksRead'
    BY <1>2, ConnectKeeps
  <2> QED
    BY <2>1, NothingReadNext DEF LinksIInv
<1>3. ASSUME NEW r \in Responses, GetLinksDevice(r) PROVE LinksIInv'
  BY <1>3, GetLinksDeviceKeeps
<1>4. CASE UNCHANGED linkVars
  <2>1. KnownAddressed'
    BY <1>4 DEF linkVars, LinksIInv, KnownAddressed
  <2>2. EveryEndpointHasAddress'
    BY <1>4 DEF linkVars, LinksIInv, LinksInv, EveryEndpointHasAddress, LinksRead
  <2>3. EveryLinkReachable'
    BY <1>4 DEF linkVars, LinksIInv, LinksInv, EveryLinkReachable, LinksRead, HasLink, GetResourceLink,
                Reachable, Foreign
  <2>4. SecuredStaysSecured' /\ NoUDPWhenDisabled'
    BY <1>4 DEF linkVars, LinksIInv, LinksInv, SecuredStaysSecured, NoUDPWhenDisabled, LinksRead, HasLink,
                IsSecuredScheme
  <2> QED
    BY <2>1, <2>2, <2>3, <2>4 DEF LinksIInv, LinksInv
<1> QED
  BY <1>1, <1>2, <1>3, <1>4 DEF LinksNext

\* Whatever devices send and however often their links are patched, for every
\* set of answers: the client never holds an endpoint without an address, every
\* resource of a device that sends its /oic/d link with a policy can be reached
\* unless the device sends endpoints of a foreign scheme, resources without endpoints stay secured over a secured connection,
\* and no UDP endpoint is left where UDP is disabled.
THEOREM LinksInvHolds == LinksSpec => []LinksInv
<1>1. LinksIInv => LinksInv
  BY DEF LinksIInv
<1> QED
  BY <1>1, LinksInitInv, LinksStep, PTL DEF LinksSpec

------------------------------------------------------------------------------
(* GetDevicesDetails: what mergeEndpoints and mergeDevices return           *)

\* In order of priority, and of URI where that is the same.
Before(e, g) == e.pri < g.pri \/ (e.pri = g.pri /\ e.uri < g.uri)

\* Endpoints with the same URI and priority are the same.
LEMMA EpEqual ==
    ASSUME NEW x \in Ep, NEW y \in Ep, x.uri = y.uri, x.pri = y.pri
    PROVE  x = y
<1>1. x = [uri |-> x.uri, pri |-> x.pri] /\ y = [uri |-> y.uri, pri |-> y.pri]
  BY DEF Ep
<1> QED
  BY <1>1

\* The two sorts of mergeEndpoints sort by priority and URI.
LEMMA MergedSort ==
    ASSUME NEW s \in Seq(Ep)
    PROVE  LET t == SortedBy("pri", Ep)[SortedBy("uri", Ep)[s]]
           IN  /\ t \in Seq(Ep) /\ Len(t) = Len(s)
               /\ \A i, j \in 1 .. Len(t) : i < j => Before(t[i], t[j]) \/ t[i] = t[j]
               /\ \A j \in 1 .. Len(s) : \E i \in 1 .. Len(t) : t[i] = s[j]
               /\ \A i \in 1 .. Len(t) : \E j \in 1 .. Len(s) : t[i] = s[j]
<1> DEFINE u == SortedBy("uri", Ep)[s]
           t == SortedBy("pri", Ep)[u]
           n == Len(s)
<1>0. \A x \in Ep : x["uri"] \in Int /\ x["pri"] \in Int
  BY DEF Ep
<1>1. u \in Seq(Ep) /\ Len(u) = n /\ \E p : StableSort(u, p, s, "uri", n)
  BY <1>0, SortsStably
<1> HIDE DEF u
<1>2. t \in Seq(Ep) /\ Len(t) = n /\ \E p : StableSort(t, p, u, "pri", n)
  BY <1>0, <1>1, SortsStably
<1> HIDE DEF t
<1>3. PICK q : StableSort(u, q, s, "uri", n)
  BY <1>1
<1>4. PICK p : StableSort(t, p, u, "pri", n)
  BY <1>2
<1>5. /\ q \in [1 .. n -> 1 .. n] /\ \A j \in 1 .. n : \E a \in 1 .. n : q[a] = j
      /\ \A a \in 1 .. n : u[a] = s[q[a]]
  BY <1>3 DEF StableSort
<1>6. /\ p \in [1 .. n -> 1 .. n] /\ \A j \in 1 .. n : \E a \in 1 .. n : p[a] = j
      /\ \A a \in 1 .. n : t[a] = u[p[a]]
  BY <1>4 DEF StableSort
<1>7. \A a, b \in 1 .. n : a < b => u[a].uri < u[b].uri \/ u[a].uri = u[b].uri
  BY <1>3 DEF StableSort
<1>8. ASSUME NEW i \in 1 .. n, NEW j \in 1 .. n, i < j PROVE Before(t[i], t[j]) \/ t[i] = t[j]
  <2>1. t[i].pri < t[j].pri \/ (t[i].pri = t[j].pri /\ p[i] < p[j])
    BY <1>4, <1>8 DEF StableSort
  <2>2. CASE t[i].pri < t[j].pri
    BY <2>2 DEF Before
  <2>3. CASE t[i].pri = t[j].pri /\ p[i] < p[j]
    <3>1. p[i] \in 1 .. n /\ p[j] \in 1 .. n /\ t[i] = u[p[i]] /\ t[j] = u[p[j]]
      BY <1>6
    <3>2. t[i].uri < t[j].uri \/ t[i].uri = t[j].uri
      BY <3>1, <1>7, <2>3
    <3>3. t[i] \in Ep /\ t[j] \in Ep
      BY <1>2
    <3>4. t[i].uri = t[j].uri => t[i] = t[j]
      BY <3>3, <2>3, EpEqual
    <3> QED
      BY <3>2, <3>4, <2>3 DEF Before
  <2> QED
    BY <2>1, <2>2, <2>3
<1>9. ASSUME NEW j \in 1 .. n PROVE \E i \in 1 .. n : t[i] = s[j]
  <2>1. PICK a \in 1 .. n : q[a] = j
    BY <1>5
  <2>2. PICK i \in 1 .. n : p[i] = a
    BY <1>6
  <2> QED
    BY <2>1, <2>2, <1>5, <1>6
<1>10. ASSUME NEW i \in 1 .. n PROVE \E j \in 1 .. n : t[i] = s[j]
  <2>1. p[i] \in 1 .. n /\ t[i] = u[p[i]]
    BY <1>6
  <2>2. q[p[i]] \in 1 .. n /\ u[p[i]] = s[q[p[i]]]
    BY <2>1, <1>5
  <2> QED
    BY <2>1, <2>2
<1> QED
  BY <1>2, <1>8, <1>9, <1>10 DEF t, u

\* Whatever two lists of endpoints are merged, mergeEndpoints returns endpoints
\* of one of them, strictly in order of priority and URI, so none of them twice,
\* and loses no URI.
THEOREM MergeEndpointsMerges ==
    ASSUME NEW a \in Seq(Ep), NEW b \in Seq(Ep)
    PROVE  LET e == MergeEndpoints(a, b)
           IN  /\ e \in Seq(Ep)
               /\ \A i, j \in 1 .. Len(e) : i < j => Before(e[i], e[j])
               /\ \A i \in 1 .. Len(e) : \E j \in 1 .. Len(a \o b) : e[i] = (a \o b)[j]
               /\ \A j \in 1 .. Len(a \o b) : \E i \in 1 .. Len(e) : e[i].uri = (a \o b)[j].uri
<1> DEFINE s == a \o b
           t == SortedBy("pri", Ep)[SortedBy("uri", Ep)[s]]
           I == {n \in DOMAIN t : n > 1 => t[n - 1].uri # t[n].uri}
           e == Selected(t, I)
<1>0. s \in Seq(Ep)
  OBVIOUS
<1> HIDE DEF s
<1>1. /\ t \in Seq(Ep) /\ Len(t) = Len(s)
      /\ \A i, j \in 1 .. Len(t) : i < j => Before(t[i], t[j]) \/ t[i] = t[j]
      /\ \A j \in 1 .. Len(s) : \E i \in 1 .. Len(t) : t[i] = s[j]
      /\ \A i \in 1 .. Len(t) : \E j \in 1 .. Len(s) : t[i] = s[j]
  BY <1>0, MergedSort
<1> HIDE DEF t
<1>2. MergeEndpoints(a, b) = e
  BY <1>1 DEF MergeEndpoints, Distinct, t, s
<1>3. DOMAIN t = 1 .. Len(t) /\ Len(t) \in Nat /\ I \subseteq 1 .. Len(t)
  BY <1>1
<1>4. \A n \in I : n > 1 => t[n - 1].uri # t[n].uri
  OBVIOUS
<1>5. \A n \in 1 .. Len(t) : n \notin I => n > 1 /\ t[n - 1].uri = t[n].uri
  BY <1>3
<1> HIDE DEF I
<1>6. e \in Seq(Ep) /\ Len(e) \in Nat
  BY <1>1, SelectedPicks
<1>7. PICK f : Picks(f, Len(e), I, Len(t)) /\ \A i \in 1 .. Len(e) : e[i] = t[f[i]]
  <2>1. Alike(t, t, I)
    BY <1>1, SelectedPicks
  <2> QED
    BY <2>1 DEF Alike
<1>8. /\ \A i \in 1 .. Len(e) : f[i] \in I /\ f[i] \in 1 .. Len(t)
      /\ \A i, j \in 1 .. Len(e) : i < j => f[i] < f[j]
      /\ \A n \in I : \E i \in 1 .. Len(e) : f[i] = n
  BY <1>3, <1>7 DEF Picks
<1>9. ASSUME NEW n \in 1 .. Len(t) PROVE t[n].uri \in Nat /\ t[n].pri \in Nat
  <2>1. t[n] \in Ep
    BY <1>1
  <2> QED
    BY <2>1 DEF Ep
<1>10. ASSUME NEW i \in 1 .. Len(e), NEW j \in 1 .. Len(e), i < j PROVE Before(e[i], e[j])
  <2> DEFINE x == f[i]
             y == f[j]
             z == f[j] - 1
  <2>1. x \in 1 .. Len(t) /\ y \in 1 .. Len(t) /\ y \in I /\ x < y /\ e[i] = t[x] /\ e[j] = t[y]
    BY <1>7, <1>8, <1>10
  <2>2. z \in 1 .. Len(t) /\ z < y /\ y > 1 /\ x <= z /\ z = y - 1
    BY <2>1, <1>3
  <2> HIDE DEF x, y, z
  <2>3. t[z].uri # t[y].uri
    BY <2>1, <2>2, <1>4
  <2>4. Before(t[z], t[y])
    <3>1. Before(t[z], t[y]) \/ t[z] = t[y]
      BY <2>1, <2>2, <1>1
    <3> QED
      BY <3>1, <2>3
  <2>5. x = z \/ Before(t[x], t[z]) \/ t[x] = t[z]
    <3>1. x < z \/ x = z
      BY <2>1, <2>2, <1>3
    <3> QED
      BY <3>1, <2>1, <2>2, <1>1
  <2>6. Before(t[x], t[y])
    <3>1. CASE x = z \/ t[x] = t[z]
      BY <3>1, <2>4
    <3>2. CASE Before(t[x], t[z])
      <4>1. /\ t[x].uri \in Nat /\ t[x].pri \in Nat /\ t[y].uri \in Nat /\ t[y].pri \in Nat
            /\ t[z].uri \in Nat /\ t[z].pri \in Nat
        BY <2>1, <2>2, <1>9
      <4> QED
        BY <3>2, <2>4, <4>1 DEF Before
    <3> QED
      BY <2>5, <3>1, <3>2
  <2> QED
    BY <2>1, <2>6
<1>11. ASSUME NEW j \in 1 .. Len(s) PROVE \E i \in 1 .. Len(e) : e[i].uri = s[j].uri
  <2>1. PICK n \in 1 .. Len(t) : t[n] = s[j]
    BY <1>1
  <2> DEFINE U == {k \in 1 .. n : t[k].uri = t[n].uri /\ \A m \in k .. n : t[m].uri = t[n].uri}
  <2>2. n \in U /\ U \subseteq Nat
    BY <1>3
  <2>3. PICK k \in U : \A m \in U : k <= m
    <3> HIDE DEF U
    <3> QED
      BY <2>2, LeastNatural
  <2>4. k \in 1 .. n /\ k \in 1 .. Len(t) /\ t[k].uri = t[n].uri /\ \A m \in k .. n : t[m].uri = t[n].uri
    BY <1>3
  <2>5. k \in I
    <3> SUFFICES ASSUME k \notin I PROVE FALSE
      OBVIOUS
    <3>1. k > 1 /\ t[k - 1].uri = t[k].uri
      BY <2>4, <1>5
    <3>2. k - 1 \in 1 .. n /\ \A m \in k - 1 .. n : m = k - 1 \/ m \in k .. n
      BY <3>1, <2>4, <1>3
    <3>3. \A m \in k - 1 .. n : t[m].uri = t[n].uri
      BY <3>1, <3>2, <2>4
    <3>4. k - 1 \in U
      BY <3>1, <3>2, <3>3, <2>4
    <3>5. k \in Nat /\ ~(k <= k - 1)
      BY <2>4, <1>3
    <3> HIDE DEF U
    <3> QED
      BY <3>4, <3>5, <2>3
  <2>6. PICK i \in 1 .. Len(e) : f[i] = k
    BY <2>5, <1>8
  <2> QED
    BY <2>1, <2>4, <2>6, <1>7
<1>12. ASSUME NEW i \in 1 .. Len(e) PROVE \E j \in 1 .. Len(s) : e[i] = s[j]
  <2>1. f[i] \in 1 .. Len(t) /\ e[i] = t[f[i]]
    BY <1>7, <1>8
  <2> QED
    BY <2>1, <1>1
<1> QED
  BY <1>2, <1>6, <1>10, <1>11, <1>12 DEF s

\* What has become of the map after each of the first n entries.
MergedSoFar(k, list, n) == [i \in 0 .. n |-> IF i = 0 THEN <<>> ELSE MergeDevice(k[i - 1], list[i])]

\* mergeDevices is well defined, however many entries there are.
LEMMA MergeExists ==
    ASSUME NEW n \in Nat, NEW list
    PROVE  \E k : k = MergedSoFar(k, list, n)
<1> DEFINE T == {i \in 0 .. n : \E k : k = MergedSoFar(k, list, i)}
<1>1. 0 \in T
  <2> DEFINE k == [i \in 0 .. 0 |-> <<>>]
  <2>1. k = MergedSoFar(k, list, 0)
    BY DEF MergedSoFar
  <2> QED
    BY <2>1
<1>2. ASSUME NEW i \in 0 .. n, i \in T, i < n PROVE i + 1 \in T
  <2>1. PICK k : k = MergedSoFar(k, list, i)
    BY <1>2
  <2> DEFINE g == [j \in 0 .. i + 1 |-> IF j = i + 1 THEN MergeDevice(k[i], list[j]) ELSE k[j]]
  <2>0. i \in Nat /\ i + 1 \in 0 .. n
    BY <1>2
  <2>2. ASSUME NEW j \in 0 .. i + 1 PROVE g[j] = MergedSoFar(g, list, i + 1)[j]
    <3>1. CASE j = i + 1
      BY <3>1, <2>0 DEF MergedSoFar
    <3>2. CASE j = 0
      BY <3>2, <2>0, <2>1 DEF MergedSoFar
    <3>3. CASE j # 0 /\ j # i + 1
      <4>1. j \in 0 .. i /\ j - 1 \in 0 .. i + 1 /\ j - 1 # i + 1
        BY <3>3, <2>0
      <4>2. g[j] = k[j] /\ g[j - 1] = k[j - 1]
        BY <4>1, <2>0
      <4>3. k[j] = MergeDevice(k[j - 1], list[j])
        BY <2>1, <4>1, <3>3 DEF MergedSoFar
      <4>4. MergedSoFar(g, list, i + 1)[j] = MergeDevice(g[j - 1], list[j])
        BY <3>3 DEF MergedSoFar
      <4> HIDE DEF g
      <4> QED
        BY <4>2, <4>3, <4>4
    <3> QED
      BY <3>1, <3>2, <3>3
  <2>3. DOMAIN g = 0 .. i + 1 /\ DOMAIN MergedSoFar(g, list, i + 1) = 0 .. i + 1
    BY DEF MergedSoFar
  <2>4. MergedSoFar(g, list, i + 1) = [j \in 0 .. i + 1 |-> MergedSoFar(g, list, i + 1)[j]]
    BY DEF MergedSoFar
  <2>5. g = [j \in 0 .. i + 1 |-> g[j]]
    OBVIOUS
  <2> HIDE DEF g
  <2>6. g = MergedSoFar(g, list, i + 1)
    BY <2>2, <2>3, <2>4, <2>5
  <2> QED
    BY <2>6, <2>0
<1> HIDE DEF T
<1>3. n \in T
  BY <1>1, <1>2, SetInduction
<1> QED
  BY <1>3 DEF T

\* MergeDevices merges one entry after the other.
LEMMA MergeDevicesDef ==
    ASSUME NEW list, Len(list) \in Nat
    PROVE  \E k : /\ MergeDevices(list) = k[Len(list)]
                  /\ k[0] = <<>>
                  /\ \A i \in 0 .. Len(list) : i < Len(list) => k[i + 1] = MergeDevice(k[i], list[i + 1])
<1> DEFINE K == CHOOSE k : k = MergedSoFar(k, list, Len(list))
<1>1. K = MergedSoFar(K, list, Len(list))
  BY MergeExists
<1>2. MergeDevices(list) = K[Len(list)]
  BY DEF MergeDevices, MergedSoFar
<1> HIDE DEF K
<1>3. K[0] = <<>>
  BY <1>1 DEF MergedSoFar
<1>4. ASSUME NEW i \in 0 .. Len(list), i < Len(list) PROVE K[i + 1] = MergeDevice(K[i], list[i + 1])
  <2> DEFINE j == i + 1
  <2>1. j \in 0 .. Len(list) /\ j # 0 /\ j - 1 = i
    BY <1>4
  <2>2. K[j] = MergeDevice(K[j - 1], list[j])
    <3> HIDE DEF j
    <3> QED
      BY <1>1, <2>1 DEF MergedSoFar
  <2> QED
    BY <2>1, <2>2
<1> QED
  BY <1>2, <1>3, <1>4

\* An entry that GetDevicesDetails collects.
Owns == {"nil", "me", "other", NoDoxm}
Status == {"unknown", "", "readytobeowned", "owned", "ownedbyother"}
Entry == [id : Devs, own : Owns, status : Status, eps : Seq(Ep)]

NoRepeats(e) == \A i, j \in DOMAIN e : e[i] = e[j] => i = j

\* An entry of the map: ownership and status of an entry of its device, and no
\* endpoint twice if the device has two.
MergedEntry(m, d, list, n) ==
    /\ m \in Entry
    /\ \E j \in 1 .. n : list[j].id = d /\ m.own = list[j].own /\ m.status = list[j].status
    /\ (\E j, l \in 1 .. n : j # l /\ list[j].id = d /\ list[l].id = d) => NoRepeats(m.eps)

\* The map has an entry for each device of the first n entries.
MergedMap(m, list, n) ==
    /\ DOMAIN m = {list[j].id : j \in 1 .. n}
    /\ \A d \in DOMAIN m : MergedEntry(m[d], d, list, n)

\* An entry that is in strict order repeats nothing.
LEMMA MergeNoRepeats ==
    ASSUME NEW a \in Seq(Ep), NEW b \in Seq(Ep)
    PROVE  MergeEndpoints(a, b) \in Seq(Ep) /\ NoRepeats(MergeEndpoints(a, b))
<1> DEFINE e == MergeEndpoints(a, b)
<1>1. e \in Seq(Ep) /\ \A i, j \in 1 .. Len(e) : i < j => Before(e[i], e[j])
  BY MergeEndpointsMerges
<1> HIDE DEF e
<1>2. Len(e) \in Nat /\ DOMAIN e = 1 .. Len(e)
  BY <1>1
<1>3. ASSUME NEW i \in 1 .. Len(e), NEW j \in 1 .. Len(e), i < j PROVE e[i] # e[j]
  <2>1. Before(e[i], e[j]) /\ e[i] \in Ep
    BY <1>1, <1>3
  <2>2. e[i].pri \in Nat /\ e[i].uri \in Nat
    BY <2>1 DEF Ep
  <2> QED
    BY <2>1, <2>2 DEF Before
<1>4. ASSUME NEW i \in 1 .. Len(e), NEW j \in 1 .. Len(e), e[i] = e[j] PROVE i = j
  <2>1. ~(i < j) /\ ~(j < i)
    BY <1>3, <1>4
  <2> QED
    BY <2>1, <1>2
<1>5. NoRepeats(e)
  BY <1>2, <1>4 DEF NoRepeats
<1> QED
  BY <1>1, <1>5 DEF e

\* One more entry joins the map.
LEMMA MergeStep ==
    ASSUME NEW n \in Nat, NEW list, NEW m, MergedMap(m, list, n), list[n + 1] \in Entry
    PROVE  MergedMap(MergeDevice(m, list[n + 1]), list, n + 1)
<1> DEFINE e == list[n + 1]
           u == MergeDevice(m, e)
<1>0. e \in Entry /\ 1 .. n + 1 = (1 .. n) \union {n + 1} /\ n + 1 \notin 1 .. n
  OBVIOUS
<1>1. DOMAIN m = {list[j].id : j \in 1 .. n} /\ \A d \in DOMAIN m : MergedEntry(m[d], d, list, n)
  BY DEF MergedMap
<1>2. {list[j].id : j \in 1 .. n + 1} = DOMAIN m \union {e.id}
  BY <1>0, <1>1
\* Nothing changes for the other devices.
<1>3. ASSUME NEW d \in DOMAIN m, d # e.id PROVE MergedEntry(m[d], d, list, n + 1)
  <2>1. \A j \in 1 .. n + 1 : list[j].id = d => j \in 1 .. n
    BY <1>0, <1>3
  <2>2. MergedEntry(m[d], d, list, n)
    BY <1>1
  <2> QED
    BY <2>1, <2>2, <1>0 DEF MergedEntry
<1>4. CASE e.id \in DOMAIN m
  <2> DEFINE x == [m[e.id] EXCEPT !.eps = MergeEndpoints(m[e.id].eps, e.eps)]
  <2>1. u = [m EXCEPT ![e.id] = x]
    BY <1>4 DEF MergeDevice
  <2>2. MergedEntry(m[e.id], e.id, list, n)
    BY <1>1, <1>4
  <2>3. m[e.id] \in Entry /\ m[e.id].eps \in Seq(Ep) /\ e.eps \in Seq(Ep)
    BY <2>2, <1>0 DEF MergedEntry, Entry
  <2>4. MergeEndpoints(m[e.id].eps, e.eps) \in Seq(Ep) /\ NoRepeats(MergeEndpoints(m[e.id].eps, e.eps))
    BY <2>3, MergeNoRepeats
  <2>5. x \in Entry /\ x.own = m[e.id].own /\ x.status = m[e.id].status /\ NoRepeats(x.eps)
    BY <2>3, <2>4 DEF Entry
  <2> HIDE DEF x
  <2>6. MergedEntry(x, e.id, list, n + 1)
    BY <2>2, <2>5, <1>0 DEF MergedEntry
  <2>7. DOMAIN u = DOMAIN m /\ u[e.id] = x /\ \A d \in DOMAIN m : d # e.id => u[d] = m[d]
    BY <2>1, <1>4
  <2> HIDE DEF u, e
  <2>8. \A d \in DOMAIN u : MergedEntry(u[d], d, list, n + 1)
    BY <2>6, <2>7, <1>3
  <2>9. DOMAIN u = {list[j].id : j \in 1 .. n + 1}
    BY <2>7, <1>2, <1>4
  <2> QED
    BY <2>8, <2>9 DEF MergedMap, u, e
<1>5. CASE e.id \notin DOMAIN m
  <2>1. u = [d \in DOMAIN m \union {e.id} |-> IF d = e.id THEN e ELSE m[d]]
    BY <1>5 DEF MergeDevice
  <2>2. \A j \in 1 .. n : list[j].id # e.id
    BY <1>1, <1>5
  <2>3. MergedEntry(e, e.id, list, n + 1)
    BY <2>2, <1>0 DEF MergedEntry
  <2>7. DOMAIN u = DOMAIN m \union {e.id} /\ u[e.id] = e /\ \A d \in DOMAIN m : d # e.id => u[d] = m[d]
    BY <2>1, <1>5
  <2> HIDE DEF u, e
  <2>8. \A d \in DOMAIN u : MergedEntry(u[d], d, list, n + 1)
    BY <2>3, <2>7, <1>3
  <2>9. DOMAIN u = {list[j].id : j \in 1 .. n + 1}
    BY <2>7, <1>2
  <2> QED
    BY <2>8, <2>9 DEF MergedMap, u, e
<1> QED
  BY <1>4, <1>5

LEMMA MergeDevicesMerges ==
    ASSUME NEW list \in Seq(Entry)
    PROVE  MergedMap(MergeDevices(list), list, Len(list))
<1> DEFINE n == Len(list)
<1>n. n \in Nat
  OBVIOUS
<1>k. PICK k : /\ MergeDevices(list) = k[n] /\ k[0] = <<>>
               /\ \A i \in 0 .. n : i < n => k[i + 1] = MergeDevice(k[i], list[i + 1])
  BY MergeDevicesDef
<1> DEFINE T == {i \in 0 .. n : MergedMap(k[i], list, i)}
<1>1. 0 \in T
  <2>1. MergedMap(<<>>, list, 0)
    BY DEF MergedMap
  <2> QED
    BY <2>1, <1>k, <1>n
<1>2. ASSUME NEW i \in 0 .. n, i \in T, i < n PROVE i + 1 \in T
  <2>0. i \in Nat /\ i + 1 \in 0 .. n /\ list[i + 1] \in Entry
    BY <1>2, <1>n
  <2>1. MergedMap(k[i], list, i) /\ k[i + 1] = MergeDevice(k[i], list[i + 1])
    BY <1>2, <1>k
  <2>2. MergedMap(k[i + 1], list, i + 1)
    BY <2>0, <2>1, MergeStep
  <2> QED
    BY <2>0, <2>2
<1>3. n \in T
  <2>1. \A i \in 0 .. n : i \in T /\ i < n => i + 1 \in T
    BY <1>2
  <2>2. n \in 0 .. n
    BY <1>n
  <2> HIDE DEF T, n
  <2> QED
    BY <1>1, <2>1, <2>2, <1>n, SetInduction
<1> QED
  BY <1>3, <1>k

------------------------------------------------------------------------------
(* GetDevicesDetails: what it returns                                       *)

\* The statuses that a device had during the call.
Statuses(d) == {StatusOf(o) : o \in had[d]}

OwnerIsKnown ==
    /\ owner \in [Devs -> Owners] /\ had \in [Devs -> SUBSET Owners]
    /\ \A d \in Devs : owner[d] \in had[d]

\* What getDetails has stored is from during the call.
OwnershipsAreTrue ==
    /\ DOMAIN resOwnerships = Devs
    /\ \A d \in Devs : resOwnerships[d] # NoDoxm => StatusOf(resOwnerships[d]) \in Statuses(d)

\* So is what a goroutine has read, that reads an ownership once, and by IP.
DraftIsTrue(t) ==
    /\ draft[t] \in [own : Owns, status : Status]
    /\ draft[t].own # NoDoxm =>
          /\ draft[t].status \in Statuses(t[1])
          /\ t[2] = "ip" /\ reader[t] \in {"append", "done"}

DraftsAreTrue ==
    /\ DOMAIN draft = Tasks
    /\ \A t \in Tasks : DraftIsTrue(t)

\* And what it has appended.
ResIsTrue ==
    /\ res \in Seq(Entry)
    /\ \A k \in DOMAIN res : res[k].own # NoDoxm => res[k].status \in Statuses(res[k].id)

\* Nobody reads before the call.
IdleReads == dpc = "idle" => \A t \in Tasks : reader[t] = "none"

DetailsTrue == OwnerIsKnown /\ OwnershipsAreTrue /\ DraftsAreTrue /\ ResIsTrue /\ IdleReads

LEMMA StatusIsOne ==
    ASSUME NEW o
    PROVE  StatusOf(o) \in Status
  BY DEF StatusOf, Status

LEMMA DetailsTrueInit == DetailsInit => DetailsTrue
<1> SUFFICES ASSUME DetailsInit PROVE DetailsTrue
  OBVIOUS
<1>0. OwnerIsKnown
  <2>1. owner \in [Devs -> Owners] /\ had = [d \in Devs |-> {owner[d]}]
    BY DEF DetailsInit
  <2>2. \A d \in Devs : {owner[d]} \subseteq Owners
    BY <2>1
  <2> QED
    BY <2>1, <2>2 DEF OwnerIsKnown
<1>1. OwnershipsAreTrue /\ ResIsTrue /\ IdleReads
  BY DEF DetailsInit, OwnershipsAreTrue, ResIsTrue, IdleReads
<1>2. DraftsAreTrue
  BY DEF DetailsInit, DraftsAreTrue, DraftIsTrue, Blank, Owns, Status
<1> QED
  BY <1>0, <1>1, <1>2 DEF DetailsTrue

\* What is read of an ownership is what the device has just then.
LEMMA ReadsAreTrue ==
    ASSUME DetailsTrue, NEW d \in Devs, NEW o \in Reads(d), o # NoDoxm
    PROVE  StatusOf(o) \in Statuses(d) /\ (IF o = "refused" THEN NoDoxm ELSE o) \in Owns
<1>1. owner[d] \in {"nil", "me", "other"} /\ owner[d] \in had[d]
  BY DEF DetailsTrue, OwnerIsKnown, Owners
<1>2. CASE o = owner[d]
  BY <1>1, <1>2 DEF Statuses, Owns
<1>3. CASE o = "refused" /\ owner[d] = "other"
  <2>1. StatusOf("refused") = StatusOf("other")
    BY DEF StatusOf
  <2> QED
    BY <1>1, <1>3, <2>1 DEF Statuses, Owns
<1> QED
  BY <1>2, <1>3 DEF Reads

LEMMA TrueGetDetails ==
    ASSUME DetailsInv, DetailsTrue, NEW t \in Tasks, GetDetails(t)
    PROVE  DetailsTrue'
<1>1. /\ UNCHANGED <<dpc, draft, resOwnerships, res, owner, had>> /\ reader[t] = "links"
      /\ \A x \in Tasks : x # t => reader'[x] = reader[x]
  BY DEF GetDetails, Goto, DetailsInv, DetailsTypes
<1>2. \A d : Statuses(d)' = Statuses(d)
  BY <1>1 DEF Statuses
<1>3. OwnerIsKnown' /\ OwnershipsAreTrue' /\ ResIsTrue'
  BY <1>1, <1>2 DEF DetailsTrue, OwnerIsKnown, OwnershipsAreTrue, ResIsTrue
<1>4. ASSUME NEW x \in Tasks PROVE DraftIsTrue(x)'
  <2>1. DraftIsTrue(x)
    BY DEF DetailsTrue, DraftsAreTrue
  <2> QED
    BY <2>1, <1>1, <1>2 DEF DraftIsTrue
<1>5. DraftsAreTrue'
  BY <1>1, <1>4 DEF DetailsTrue, DraftsAreTrue
<1>6. IdleReads'
  BY <1>1 DEF DetailsTrue, IdleReads
<1> QED
  BY <1>3, <1>5, <1>6 DEF DetailsTrue

LEMMA TrueGetOwnership ==
    ASSUME DetailsInv, DetailsTrue, NEW t \in Tasks, GetOwnership(t)
    PROVE  DetailsTrue'
<1>0. t[1] \in Devs
  BY DEF Tasks
<1>1. /\ UNCHANGED <<dpc, draft, res, owner, had>> /\ reader[t] = "doxm"
      /\ \A x \in Tasks : x # t => reader'[x] = reader[x]
  BY DEF GetOwnership, Goto, DetailsInv, DetailsTypes
<1>2. \A d : Statuses(d)' = Statuses(d)
  BY <1>1 DEF Statuses
<1>3. OwnerIsKnown' /\ ResIsTrue'
  BY <1>1, <1>2 DEF DetailsTrue, OwnerIsKnown, ResIsTrue
<1>4. ASSUME NEW x \in Tasks PROVE DraftIsTrue(x)'
  <2>1. DraftIsTrue(x)
    BY DEF DetailsTrue, DraftsAreTrue
  <2> QED
    BY <2>1, <1>1, <1>2 DEF DraftIsTrue
<1>5. DraftsAreTrue'
  BY <1>1, <1>4 DEF DetailsTrue, DraftsAreTrue
<1>6. PICK o \in Reads(t[1]) : resOwnerships' = Got(t[1], o)
  BY DEF GetOwnership
<1>7. o # NoDoxm => StatusOf(o) \in Statuses(t[1])
  BY <1>0, ReadsAreTrue
<1>8. /\ DOMAIN resOwnerships' = Devs
      /\ resOwnerships'[t[1]] = IF o = NoDoxm THEN resOwnerships[t[1]] ELSE o
      /\ \A d \in Devs : d # t[1] => resOwnerships'[d] = resOwnerships[d]
  BY <1>0, <1>6 DEF Got, DetailsTrue, OwnershipsAreTrue
<1>9. OwnershipsAreTrue'
  BY <1>0, <1>2, <1>7, <1>8 DEF DetailsTrue, OwnershipsAreTrue
<1>10. IdleReads'
  BY <1>1 DEF DetailsTrue, IdleReads
<1> QED
  BY <1>3, <1>5, <1>9, <1>10 DEF DetailsTrue

LEMMA TrueGetDeviceDetails ==
    ASSUME DetailsInv, DetailsTrue, NEW t \in Tasks, GetDeviceDetails(t)
    PROVE  DetailsTrue'
<1>0. t[1] \in Devs /\ t[2] \in {"multicast", "ip"}
  BY DEF Tasks
<1>1. /\ UNCHANGED <<dpc, resOwnerships, res, owner, had>> /\ reader[t] = "details"
      /\ reader'[t] = "append" /\ \A x \in Tasks : x # t => reader'[x] = reader[x]
  BY DEF GetDeviceDetails, Goto, DetailsInv, DetailsTypes
<1>2. \A d : Statuses(d)' = Statuses(d)
  BY <1>1 DEF Statuses
<1>3. OwnerIsKnown' /\ OwnershipsAreTrue' /\ ResIsTrue'
  BY <1>1, <1>2 DEF DetailsTrue, OwnerIsKnown, OwnershipsAreTrue, ResIsTrue
<1>4. DraftIsTrue(t) /\ DOMAIN draft = Tasks
  BY DEF DetailsTrue, DraftsAreTrue
<1>5. draft[t] \in [own : Owns, status : Status] /\ draft[t].own = NoDoxm
  BY <1>1, <1>4 DEF DraftIsTrue
<1>6. DOMAIN draft' = Tasks /\ \A x \in Tasks : x # t => draft'[x] = draft[x]
  BY <1>4 DEF GetDeviceDetails
<1>7. IdleReads'
  BY <1>1 DEF DetailsTrue, IdleReads
<1>8. DraftIsTrue(t)'
  <2>1. CASE t[2] = "multicast"
    <3>1. draft' = draft
      BY <2>1 DEF GetDeviceDetails
    <3> QED
      BY <3>1, <1>5 DEF DraftIsTrue
  <2>2. CASE t[2] = "ip"
    <3>1. PICK o \in (IF t[1] \in Secured THEN Reads(t[1]) ELSE {NoDoxm}) :
             draft' = [draft EXCEPT ![t] = IF o = NoDoxm THEN [@ EXCEPT !.status = ""] ELSE SetOwnership(@, o)]
      BY <2>2 DEF GetDeviceDetails
    <3>2. CASE o = NoDoxm
      <4>1. draft'[t] = [draft[t] EXCEPT !.status = ""]
        BY <3>1, <3>2, <1>4
      <4>2. draft'[t] \in [own : Owns, status : Status] /\ draft'[t].own = NoDoxm
        BY <4>1, <1>5 DEF Status
      <4> QED
        BY <4>2 DEF DraftIsTrue
    <3>3. CASE o # NoDoxm
      <4>1. o \in Reads(t[1])
        BY <3>1, <3>3
      <4>2. StatusOf(o) \in Statuses(t[1]) /\ (IF o = "refused" THEN NoDoxm ELSE o) \in Owns
        BY <1>0, <3>3, <4>1, ReadsAreTrue
      <4>3. draft'[t] = [draft[t] EXCEPT !.own = IF o = "refused" THEN NoDoxm ELSE o, !.status = StatusOf(o)]
        BY <3>1, <3>3, <1>4, <1>5 DEF SetOwnership
      <4>4. draft'[t] \in [own : Owns, status : Status] /\ draft'[t].status = StatusOf(o)
        BY <4>2, <4>3, <1>5, StatusIsOne
      <4> QED
        BY <4>2, <4>4, <2>2, <1>1, <1>2 DEF DraftIsTrue
    <3> QED
      BY <3>2, <3>3
  <2> QED
    BY <2>1, <2>2, <1>0
<1>9. ASSUME NEW x \in Tasks, x # t PROVE DraftIsTrue(x)'
  <2>1. DraftIsTrue(x)
    BY DEF DetailsTrue, DraftsAreTrue
  <2> QED
    BY <2>1, <1>1, <1>2, <1>6, <1>9 DEF DraftIsTrue
<1>10. DraftsAreTrue'
  BY <1>6, <1>8, <1>9 DEF DraftsAreTrue
<1> QED
  BY <1>3, <1>7, <1>10 DEF DetailsTrue

LEMMA TrueAppendDevice ==
    ASSUME DetailsInv, DetailsTrue, NEW t \in Tasks, AppendDevice(t)
    PROVE  DetailsTrue'
<1>0. t[1] \in Devs
  BY DEF Tasks
<1>1. /\ UNCHANGED <<dpc, draft, resOwnerships, owner, had>> /\ reader[t] = "append"
      /\ reader'[t] = "done" /\ \A x \in Tasks : x # t => reader'[x] = reader[x]
  BY DEF AppendDevice, Goto, DetailsInv, DetailsTypes
<1>2. \A d : Statuses(d)' = Statuses(d)
  BY <1>1 DEF Statuses
<1>3. OwnerIsKnown' /\ OwnershipsAreTrue' /\ IdleReads'
  BY <1>1, <1>2 DEF DetailsTrue, OwnerIsKnown, OwnershipsAreTrue, IdleReads
<1>4. ASSUME NEW x \in Tasks PROVE DraftIsTrue(x)'
  <2>1. DraftIsTrue(x)
    BY DEF DetailsTrue, DraftsAreTrue
  <2> QED
    BY <2>1, <1>1, <1>2 DEF DraftIsTrue
<1>5. DraftsAreTrue'
  BY <1>1, <1>4 DEF DetailsTrue, DraftsAreTrue
<1>6. PICK e \in EpLists :
         res' = Append(res, [id |-> t[1], own |-> draft[t].own, status |-> draft[t].status, eps |-> e])
  BY DEF AppendDevice
<1> DEFINE n == [id |-> t[1], own |-> draft[t].own, status |-> draft[t].status, eps |-> e]
<1>7. DraftIsTrue(t) /\ e \in Seq(Ep)
  BY EpListsAssumption DEF DetailsTrue, DraftsAreTrue
<1>8. n \in Entry /\ (n.own # NoDoxm => n.status \in Statuses(n.id))
  BY <1>0, <1>7 DEF Entry, DraftIsTrue
<1> HIDE DEF n
<1>9. ResIsTrue'
  <2>1. res' = Append(res, n) /\ res \in Seq(Entry)
    BY <1>6 DEF DetailsTrue, ResIsTrue, n
  <2>2. res' \in Seq(Entry)
    BY <2>1, <1>8
  <2>3. ASSUME NEW k \in DOMAIN res' PROVE res'[k] = n \/ (k \in DOMAIN res /\ res'[k] = res[k])
    BY <2>1, <2>3
  <2>4. \A k \in DOMAIN res : res[k].own # NoDoxm => res[k].status \in Statuses(res[k].id)
    BY DEF DetailsTrue, ResIsTrue
  <2>5. ASSUME NEW k \in DOMAIN res', res'[k].own # NoDoxm PROVE res'[k].status \in Statuses(res'[k].id)
    BY <2>3, <2>4, <2>5, <1>8
  <2> QED
    BY <2>2, <2>5, <1>2 DEF ResIsTrue
<1> QED
  BY <1>3, <1>5, <1>9 DEF DetailsTrue

\* A device gets another owner: what it had stays what it had.
LEMMA TrueChangeOwner ==
    ASSUME DetailsTrue, NEW d \in Devs, NEW o \in Owners, ChangeOwner(d, o)
    PROVE  DetailsTrue'
<1>1. /\ UNCHANGED <<dpc, reader, draft, resOwnerships, res>>
      /\ owner' = [owner EXCEPT ![d] = o] /\ had' = [had EXCEPT ![d] = @ \union {o}]
  BY DEF ChangeOwner, readVars
<1>2. OwnerIsKnown'
  BY <1>1 DEF DetailsTrue, OwnerIsKnown
<1>3. \A x \in Devs : had[x] \subseteq had'[x]
  BY <1>1 DEF DetailsTrue, OwnerIsKnown
<1>4. \A x \in Devs : Statuses(x) \subseteq Statuses(x)'
  BY <1>3 DEF Statuses
<1>5. OwnershipsAreTrue' /\ IdleReads'
  BY <1>1, <1>4 DEF DetailsTrue, OwnershipsAreTrue, IdleReads
<1>6. ASSUME NEW t \in Tasks PROVE DraftIsTrue(t)'
  <2>1. DraftIsTrue(t) /\ t[1] \in Devs
    BY DEF DetailsTrue, DraftsAreTrue, Tasks
  <2> QED
    BY <2>1, <1>1, <1>4 DEF DraftIsTrue
<1>7. DraftsAreTrue'
  BY <1>1, <1>6 DEF DetailsTrue, DraftsAreTrue
<1>8. ResIsTrue'
  <2>1. res \in Seq(Entry) /\ \A k \in DOMAIN res : res[k].id \in Devs
    <3>1. res \in Seq(Entry)
      BY DEF DetailsTrue, ResIsTrue
    <3>2. \A k \in DOMAIN res : res[k] \in Entry
      BY <3>1
    <3> QED
      BY <3>1, <3>2 DEF Entry
  <2> QED
    BY <2>1, <1>1, <1>4 DEF DetailsTrue, ResIsTrue
<1> QED
  BY <1>2, <1>5, <1>7, <1>8 DEF DetailsTrue

\* The call begins, and devices answer: new goroutines have read nothing.
LEMMA TrueReaders ==
    ASSUME DetailsInv, DetailsTrue,
           GetDevicesDetails \/ \E c \in Conns, d \in Devs : HandleResponse(c, d)
    PROVE  DetailsTrue'
<1>1. UNCHANGED <<draft, resOwnerships, res, owner, had>>
  BY DEF GetDevicesDetails, HandleResponse
<1>2. \A d : Statuses(d)' = Statuses(d)
  BY <1>1 DEF Statuses
<1>3. OwnerIsKnown' /\ OwnershipsAreTrue' /\ ResIsTrue'
  BY <1>1, <1>2 DEF DetailsTrue, OwnerIsKnown, OwnershipsAreTrue, ResIsTrue
<1>4. IdleReads' /\ \A t \in Tasks : t[2] = "ip" /\ reader[t] \in {"append", "done"} => reader'[t] = reader[t]
  <2>1. CASE GetDevicesDetails
    <3>1. dpc = "idle" /\ dpc' = "dial"
      BY <2>1 DEF GetDevicesDetails
    <3>2. \A t \in Tasks : reader[t] = "none"
      BY <3>1 DEF DetailsTrue, IdleReads
    <3> QED
      BY <3>1, <3>2 DEF IdleReads
  <2>2. ASSUME NEW c \in Conns, NEW d \in Devs, HandleResponse(c, d)
        PROVE  IdleReads' /\ \A t \in Tasks : t[2] = "ip" /\ reader[t] \in {"append", "done"} => reader'[t] = reader[t]
    <3>1. dpc # "idle" /\ dpc' = dpc
      BY <2>2 DEF HandleResponse, DetailsInv, SocketsInTime
    <3>2. reader' = [reader EXCEPT ![<<d, "multicast">>] = "links"]
      BY <2>2 DEF HandleResponse
    <3>3. \A t \in Tasks : t[2] = "ip" => t # <<d, "multicast">>
      OBVIOUS
    <3>4. \A t \in Tasks : t[2] = "ip" => reader'[t] = reader[t]
      BY <3>2, <3>3 DEF DetailsInv, DetailsTypes
    <3> QED
      BY <3>1, <3>4 DEF IdleReads
  <2> QED
    BY <2>1, <2>2
<1>5. ASSUME NEW t \in Tasks PROVE DraftIsTrue(t)'
  <2>1. DraftIsTrue(t)
    BY DEF DetailsTrue, DraftsAreTrue
  <2> QED
    BY <2>1, <1>1, <1>2, <1>4 DEF DraftIsTrue
<1>6. DraftsAreTrue'
  BY <1>1, <1>5 DEF DetailsTrue, DraftsAreTrue
<1> QED
  BY <1>3, <1>4, <1>6 DEF DetailsTrue

\* The other steps read no device.
LEMMA TrueOthers ==
    ASSUME DetailsTrue, UNCHANGED <<readVars, owner, had>>, dpc' = "idle" => dpc = "idle"
    PROVE  DetailsTrue'
<1>1. UNCHANGED <<reader, draft, resOwnerships, res, owner, had>>
  BY DEF readVars
<1>2. \A d : Statuses(d)' = Statuses(d)
  BY <1>1 DEF Statuses
<1>3. OwnerIsKnown' /\ OwnershipsAreTrue' /\ ResIsTrue' /\ IdleReads'
  BY <1>1, <1>2 DEF DetailsTrue, OwnerIsKnown, OwnershipsAreTrue, ResIsTrue, IdleReads
<1>4. ASSUME NEW t \in Tasks PROVE DraftIsTrue(t)'
  <2>1. DraftIsTrue(t)
    BY DEF DetailsTrue, DraftsAreTrue
  <2> QED
    BY <2>1, <1>1, <1>2 DEF DraftIsTrue
<1>5. DraftsAreTrue'
  BY <1>1, <1>4 DEF DetailsTrue, DraftsAreTrue
<1> QED
  BY <1>3, <1>5 DEF DetailsTrue

LEMMA DetailsTrueStep == DetailsInv /\ DetailsTrue /\ [DetailsNext]_detailsVars => DetailsTrue'
<1> SUFFICES ASSUME DetailsInv, DetailsTrue, [DetailsNext]_detailsVars PROVE DetailsTrue'
  OBVIOUS
<1>1. CASE UNCHANGED detailsVars
  BY <1>1, TrueOthers DEF detailsVars
<1>2. CASE Deadline \/ Main
  <2>1. UNCHANGED <<readVars, owner, had>> /\ (dpc' = "idle" => dpc = "idle")
    BY <1>2 DEF Deadline, Main, DialDiscoveryAddresses, Discover, SelectDone, WaitDiscovery, CloseConns, ReturnDevices
  <2> QED
    BY <2>1, TrueOthers
<1>3. ASSUME NEW c \in Conns, RunStep(c) PROVE DetailsTrue'
  <2>1. UNCHANGED <<readVars, owner, had>> /\ (dpc' = "idle" => dpc = "idle")
    BY <1>3 DEF RunStep, Build, Publish, RunDone, SelectError, Runs
  <2> QED
    BY <2>1, TrueOthers
<1>4. ASSUME NEW t \in Tasks, Read(t) PROVE DetailsTrue'
  <2>1. CASE PanicByIP(t)
    <3>1. UNCHANGED <<readVars, owner, had>> /\ (dpc' = "idle" => dpc = "idle")
      BY <2>1 DEF PanicByIP
    <3> QED
      BY <3>1, TrueOthers
  <2> QED
    BY <1>4, <2>1, TrueGetDetails, TrueGetOwnership, TrueGetDeviceDetails, TrueAppendDevice DEF Read
<1> QED
  BY <1>1, <1>2, <1>3, <1>4, TrueReaders, TrueChangeOwner DEF DetailsNext

\* What is returned of a device.
LEMMA ReturnIsTrue ==
    ASSUME DetailsTrue, NEW m, m = MergeDevices(res), NEW d \in DOMAIN m, NEW r,
           r = IF resOwnerships[d] = NoDoxm THEN m[d] ELSE SetOwnership(m[d], resOwnerships[d])
    PROVE  /\ resOwnerships[d] # NoDoxm => r.status \in Statuses(d)
           /\ (\E k, l \in DOMAIN res : k # l /\ res[k].id = d /\ res[l].id = d) => NoRepeats(r.eps)
<1>1. res \in Seq(Entry) /\ DOMAIN res = 1 .. Len(res)
  BY DEF DetailsTrue, ResIsTrue
<1>2. MergedMap(m, res, Len(res))
  BY <1>1, MergeDevicesMerges
<1>3. MergedEntry(m[d], d, res, Len(res))
  BY <1>2 DEF MergedMap
<1>4. PICK j \in 1 .. Len(res) : res[j].id = d /\ m[d].own = res[j].own /\ m[d].status = res[j].status
  BY <1>3 DEF MergedEntry
<1>5. res[j] \in Entry /\ (res[j].own # NoDoxm => res[j].status \in Statuses(d))
  BY <1>1, <1>4 DEF DetailsTrue, ResIsTrue
<1>6. d \in Devs /\ m[d] \in Entry
  BY <1>3, <1>4, <1>5 DEF MergedEntry, Entry
<1>7. r.eps = m[d].eps
  BY <1>6 DEF SetOwnership, Entry
<1>8. (\E k, l \in DOMAIN res : k # l /\ res[k].id = d /\ res[l].id = d) => NoRepeats(r.eps)
  BY <1>1, <1>3, <1>7 DEF MergedEntry
<1>9. ASSUME resOwnerships[d] # NoDoxm PROVE r.status \in Statuses(d)
  <2>1. StatusOf(resOwnerships[d]) \in Statuses(d)
    BY <1>6, <1>9 DEF DetailsTrue, OwnershipsAreTrue
  <2>2. CASE m[d].own # NoDoxm
    BY <2>2, <1>4, <1>5, <1>9 DEF SetOwnership
  <2>3. CASE m[d].own = NoDoxm
    <3>1. r.status = StatusOf(resOwnerships[d])
      BY <2>3, <1>6, <1>9 DEF SetOwnership, Entry
    <3> QED
      BY <3>1, <2>1
  <2> QED
    BY <2>2, <2>3
<1> QED
  BY <1>8, <1>9

\* A device whose ownership could be read, by whichever goroutine, is returned
\* by GetDevicesDetails with a status that it had during the call, no endpoint
\* is returned twice for a device that was found in two ways, and every device
\* that was read is returned.
THEOREM ResultIsTrueHolds == DetailsSpec => ResultIsTrue
<1> DEFINE A == dpc # "returned" /\ dpc' = "returned" /\ ~err' =>
       /\ DOMAIN result' = {res[k].id : k \in DOMAIN res}
       /\ \A d \in DOMAIN result' :
             LET e == result'[d].eps
             IN  /\ resOwnerships[d] # NoDoxm => result'[d].status \in {StatusOf(o) : o \in had[d]}
                 /\ (\E k, l \in DOMAIN res : k # l /\ res[k].id = d /\ res[l].id = d) =>
                       \A i, j \in DOMAIN e : e[i] = e[j] => i = j
<1>1. ASSUME DetailsInv, DetailsTrue, [DetailsNext]_detailsVars PROVE [A]_detailsVars
  <2> SUFFICES ASSUME dpc # "returned", dpc' = "returned", ~err', DetailsNext
               PROVE  /\ DOMAIN result' = {res[k].id : k \in DOMAIN res}
                      /\ \A d \in DOMAIN result' :
                            /\ resOwnerships[d] # NoDoxm => result'[d].status \in Statuses(d)
                            /\ (\E k, l \in DOMAIN res : k # l /\ res[k].id = d /\ res[l].id = d) =>
                                  NoRepeats(result'[d].eps)
    BY <1>1 DEF Statuses, NoRepeats
  <2>1. ReturnDevices
    <3>1. \A t \in Tasks : ~Read(t)
      BY DEF Read, GetDetails, PanicByIP, GetOwnership, GetDeviceDetails, AppendDevice
    <3>2. \A c \in Conns : ~RunStep(c) /\ \A d \in Devs : ~HandleResponse(c, d)
      BY DEF RunStep, Build, Publish, RunDone, SelectError, Runs, HandleResponse
    <3>3. ~GetDevicesDetails /\ ~Deadline /\ \A d \in Devs, o \in Owners : ~ChangeOwner(d, o)
      BY DEF GetDevicesDetails, Deadline, ChangeOwner
    <3>4. ~DialDiscoveryAddresses /\ ~Discover /\ ~SelectDone /\ ~WaitDiscovery /\ ~CloseConns
      BY DEF DialDiscoveryAddresses, Discover, SelectDone, WaitDiscovery, CloseConns
    <3> QED
      BY <3>1, <3>2, <3>3, <3>4 DEF DetailsNext, Main
  <2> DEFINE m == MergeDevices(res)
  <2>2. result' = [d \in DOMAIN m |->
                     IF resOwnerships[d] = NoDoxm THEN m[d] ELSE SetOwnership(m[d], resOwnerships[d])]
    BY <2>1 DEF ReturnDevices
  <2>3. res \in Seq(Entry) /\ DOMAIN res = 1 .. Len(res)
    BY <1>1 DEF DetailsTrue, ResIsTrue
  <2>4. DOMAIN m = {res[k].id : k \in DOMAIN res}
    BY <2>3, MergeDevicesMerges DEF MergedMap
  <2> HIDE DEF m
  <2>5. ASSUME NEW d \in DOMAIN m
        PROVE  /\ resOwnerships[d] # NoDoxm => result'[d].status \in Statuses(d)
               /\ (\E k, l \in DOMAIN res : k # l /\ res[k].id = d /\ res[l].id = d) => NoRepeats(result'[d].eps)
    BY <1>1, <2>2, ReturnIsTrue DEF m
  <2> QED
    BY <2>2, <2>4, <2>5
<1>2. DetailsSpec => [][A]_detailsVars
  <2> HIDE DEF A
  <2> QED
    BY <1>1, DetailsInvInit, DetailsStep, DetailsTrueInit, DetailsTrueStep, PTL DEF DetailsSpec
<1> QED
  BY <1>2, PTL DEF ResultIsTrue
==============================================================================
