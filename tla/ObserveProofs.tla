--------------------------- MODULE ObserveProofs ---------------------------
(***************************************************************************)
(* Proofs about ObserveResource, for every number of subscribers and       *)
(* changes.  The invariant says who holds the mutex of a handler (MyInv),  *)
(* who is in a handler (MemberInv), that a handler which is not observed   *)
(* yet has nothing to end (EarlyInv), that one which has lost its          *)
(* observation is about to tell its creator (DyingInv), that messages are  *)
(* given in their order (OrderInv), and that an observation whose handler  *)
(* has left the cache is being cancelled (LeakInv).                        *)
(***************************************************************************)
EXTENDS ObserveResource, TLAPS

(* The inductive invariant                                                  *)

Early == {"new", "wait", "read", "store"}
Creating == {"connect", "observe", "register", "publish"}
Holding == {"read", "store"} \union Creating
Settled == {"observing", "cancel", "stopped", "failed"}

\* The handler of a subscriber has been created, and its mutex is held by the
\* subscriber that is creating or joining it.
MyInv ==
    /\ cache # None => my[cache] = cache
    /\ \A s \in Subs :
        /\ at[s] = "new" <=> my[s] = None
        /\ at[s] = "wait" => my[s] # s
        /\ at[s] \in Creating \union {"failed"} => my[s] = s
        /\ my[s] # None => my[my[s]] = my[s]
        /\ at[s] \in Holding => lock[my[s]] = s

\* A subscriber is in its own handler, from the time it is stored until it
\* leaves or is told of the end; nobody joins before the creator has returned.
MemberInv ==
    \A s \in Subs :
        /\ at[s] \in Early => told[s] = 0
        /\ at[s] \in Creating \union {"observing"} /\ told[s] = 0 => s \in observations[my[s]]
        /\ \A h \in Subs :
            s \in observations[h] =>
                /\ my[s] = h /\ told[s] = 0 /\ at[s] \notin Early
                /\ s # h => at[h] \in Settled

\* A handler without an observation has nothing that could end.
Pristine(h) ==
    ~active[h] /\ ~isClosed[h] /\ ~known[h] /\ ~closing[h] /\ device[h] = "nil" /\ run[h] = "idle"

EarlyInv ==
    \A h \in Subs :
        /\ my[h] # h \/ at[h] \in Early \union {"connect"} =>
               Pristine(h) /\ ~hook[h] /\ conn[h] = "open"
        /\ at[h] = "observe" /\ conn[h] = "open" => Pristine(h) /\ told[h] = 0
        /\ at[h] \in {"observe", "failed"} /\ my[h] = h => ~active[h] /\ ~known[h] /\ device[h] = "nil"
        /\ at[h] \in Creating => device[h] = "nil"
        /\ at[h] = "connect" => told[h] = 0
        /\ my[h] = h /\ at[h] \in {"observing", "cancel", "stopped"} => device[h] # "nil"

\* The creator of h has left it, or has been told of the end.
Gone(h) == h \notin observations[h] /\ at[h] \notin Early

\* It is going to be told.
Closing == {"close", "uncache", "lock", "notify"}
Dying(h) == run[h] \in Closing \/ Gone(h)

DyingInv ==
    /\ \A s \in Subs : at[s] = "cancel" => Gone(my[s]) /\ device[my[s]] # "nil"
    /\ \A h \in Subs :
        /\ isClosed[h] => run[h] \in {"uncache", "lock", "notify"} \/ Gone(h)
        /\ run[h] = "after" => Gone(h)
        /\ my[h] = h /\ at[h] \in {"register", "publish", "observing"} /\ ~active[h] =>
               Dying(h) \/ conn[h] \in {"ended", "closing"} \/ closing[h]
        /\ my[h] = h /\ at[h] \in {"observe", "register", "publish", "observing"} /\ ~hook[h] =>
               Dying(h) \/ closing[h]

\* Nobody has been given more than the last message of its handler, and who
\* has been given one does not begin with an older one.
OrderInv ==
    /\ \A h \in Subs : lastMessage[h] <= value
    /\ \A h, s \in Subs : s \in todo[h] => my[s] = h /\ at[s] \notin Early
    /\ \A s \in Subs :
        /\ at[s] \in Early => got[s] = 0 /\ ~starting[s] /\ (at[s] = "new" => firstMessage[s] = 0)
        /\ starting[s] /\ firstMessage[s] # 0 => got[s] = 0
        /\ my[s] # None => got[s] <= lastMessage[my[s]] /\ firstMessage[s] <= lastMessage[my[s]]

\* Device.Close, or whoever has emptied the handler, cancels the observation.
ByDevice(h) == run[h] \in Closing \union {"after"} /\ why[h] = "deviceClose"
Cancelled(h) == \E s \in Subs : at[s] = "cancel" /\ my[s] = h

\* What the core client has forgotten, Device.Close is cancelling.
KnownAt(h) == active[h] /\ ~known[h] /\ at[h] # "register" => closing[h] \/ ByDevice(h)

\* The subscribers of the handler in the cache have not stopped, and there is
\* one as soon as its creator is in it.
CachedAt(h) ==
    cache = h =>
        /\ run[h] \notin {"lock", "notify"}
        /\ \A s \in observations[h] : at[s] \in Creating \union {"observing", "failed"}
        /\ at[h] \notin Early => observations[h] # {}

\* An observation whose handler has left the cache is being cancelled, unless
\* another handler has taken it out or its device is not known.
Stoppable(h) == h \notin evicted /\ device[h] # "other"
OutAt(h) ==
    active[h] /\ cache # h /\ Stoppable(h) =>
        run[h] = "lock" \/ closing[h] \/ ByDevice(h) \/ Cancelled(h)

\* A handler that is being created is in the cache, unless another one has
\* taken it out or its connection has ended.
CreatedInv ==
    \A h \in Subs :
        my[h] = h /\ at[h] \in {"read", "store", "connect", "observe"} /\ conn[h] = "open" =>
            cache = h \/ h \in evicted

LeakInv == \A h \in Subs : KnownAt(h) /\ CachedAt(h) /\ OutAt(h)

ObserveInv == TypeOK /\ MyInv /\ MemberInv /\ EarlyInv /\ DyingInv /\ OrderInv /\ CreatedInv /\ LeakInv

-----------------------------------------------------------------------------
(* Types                                                                    *)

LEMMA InitTypeOK == Init => TypeOK
  BY NoneAssumption, BoundAssumption DEF Init, TypeOK, Places, Positions, Messages

ClientTypes ==
    /\ cache \in Subs \union {None} /\ cacheLock \in Subs \union {None}
    /\ at \in [Subs -> Places] /\ my \in [Subs -> Subs \union {None}]
SharedTypes ==
    /\ lock \in [Subs -> Subs \union {None}] /\ observations \in [Subs -> SUBSET Subs]
    /\ lastMessage \in [Subs -> Messages] /\ device \in [Subs -> {"nil", "observed", "other"}]
SubTypes ==
    /\ firstMessage \in [Subs -> Messages] /\ starting \in [Subs -> BOOLEAN]
    /\ got \in [Subs -> Messages] /\ told \in [Subs -> 0..1]
CoreTypes ==
    /\ active \in [Subs -> BOOLEAN] /\ isClosed \in [Subs -> BOOLEAN] /\ hook \in [Subs -> BOOLEAN]
    /\ conn \in [Subs -> {"open", "ended", "closing", "done"}]
    /\ known \in [Subs -> BOOLEAN] /\ closing \in [Subs -> BOOLEAN]
RunTypes ==
    /\ run \in [Subs -> Positions] /\ why \in [Subs -> {"error", "lost", "end", "deviceClose"}]
    /\ todo \in [Subs -> SUBSET Subs] /\ received \in [Subs -> Messages] /\ value \in Messages
    /\ evicted \in SUBSET Subs

LEMMA TypesSplit == TypeOK <=> ClientTypes /\ SharedTypes /\ SubTypes /\ CoreTypes /\ RunTypes
  BY DEF TypeOK, ClientTypes, SharedTypes, SubTypes, CoreTypes, RunTypes

LEMMA TypesJoin == ClientTypes' /\ SharedTypes' /\ SubTypes' /\ CoreTypes' /\ RunTypes' => TypeOK'
  BY DEF TypeOK, ClientTypes, SharedTypes, SubTypes, CoreTypes, RunTypes

LEMMA ClientKept == ClientTypes /\ UNCHANGED clientVars => ClientTypes'
  BY DEF ClientTypes, clientVars
LEMMA SharedKept == SharedTypes /\ UNCHANGED sharedVars => SharedTypes'
  BY DEF SharedTypes, sharedVars
LEMMA SubKept == SubTypes /\ UNCHANGED subVars => SubTypes'
  BY DEF SubTypes, subVars
LEMMA CoreKept == CoreTypes /\ UNCHANGED coreVars => CoreTypes'
  BY DEF CoreTypes, coreVars
LEMMA RunKept == RunTypes /\ UNCHANGED <<runVars, value, evicted>> => RunTypes'
  BY DEF RunTypes, runVars

\* A subscriber that has begun has a handler.
LEMMA MyHandler ==
    ASSUME TypeOK, MyInv, NEW s \in Subs, at[s] # "new"
    PROVE  my[s] \in Subs
  BY DEF TypeOK, MyInv

LEMMA CoreStopTypes ==
    ASSUME CoreTypes, NEW h \in Subs, CoreStop(h), UNCHANGED <<conn, closing>>
    PROVE  CoreTypes'
  BY DEF CoreTypes, CoreStop

LEMMA CallTypes ==
    ASSUME TypeOK, MyInv, NEW s \in Subs,
           SubStep(s) \/ LockHandler(s) \/ HandleFirstMessage(s) \/ StopObservingResource(s)
    PROVE  TypeOK'
<1> USE NoneAssumption DEF Goto, Unlock
<1>0. ClientTypes /\ SharedTypes /\ SubTypes /\ CoreTypes /\ RunTypes
  BY TypesSplit
<1>m. at[s] # "new" => my[s] \in Subs
  BY MyHandler
<1>1. CASE CreateHandler(s)
  <2>1. ClientTypes' /\ SharedTypes'
    BY <1>0, <1>1 DEF CreateHandler, ClientTypes, SharedTypes, Places
  <2> QED
    BY <1>0, <1>1, <2>1, SubKept, CoreKept, RunKept, TypesJoin DEF CreateHandler
<1>2. CASE LoadHandler(s)
  <2>1. ClientTypes'
    BY <1>0, <1>2 DEF LoadHandler, ClientTypes, Places
  <2> QED
    BY <1>0, <1>2, <2>1, SharedKept, SubKept, CoreKept, RunKept, TypesJoin DEF LoadHandler
<1>3. CASE LockHandler(s)
  <2>1. ClientTypes' /\ SharedTypes'
    BY <1>0, <1>m, <1>3 DEF LockHandler, ClientTypes, SharedTypes, Places
  <2> QED
    BY <1>0, <1>3, <2>1, SubKept, CoreKept, RunKept, TypesJoin DEF LockHandler
<1>4. CASE ReadLastMessage(s)
  <2>1. ClientTypes' /\ SubTypes'
    BY <1>0, <1>m, <1>4 DEF ReadLastMessage, ClientTypes, SubTypes, SharedTypes, Places
  <2> QED
    BY <1>0, <1>4, <2>1, SharedKept, CoreKept, RunKept, TypesJoin DEF ReadLastMessage
<1>5. CASE StoreSubscriber(s)
  <2>1. ClientTypes'
    BY <1>0, <1>m, <1>5 DEF StoreSubscriber, ClientTypes, Places
  <2>2. SubTypes'
    BY <1>0, <1>m, <1>5 DEF StoreSubscriber, SubTypes
  <2>3. SharedTypes'
    BY <1>0, <1>m, <1>5 DEF StoreSubscriber, SharedTypes
  <2> QED
    BY <1>0, <1>5, <2>1, <2>2, <2>3, CoreKept, RunKept, TypesJoin DEF StoreSubscriber
<1>6. CASE Connect(s) \/ Observe(s) \/ RegisterObservation(s)
  <2>1. ClientTypes' /\ CoreTypes'
    BY <1>0, <1>6 DEF Connect, Observe, RegisterObservation, ClientTypes, CoreTypes, Places
  <2> QED
    BY <1>0, <1>6, <2>1, SharedKept, SubKept, RunKept, TypesJoin DEF Connect, Observe, RegisterObservation
<1>7. CASE ObserveFails(s)
  <2>1. ClientTypes' /\ CoreTypes' /\ SharedTypes'
    BY <1>0, <1>7 DEF ObserveFails, ClientTypes, CoreTypes, SharedTypes, Places
  <2> QED
    BY <1>0, <1>7, <2>1, SubKept, RunKept, TypesJoin DEF ObserveFails
<1>8. CASE PublishDevice(s)
  <2>1. ClientTypes' /\ SharedTypes'
    BY <1>0, <1>8 DEF PublishDevice, ClientTypes, SharedTypes, Places
  <2> QED
    BY <1>0, <1>8, <2>1, SubKept, CoreKept, RunKept, TypesJoin DEF PublishDevice
<1>9. CASE HandleFirstMessage(s)
  <2>1. SubTypes'
    BY <1>0, <1>9 DEF HandleFirstMessage, SubTypes
  <2> QED
    BY <1>0, <1>9, <2>1, ClientKept, SharedKept, CoreKept, RunKept, TypesJoin DEF HandleFirstMessage
<1>10. CASE StopObservingResource(s)
  <2>1. ClientTypes' /\ SharedTypes'
    BY <1>0, <1>10 DEF StopObservingResource, ClientTypes, SharedTypes, Places
  <2> QED
    BY <1>0, <1>10, <2>1, SubKept, CoreKept, RunKept, TypesJoin DEF StopObservingResource
<1>11. CASE CancelObservation(s)
  <2>1. ClientTypes'
    BY <1>0, <1>11 DEF CancelObservation, ClientTypes, Places
  <2>2. CoreTypes'
    BY <1>0, <1>m, <1>11, CoreStopTypes, CoreKept DEF CancelObservation, StopOnDevice, coreVars
  <2> QED
    BY <1>0, <1>11, <2>1, <2>2, SharedKept, SubKept, RunKept, TypesJoin DEF CancelObservation
<1> QED
  BY <1>1, <1>2, <1>3, <1>4, <1>5, <1>6, <1>7, <1>8, <1>9, <1>10, <1>11 DEF SubStep

LEMMA HandlerTypes ==
    ASSUME TypeOK, MemberInv, NEW h \in Subs,
           HandlerStep(h) \/ Receive(h) \/ ForgetObservation(h) \/ LoseConnection(h)
    PROVE  TypeOK'
<1>0. ClientTypes /\ SharedTypes /\ SubTypes /\ CoreTypes /\ RunTypes
  BY TypesSplit
<1>1. ASSUME NEW last \in BOOLEAN, Handle(h, last) PROVE TypeOK'
  <2>1. SharedTypes'
    BY <1>0, <1>1 DEF Handle, SharedTypes, RunTypes
  <2>2. RunTypes'
    BY <1>0, <1>1 DEF Handle, RunTypes, SharedTypes, Positions
  <2> QED
    BY <1>0, <1>1, <2>1, <2>2, ClientKept, SubKept, CoreKept, TypesJoin DEF Handle
<1>2. ASSUME NEW last \in BOOLEAN, HandleFails(h, last) PROVE TypeOK'
  <2>1. RunTypes'
    BY <1>0, <1>2 DEF HandleFails, RunTypes, Positions
  <2> QED
    BY <1>0, <1>2, <2>1, ClientKept, SharedKept, SubKept, CoreKept, TypesJoin DEF HandleFails
<1>3. ASSUME NEW s \in Subs, HandleMessage(h, s) PROVE TypeOK'
  <2>1. SubTypes'
    BY <1>0, <1>3, BoundAssumption DEF HandleMessage, SubTypes, SharedTypes, Messages
  <2>2. RunTypes'
    BY <1>0, <1>3 DEF HandleMessage, RunTypes
  <2> QED
    BY <1>0, <1>3, <2>1, <2>2, ClientKept, SharedKept, CoreKept, TypesJoin DEF HandleMessage
<1>4. CASE HandleDone(h)
  <2>1. RunTypes'
    BY <1>0, <1>4 DEF HandleDone, RunTypes, Positions
  <2> QED
    BY <1>0, <1>4, <2>1, ClientKept, SharedKept, SubKept, CoreKept, TypesJoin DEF HandleDone
<1>5. CASE CollectHandlers(h) \/ ForgetObservation(h) \/ LoseConnection(h)
  <2>1. CoreTypes'
    BY <1>0, <1>5 DEF CollectHandlers, ForgetObservation, LoseConnection, CoreTypes
  <2> QED
    BY <1>0, <1>5, <2>1, ClientKept, SharedKept, SubKept, RunKept, TypesJoin
    DEF CollectHandlers, ForgetObservation, LoseConnection
<1>6. CASE ConnectionClosed(h) \/ CloseObservation(h) \/ OnClose(h)
  <2>1. CoreTypes'
    BY <1>0, <1>6 DEF ConnectionClosed, CloseObservation, OnClose, CoreTypes
  <2>2. RunTypes'
    BY <1>0, <1>6 DEF ConnectionClosed, CloseObservation, OnClose, RunTypes, Positions
  <2> QED
    BY <1>0, <1>6, <2>1, <2>2, ClientKept, SharedKept, SubKept, TypesJoin
    DEF ConnectionClosed, CloseObservation, OnClose
<1>7. CASE DeleteFromCache(h)
  <2>1. ClientTypes' /\ RunTypes'
    BY <1>0, <1>7 DEF DeleteFromCache, ClientTypes, RunTypes, Positions
  <2> QED
    BY <1>0, <1>7, <2>1, SharedKept, SubKept, CoreKept, TypesJoin DEF DeleteFromCache
<1>8. CASE StopLocked(h)
  <2>1. RunTypes'
    BY <1>0, <1>8 DEF StopLocked, RunTypes, Positions
  <2>2. CoreTypes'
    BY <1>0, <1>8, CoreStopTypes, CoreKept DEF StopLocked, StopOnDevice, coreVars
  <2> QED
    BY <1>0, <1>8, <2>1, <2>2, ClientKept, SharedKept, SubKept, TypesJoin DEF StopLocked
<1>9. CASE NotifyEnd(h)
  <2>1. \A s \in Subs : s \in observations[h] => told[s] = 0
    BY DEF MemberInv
  <2>2. told' \in [Subs -> 0..1]
    BY <1>0, <1>9, <2>1 DEF NotifyEnd, SubTypes
  <2>3. SubTypes' /\ RunTypes'
    BY <1>0, <1>9, <2>2 DEF NotifyEnd, SubTypes, RunTypes, Positions
  <2>4. SharedTypes'
    BY <1>0, <1>9 DEF NotifyEnd, SharedTypes
  <2> QED
    BY <1>0, <1>9, <2>3, <2>4, ClientKept, CoreKept, TypesJoin DEF NotifyEnd
<1>10. CASE Ended(h)
  <2>1. RunTypes'
    BY <1>0, <1>10 DEF Ended, RunTypes, Positions
  <2>2. /\ UNCHANGED <<conn, closing>>
        /\ \/ CoreStop(h)
           \/ active' = [active EXCEPT ![h] = FALSE] /\ UNCHANGED <<known, hook, isClosed>>
           \/ UNCHANGED <<known, hook, isClosed, active>>
    BY <1>10 DEF Ended
  <2>3. CoreTypes'
    BY <1>0, <2>2, CoreStopTypes DEF CoreTypes
  <2> QED
    BY <1>0, <1>10, <2>1, <2>3, ClientKept, SharedKept, SubKept, TypesJoin DEF Ended
<1> QED
  BY <1>1, <1>2, <1>3, <1>4, <1>5, <1>6, <1>7, <1>8, <1>9, <1>10 DEF HandlerStep, Receive

LEMMA NextTypeOK == ASSUME TypeOK, MyInv, MemberInv, Next PROVE TypeOK'
<1>1. CASE Change
  <2>1. ClientTypes /\ SharedTypes /\ SubTypes /\ CoreTypes /\ RunTypes
    BY TypesSplit
  <2>2. RunTypes'
    BY <1>1, <2>1, BoundAssumption DEF Change, RunTypes, runVars, Messages
  <2> QED
    BY <1>1, <2>1, <2>2, ClientKept, SharedKept, SubKept, CoreKept, TypesJoin DEF Change
<1> QED
  BY <1>1, CallTypes, HandlerTypes DEF Next

-----------------------------------------------------------------------------
(* Handlers and their mutexes                                               *)

LEMMA InitMy == Init => MyInv
  BY DEF Init, MyInv, Creating, Holding

LEMMA MyKept == MyInv /\ UNCHANGED <<cache, my, at, lock>> => MyInv'
  BY DEF MyInv

\* A subscriber that does not get or pass on a mutex goes from one place to
\* another.
LEMMA MyMoves ==
    ASSUME TypeOK, MyInv, UNCHANGED my, cache' \in {cache, None}, NEW s \in Subs, NEW l \in Places,
           at' = [at EXCEPT ![s] = l], at[s] # "new", l \notin {"new", "wait"},
           l \in Creating \union {"failed"} => my[s] = s,
           \/ lock' = lock /\ (l \in Holding => at[s] \in Holding)
           \/ l \notin Holding /\ lock' = [lock EXCEPT ![my[s]] = None] /\ at[s] \in Holding
    PROVE  MyInv'
<1>1. /\ at \in [Subs -> Places] /\ lock \in [Subs -> Subs \union {None}] /\ my[s] \in Subs
      /\ my \in [Subs -> Subs \union {None}]
  BY MyHandler DEF TypeOK
<1>2. at'[s] = l /\ \A t \in Subs : t # s => at'[t] = at[t]
  BY <1>1
<1>3. ASSUME NEW t \in Subs, at'[t] \in Holding PROVE lock'[my[t]] = t
  <2>1. at[t] \in Holding
    BY <1>2, <1>3
  <2>2. lock[my[t]] = t
    BY <2>1 DEF MyInv
  <2>3. lock' = lock \/ (t # s /\ my[t] # my[s] /\ my[t] \in Subs)
    <3>1. at[t] # "new"
      BY <2>1 DEF Holding, Creating
    <3>2. my[t] \in Subs
      BY <3>1, MyHandler
    <3> QED
      BY <1>2, <1>3, <2>2, <3>2 DEF MyInv
  <2> QED
    BY <1>1, <2>2, <2>3
<1> QED
  BY <1>1, <1>2, <1>3, NoneAssumption DEF MyInv

LEMMA NextMy == ASSUME TypeOK, MyInv, Next PROVE MyInv'
<1> USE NoneAssumption DEF Goto, Unlock
<1>0. /\ at \in [Subs -> Places] /\ my \in [Subs -> Subs \union {None}] /\ cache \in Subs \union {None}
      /\ lock \in [Subs -> Subs \union {None}]
  BY DEF TypeOK
<1>1. ASSUME NEW s \in Subs, CreateHandler(s) PROVE MyInv'
  <2>1. /\ my'[s] = s /\ lock'[s] = s /\ at'[s] = "read" /\ cache' = s /\ my[s] = None
        /\ \A t \in Subs : t # s => my'[t] = my[t] /\ at'[t] = at[t] /\ lock'[t] = lock[t]
    BY <1>0, <1>1 DEF CreateHandler, MyInv
  <2>2. \A t \in Subs : my[t] # s
    BY <2>1 DEF MyInv
  <2> QED
    BY <1>0, <2>1, <2>2 DEF MyInv, Creating, Holding
<1>2. ASSUME NEW s \in Subs, LoadHandler(s) PROVE MyInv'
  <2>1. /\ my'[s] = cache /\ at'[s] = "wait" /\ cache' = cache /\ my[s] = None /\ lock' = lock
        /\ \A t \in Subs : t # s => my'[t] = my[t] /\ at'[t] = at[t]
        /\ cache \in Subs /\ my[cache] = cache
    BY <1>0, <1>2 DEF LoadHandler, MyInv, sharedVars
  <2>2. \A t \in Subs : my[t] # s
    BY <2>1 DEF MyInv
  <2> QED
    BY <1>0, <2>1, <2>2 DEF MyInv, Creating, Holding
<1>3. ASSUME NEW s \in Subs, LockHandler(s) PROVE MyInv'
  <2>1. my[s] \in Subs /\ my[s] # s
    BY <1>0, <1>3 DEF LockHandler, MyInv
  <2>2. /\ my' = my /\ at'[s] = "read" /\ cache' = cache /\ lock'[my[s]] = s /\ lock[my[s]] = None
        /\ \A t \in Subs : (t # s => at'[t] = at[t]) /\ (t # my[s] => lock'[t] = lock[t])
    BY <1>0, <1>3, <2>1 DEF LockHandler
  <2>3. \A t \in Subs : my[t] = my[s] => at[t] \notin Holding
    BY <2>2 DEF MyInv
  <2> QED
    BY <1>0, <2>1, <2>2, <2>3 DEF MyInv, Creating, Holding
<1>4. ASSUME NEW s \in Subs, ReadLastMessage(s) PROVE MyInv'
  BY <1>4, MyMoves DEF ReadLastMessage, Places, Holding, Creating, sharedVars
<1>5. ASSUME NEW s \in Subs, StoreSubscriber(s) PROVE MyInv'
  BY <1>5, MyMoves DEF StoreSubscriber, Places, Holding, Creating
<1>6. ASSUME NEW s \in Subs, Connect(s) \/ Observe(s) \/ RegisterObservation(s) PROVE MyInv'
  <2>1. my[s] = s
    BY <1>6 DEF MyInv, Creating, Connect, Observe, RegisterObservation
  <2> QED
    BY <1>6, <2>1, MyMoves DEF Connect, Observe, RegisterObservation, Places, Holding, Creating, sharedVars
<1>7. ASSUME NEW s \in Subs, ObserveFails(s) \/ PublishDevice(s) PROVE MyInv'
  <2>1. my[s] = s
    BY <1>7 DEF MyInv, Creating, ObserveFails, PublishDevice
  <2> QED
    BY <1>7, <2>1, MyMoves DEF ObserveFails, PublishDevice, Places, Holding, Creating
<1>8. ASSUME NEW s \in Subs, StopObservingResource(s) PROVE MyInv'
  <2>1. PICK l \in {"cancel", "stopped"} : at' = [at EXCEPT ![s] = l]
    BY <1>8 DEF StopObservingResource
  <2>2. cache' \in {cache, None} /\ lock' = lock /\ my' = my /\ at[s] = "observing"
    BY <1>8 DEF StopObservingResource
  <2> QED
    BY <2>1, <2>2, MyMoves DEF Places, Holding, Creating
<1>9. ASSUME NEW s \in Subs, CancelObservation(s) PROVE MyInv'
  BY <1>9, MyMoves DEF CancelObservation, Places, Holding, Creating, sharedVars
<1>10. ASSUME NEW h \in Subs, DeleteFromCache(h) PROVE MyInv'
  BY <1>10 DEF DeleteFromCache, MyInv, sharedVars
<1>11. ASSUME UNCHANGED <<cache, my, at, lock>> PROVE MyInv'
  BY <1>11, MyKept
<1>12. ASSUME NEW h \in Subs, HandlerStep(h) PROVE MyInv'
  BY <1>10, <1>11, <1>12 DEF HandlerStep, HandleMessage, HandleDone, CollectHandlers, ConnectionClosed,
     CloseObservation, OnClose, StopLocked, NotifyEnd, Ended, clientVars, sharedVars
<1>13. ASSUME NEW h \in Subs,
              Receive(h) \/ ForgetObservation(h) \/ LoseConnection(h) \/ HandleFirstMessage(h)
       PROVE  MyInv'
  BY <1>11, <1>13 DEF Receive, Handle, HandleFails, ForgetObservation, LoseConnection,
     HandleFirstMessage, clientVars, sharedVars
<1>14. CASE Change
  BY <1>11, <1>14 DEF Change, clientVars, sharedVars
<1> QED
  BY <1>1, <1>2, <1>3, <1>4, <1>5, <1>6, <1>7, <1>8, <1>9, <1>12, <1>13, <1>14 DEF Next, SubStep

-----------------------------------------------------------------------------
(* The subscribers of a handler                                             *)

LEMMA InitMember == Init => MemberInv
  BY DEF Init, MemberInv, Creating, Early

LEMMA MemberKept == MemberInv /\ UNCHANGED <<my, at, observations, told>> => MemberInv'
  BY DEF MemberInv

\* A subscriber moves on, from the time it is stored.
LEMMA MemberMoves ==
    ASSUME TypeOK, MemberInv, UNCHANGED <<my, observations, told>>, NEW s \in Subs, NEW l \in Places,
           at' = [at EXCEPT ![s] = l],
           \/ at[s] \in Creating /\ l \in Creating
           \/ at[s] \in Creating \union Settled /\ l \in Settled /\ (l = "observing" => at[s] \in Creating)
           \/ at[s] \in Early /\ l \in Early
    PROVE  MemberInv'
<1>1. at'[s] = l /\ \A t \in Subs : t # s => at'[t] = at[t]
  BY DEF TypeOK
<1>2. Early \intersect (Creating \union Settled) = {}
  BY DEF Early, Creating, Settled
<1>3. Creating \intersect Settled = {} /\ "observing" \in Settled /\ "observing" \notin Creating
  BY DEF Creating, Settled
<1>4. \A t \in Subs : at'[t] \in Early => at[t] \in Early
  BY <1>1, <1>2
<1>5. \A t \in Subs : at'[t] \in Creating \union {"observing"} => at[t] \in Creating \union {"observing"}
  BY <1>1, <1>2, <1>3
<1>6. \A t \in Subs : at[t] \in Settled => at'[t] \in Settled
  BY <1>1, <1>2, <1>3
<1>7. \A t \in Subs : at[t] \notin Early => at'[t] \notin Early
  BY <1>1, <1>2
<1> QED
  BY <1>4, <1>5, <1>6, <1>7 DEF MemberInv

LEMMA NextMember == ASSUME TypeOK, MyInv, MemberInv, Next PROVE MemberInv'
<1> USE NoneAssumption DEF Goto, Unlock
<1>0. /\ at \in [Subs -> Places] /\ my \in [Subs -> Subs \union {None}] /\ cache \in Subs \union {None}
      /\ observations \in [Subs -> SUBSET Subs] /\ told \in [Subs -> 0..1]
  BY DEF TypeOK
<1>1. ASSUME NEW s \in Subs, CreateHandler(s) \/ LoadHandler(s) PROVE MemberInv'
  <2>1. /\ at[s] = "new" /\ UNCHANGED <<observations, told>> /\ at'[s] \in {"read", "wait"}
        /\ \A t \in Subs : t # s => at'[t] = at[t] /\ my'[t] = my[t]
    BY <1>0, <1>1 DEF CreateHandler, LoadHandler, sharedVars, subVars
  <2>2. \A h \in Subs : s \notin observations[h]
    BY <2>1 DEF MemberInv, Early
  <2>3. \A t \in Subs : my[t] # s /\ s \notin observations[s]
    BY <2>1, <2>2 DEF MyInv
  <2>4. \A h \in Subs : at[h] \in Settled => h # s
    BY <2>1 DEF Settled
  <2> QED
    BY <2>1, <2>2, <2>3, <2>4 DEF MemberInv, Early, Creating
<1>2. ASSUME NEW s \in Subs, LockHandler(s) \/ ReadLastMessage(s) PROVE MemberInv'
  BY <1>2, MemberMoves DEF LockHandler, ReadLastMessage, sharedVars, subVars, Early, Places
<1>3. ASSUME NEW s \in Subs, StoreSubscriber(s) PROVE MemberInv'
  <2>1. my[s] \in Subs /\ at[s] = "store" /\ lock[my[s]] = s
    BY <1>3, MyHandler DEF StoreSubscriber, MyInv, Holding
  <2>2. /\ UNCHANGED <<my, told>> /\ at'[s] = (IF my[s] = s THEN "connect" ELSE "observing")
        /\ \A t \in Subs : t # s => at'[t] = at[t]
        /\ observations'[my[s]] = observations[my[s]] \union {s}
        /\ \A h \in Subs : h # my[s] => observations'[h] = observations[h]
    BY <1>0, <1>3, <2>1 DEF StoreSubscriber
  <2>3. told[s] = 0
    BY <2>1 DEF MemberInv, Early
  <2>4. my[s] # s => at[my[s]] \in Settled
    <3>1. my[my[s]] = my[s]
      BY <2>1 DEF MyInv
    <3>2. my[s] # s => at[my[s]] \notin Holding \union {"new", "wait"}
      BY <2>1, <3>1 DEF MyInv
    <3> QED
      BY <1>0, <2>1, <3>2 DEF Places, Settled, Holding, Creating
  <2>5. at'[s] \in {"connect", "observing"}
    BY <2>2
  <2>6. at'[s] \notin Early
    BY <2>5 DEF Early
  <2>7. ASSUME NEW t \in Subs, at'[t] \in Creating \union {"observing"}, told[t] = 0
        PROVE  t \in observations'[my[t]]
    <3>1. CASE t = s
      BY <2>2, <3>1
    <3>2. CASE t # s
      <4>1. t \in observations[my[t]] /\ my[t] \in Subs
        BY <1>0, <2>2, <2>7, <3>2, MyHandler DEF MemberInv, Creating
      <4> QED
        BY <2>2, <4>1
    <3> QED
      BY <3>1, <3>2
  <2>8. ASSUME NEW t \in Subs, NEW h \in Subs, t \in observations'[h]
        PROVE  my[t] = h /\ told[t] = 0 /\ at'[t] \notin Early /\ (t # h => at'[h] \in Settled)
    <3>1. CASE t = s /\ h = my[s]
      BY <2>1, <2>2, <2>3, <2>4, <2>6, <3>1
    <3>2. CASE ~(t = s /\ h = my[s])
      <4>1. t \in observations[h]
        BY <2>2, <2>8, <3>2
      <4>2. my[t] = h /\ told[t] = 0 /\ at[t] \notin Early /\ (t # h => at[h] \in Settled)
        BY <4>1 DEF MemberInv
      <4>3. at[h] \in Settled => h # s
        BY <2>1 DEF Settled
      <4> QED
        BY <2>2, <2>6, <4>2, <4>3
    <3> QED
      BY <3>1, <3>2
  <2>9. \A t \in Subs : at'[t] \in Early => told[t] = 0
    BY <2>2, <2>6 DEF MemberInv
  <2> QED
    BY <2>2, <2>7, <2>8, <2>9 DEF MemberInv
<1>4. ASSUME NEW s \in Subs, Connect(s) \/ Observe(s) \/ RegisterObservation(s) \/ PublishDevice(s) \/ ObserveFails(s)
      PROVE  MemberInv'
  BY <1>4, MemberMoves DEF Connect, Observe, RegisterObservation, PublishDevice, ObserveFails,
     sharedVars, subVars, Creating, Settled, Places
<1>5. ASSUME NEW s \in Subs, CancelObservation(s) PROVE MemberInv'
  BY <1>5, MemberMoves DEF CancelObservation, sharedVars, subVars, Creating, Settled, Places
<1>6. ASSUME NEW s \in Subs, StopObservingResource(s) PROVE MemberInv'
  <2>1. /\ UNCHANGED <<my, told>> /\ at[s] = "observing" /\ at'[s] \in {"cancel", "stopped"}
        /\ \A t \in Subs : t # s => at'[t] = at[t]
        /\ \A h \in Subs : observations'[h] \subseteq observations[h] /\ observations[h] \subseteq observations'[h] \union {s}
    BY <1>0, <1>6 DEF StopObservingResource, subVars
  <2>2. \A h \in Subs : at[h] \in Settled => at'[h] \in Settled
    BY <2>1 DEF Settled
  <2>3. at'[s] \notin Early \union Creating \union {"observing"}
    BY <2>1 DEF Early, Creating
  <2>4. \A t \in Subs : at[t] \in Creating \union {"observing"} => my[t] \in Subs
    BY <1>0, MyHandler DEF Creating
  <2> QED
    BY <2>1, <2>2, <2>3, <2>4 DEF MemberInv
<1>7. ASSUME NEW h \in Subs, NotifyEnd(h) PROVE MemberInv'
  <2>1. /\ UNCHANGED <<my, at>> /\ observations'[h] = {}
        /\ \A g \in Subs : g # h => observations'[g] = observations[g]
        /\ \A s \in Subs : told'[s] = IF s \in observations[h] THEN told[s] + 1 ELSE told[s]
    BY <1>0, <1>7 DEF NotifyEnd, clientVars
  <2>2. \A s \in Subs : s \in observations[h] => told[s] = 0 /\ my[s] = h /\ at[s] \notin Early
    BY DEF MemberInv
  <2>3. \A s \in Subs : at[s] \in Creating \union {"observing"} => my[s] \in Subs
    BY <1>0, MyHandler DEF Creating
  <2>4. \A s \in Subs : told'[s] = 0 => told[s] = 0 /\ s \notin observations[h]
    BY <2>1, <2>2
  <2>5. \A s \in Subs : s \notin observations[h] => told'[s] = told[s]
    BY <2>1
  <2>6. ASSUME NEW s \in Subs, at[s] \in Creating \union {"observing"}, told'[s] = 0 PROVE s \in observations'[my[s]]
    BY <2>1, <2>3, <2>4, <2>6 DEF MemberInv
  <2>7. ASSUME NEW s \in Subs, NEW g \in Subs, s \in observations'[g]
        PROVE  my[s] = g /\ told'[s] = 0 /\ at[s] \notin Early /\ (s # g => at[g] \in Settled)
    BY <2>1, <2>2, <2>5, <2>7 DEF MemberInv
  <2>8. \A s \in Subs : at[s] \in Early => told'[s] = 0
    BY <2>2, <2>5 DEF MemberInv
  <2> QED
    BY <2>1, <2>6, <2>7, <2>8 DEF MemberInv
<1>8. ASSUME UNCHANGED <<my, at, observations, told>> PROVE MemberInv'
  BY <1>8, MemberKept
<1>9. ASSUME NEW h \in Subs, HandlerStep(h) PROVE MemberInv'
  BY <1>7, <1>8, <1>9 DEF HandlerStep, HandleMessage, HandleDone, CollectHandlers, ConnectionClosed,
     CloseObservation, OnClose, StopLocked, DeleteFromCache, Ended, clientVars, sharedVars, subVars
<1>10. ASSUME NEW h \in Subs,
              Receive(h) \/ ForgetObservation(h) \/ LoseConnection(h) \/ HandleFirstMessage(h)
       PROVE  MemberInv'
  BY <1>8, <1>10 DEF Receive, Handle, HandleFails, ForgetObservation, LoseConnection,
     HandleFirstMessage, clientVars, sharedVars, subVars
<1>11. CASE Change
  BY <1>8, <1>11 DEF Change, clientVars, sharedVars, subVars
<1> QED
  BY <1>1, <1>2, <1>3, <1>4, <1>5, <1>6, <1>9, <1>10, <1>11 DEF Next, SubStep

-----------------------------------------------------------------------------
(* Before the observation                                                   *)

LEMMA InitEarly == Init => EarlyInv
  BY DEF Init, EarlyInv, Pristine, Early, Creating

\* The variables of a handler that its end is about.
coreRun == <<active, isClosed, hook, conn, known, closing, device, run>>

LEMMA EarlyKept == EarlyInv /\ UNCHANGED <<coreRun, my, at, told>> => EarlyInv'
  BY DEF EarlyInv, Pristine, coreRun

\* What CoreStop does.
LEMMA CoreStopEffect ==
    ASSUME CoreTypes, NEW h \in Subs, CoreStop(h)
    PROVE  /\ \A g \in Subs : g # h => /\ active'[g] = active[g] /\ isClosed'[g] = isClosed[g]
                                       /\ hook'[g] = hook[g] /\ known'[g] = known[g]
           /\ ~known[h] => UNCHANGED <<active, isClosed, hook, known>>
           /\ known[h] => ~active'[h] /\ isClosed'[h] /\ ~hook'[h] /\ ~known'[h]
  BY DEF CoreTypes, CoreStop

\* A step that touches only handler h, which is being or has been observed.
LEMMA EarlyOther ==
    ASSUME EarlyInv, UNCHANGED <<my, at, told, device>>, NEW h \in Subs, my[h] = h,
           at[h] \notin Early \union {"connect"},
           at[h] = "observe" /\ conn[h] = "open" => conn'[h] # "open" /\ ~active'[h] /\ ~known'[h],
           at[h] \in {"observe", "failed"} => ~active'[h] /\ ~known'[h],
           at[h] = "observe" /\ conn[h] # "open" => conn'[h] # "open",
           \A g \in Subs : g # h => /\ active'[g] = active[g] /\ isClosed'[g] = isClosed[g]
                                    /\ hook'[g] = hook[g] /\ known'[g] = known[g]
                                    /\ conn'[g] = conn[g] /\ closing'[g] = closing[g]
                                    /\ run'[g] = run[g]
    PROVE  EarlyInv'
<1>1. ASSUME NEW g \in Subs, g # h
      PROVE  UNCHANGED <<active[g], isClosed[g], hook[g], conn[g], known[g], closing[g], device[g], run[g],
                         my[g], at[g], told[g]>>
  BY <1>1
<1>2. ASSUME NEW g \in Subs, my[g] # g \/ at[g] \in Early \union {"connect"}
      PROVE  Pristine(g)' /\ ~hook'[g] /\ conn'[g] = "open"
  <2>1. g # h /\ Pristine(g) /\ ~hook[g] /\ conn[g] = "open"
    BY <1>2 DEF EarlyInv
  <2> QED
    BY <1>1, <2>1 DEF Pristine
<1>3. ASSUME NEW g \in Subs, at[g] = "observe", conn'[g] = "open" PROVE Pristine(g)' /\ told'[g] = 0
  <2>1. g # h
    BY <1>3
  <2>2. Pristine(g) /\ told[g] = 0
    BY <1>1, <1>3, <2>1 DEF EarlyInv
  <2> QED
    BY <1>1, <2>1, <2>2 DEF Pristine
<1>4. ASSUME NEW g \in Subs, at[g] \in {"observe", "failed"}, my[g] = g
      PROVE  ~active'[g] /\ ~known'[g] /\ device'[g] = "nil"
  BY <1>1, <1>4 DEF EarlyInv
<1> QED
  BY <1>2, <1>3, <1>4 DEF EarlyInv

\* Only what has been observed, or has lost its connection meanwhile, ends.
LEMMA Begun ==
    ASSUME EarlyInv, NEW h \in Subs,
           run[h] # "idle" \/ active[h] \/ known[h] \/ closing[h] \/ isClosed[h] \/ device[h] # "nil" \/ conn[h] # "open"
    PROVE  /\ my[h] = h /\ at[h] \notin Early \union {"connect"}
           /\ ~(at[h] = "observe" /\ conn[h] = "open")
  BY DEF EarlyInv, Pristine

\* A step of the handler that does not begin an observation.
LEMMA EarlyEnds ==
    ASSUME EarlyInv, UNCHANGED <<my, at, told, device>>, NEW h \in Subs,
           run[h] # "idle" \/ active[h] \/ known[h] \/ closing[h] \/ conn[h] # "open",
           conn[h] # "open" => conn'[h] # "open",
           active'[h] => active[h], known'[h] => known[h],
           \A g \in Subs : g # h => /\ active'[g] = active[g] /\ isClosed'[g] = isClosed[g]
                                    /\ hook'[g] = hook[g] /\ known'[g] = known[g]
                                    /\ conn'[g] = conn[g] /\ closing'[g] = closing[g]
                                    /\ run'[g] = run[g]
    PROVE  EarlyInv'
<1>1. my[h] = h /\ at[h] \notin Early \union {"connect"} /\ ~(at[h] = "observe" /\ conn[h] = "open")
  BY Begun
<1>2. at[h] \in {"observe", "failed"} => ~active'[h] /\ ~known'[h]
  BY <1>1 DEF EarlyInv
<1> QED
  BY <1>1, <1>2, EarlyOther

LEMMA EarlyByHandler ==
    ASSUME TypeOK, MyInv, MemberInv, EarlyInv, NEW h \in Subs,
           HandlerStep(h) \/ Receive(h) \/ ForgetObservation(h) \/ LoseConnection(h)
    PROVE  EarlyInv'
<1>0. CoreTypes /\ RunTypes
  BY TypesSplit
<1>1. CASE Receive(h)
  <2>1. PICK last \in BOOLEAN : Handle(h, last) \/ HandleFails(h, last)
    BY <1>1 DEF Receive
  <2>2. active[h] /\ UNCHANGED <<my, at, told, device, coreVars>> /\ \A g \in Subs : g # h => run'[g] = run[g]
    BY <1>0, <2>1 DEF Handle, HandleFails, clientVars, subVars, sharedVars, RunTypes
  <2> QED
    BY <2>2, EarlyEnds DEF coreVars
<1>2. ASSUME NEW s \in Subs, HandleMessage(h, s) PROVE EarlyInv'
  BY <1>2, EarlyKept DEF HandleMessage, clientVars, sharedVars, coreVars, coreRun
<1>3. CASE HandleDone(h)
  <2>1. /\ run[h] = "range" /\ UNCHANGED <<my, at, told, device, coreVars>>
        /\ \A g \in Subs : g # h => run'[g] = run[g]
    BY <1>0, <1>3 DEF HandleDone, clientVars, subVars, sharedVars, RunTypes
  <2> QED
    BY <2>1, EarlyEnds DEF coreVars
<1>4. CASE CollectHandlers(h) \/ ConnectionClosed(h)
  <2>1. /\ conn[h] # "open" /\ conn'[h] # "open"
        /\ UNCHANGED <<my, at, told, device, active, isClosed, hook, known, closing>>
        /\ \A g \in Subs : g # h => run'[g] = run[g] /\ conn'[g] = conn[g]
    BY <1>0, <1>4 DEF CollectHandlers, ConnectionClosed, clientVars, subVars, sharedVars, RunTypes,
       CoreTypes, runVars
  <2> QED
    BY <2>1, EarlyEnds
<1>5. CASE CloseObservation(h) \/ OnClose(h)
  <2>1. /\ run[h] # "idle" \/ closing[h]
        /\ UNCHANGED <<my, at, told, device, active, hook, known, conn>>
        /\ \A g \in Subs : g # h => run'[g] = run[g] /\ closing'[g] = closing[g] /\ isClosed'[g] = isClosed[g]
    BY <1>0, <1>5 DEF CloseObservation, OnClose, clientVars, subVars, sharedVars, RunTypes, CoreTypes
  <2> QED
    BY <2>1, EarlyEnds
<1>6. CASE DeleteFromCache(h)
  <2>1. /\ run[h] # "idle" /\ UNCHANGED <<my, at, told, device, coreVars>>
        /\ \A g \in Subs : g # h => run'[g] = run[g]
    BY <1>0, <1>6 DEF DeleteFromCache, subVars, sharedVars, RunTypes
  <2> QED
    BY <2>1, EarlyEnds DEF coreVars
<1>7. CASE StopLocked(h) \/ Ended(h)
  <2>1. /\ run[h] # "idle" /\ UNCHANGED <<my, at, told, device, conn, closing>>
        /\ \A g \in Subs : g # h => run'[g] = run[g]
    BY <1>0, <1>7 DEF StopLocked, Ended, clientVars, subVars, sharedVars, RunTypes
  <2>2. \/ CoreStop(h)
        \/ active' = [active EXCEPT ![h] = FALSE] /\ UNCHANGED <<known, hook, isClosed>>
        \/ UNCHANGED <<known, hook, isClosed, active>>
    BY <1>7 DEF StopLocked, StopOnDevice, Ended
  <2>3. /\ active'[h] => active[h]
        /\ known'[h] => known[h]
        /\ \A g \in Subs : g # h => /\ active'[g] = active[g] /\ isClosed'[g] = isClosed[g]
                                    /\ hook'[g] = hook[g] /\ known'[g] = known[g]
    BY <1>0, <2>2, CoreStopEffect DEF CoreTypes
  <2> QED
    BY <2>1, <2>3, EarlyEnds
<1>8. CASE NotifyEnd(h)
  <2>1. /\ run[h] = "notify" /\ UNCHANGED <<my, at, device, coreVars>>
        /\ \A g \in Subs : g # h => run'[g] = run[g]
        /\ \A s \in Subs : s \notin observations[h] => told'[s] = told[s]
    BY <1>0, <1>8, TypesSplit DEF NotifyEnd, clientVars, RunTypes, SubTypes
  <2>2. my[h] = h /\ at[h] \notin Early \union {"connect"} /\ ~(at[h] = "observe" /\ conn[h] = "open")
    BY <2>1, Begun
  <2>3. \A s \in Subs : s \in observations[h] => my[s] = h
    BY DEF MemberInv
  <2>4. ASSUME NEW s \in Subs, at[s] = "connect" \/ (at[s] = "observe" /\ conn[s] = "open")
        PROVE  s # h /\ told'[s] = told[s]
    <3>1. s # h /\ my[s] = s
      BY <2>2, <2>4 DEF MyInv, Creating
    <3> QED
      BY <2>1, <2>3, <3>1
  <2>5. ASSUME NEW g \in Subs, g # h, Pristine(g) PROVE Pristine(g)'
    BY <2>1, <2>5 DEF Pristine, coreVars
  <2> QED
    BY <2>1, <2>2, <2>4, <2>5 DEF EarlyInv, coreVars
<1>9. CASE ForgetObservation(h)
  <2>1. /\ known[h] /\ UNCHANGED <<my, at, told, device, active, isClosed, conn, run>>
        /\ ~known'[h]
        /\ \A g \in Subs : g # h => hook'[g] = hook[g] /\ closing'[g] = closing[g] /\ known'[g] = known[g]
    BY <1>0, <1>9 DEF ForgetObservation, clientVars, subVars, sharedVars, runVars, CoreTypes
  <2> QED
    BY <2>1, EarlyEnds
<1>10. CASE LoseConnection(h)
  <2>1. /\ hook[h] /\ UNCHANGED <<my, at, told, device, isClosed, hook, known, closing, run>>
        /\ conn[h] = "open" /\ conn'[h] = "ended" /\ ~active'[h]
        /\ \A g \in Subs : g # h => conn'[g] = conn[g] /\ active'[g] = active[g]
    BY <1>0, <1>10 DEF LoseConnection, clientVars, subVars, sharedVars, runVars, CoreTypes
  <2>2. my[h] = h /\ at[h] \notin Early \union {"connect"}
    BY <2>1 DEF EarlyInv
  <2>3. at[h] \in {"observe", "failed"} => ~known'[h]
    BY <2>1, <2>2 DEF EarlyInv
  <2> QED
    BY <2>1, <2>2, <2>3, EarlyOther
<1> QED
  BY <1>1, <1>2, <1>3, <1>4, <1>5, <1>6, <1>7, <1>8, <1>9, <1>10 DEF HandlerStep

LEMMA EarlyByCall ==
    ASSUME TypeOK, MyInv, MemberInv, EarlyInv, DyingInv, NEW s \in Subs,
           SubStep(s) \/ LockHandler(s) \/ HandleFirstMessage(s) \/ StopObservingResource(s)
    PROVE  EarlyInv'
<1> USE DEF Goto, Unlock
<1>0. CoreTypes /\ RunTypes /\ ClientTypes /\ SharedTypes
  BY TypesSplit
<1>a. at \in [Subs -> Places]
  BY <1>0 DEF ClientTypes
<1>1. CASE CreateHandler(s) \/ LoadHandler(s) \/ LockHandler(s) \/ ReadLastMessage(s)
  <2>1. /\ UNCHANGED <<coreRun, told>> /\ at[s] \in Early /\ at'[s] \in Early
        /\ \A t \in Subs : t # s => at'[t] = at[t] /\ my'[t] = my[t]
    BY <1>0, <1>1 DEF CreateHandler, LoadHandler, LockHandler, ReadLastMessage, ClientTypes, coreVars,
       coreRun, sharedVars, subVars, runVars, Early
  <2>2. Pristine(s) /\ ~hook[s] /\ conn[s] = "open"
    BY <2>1 DEF EarlyInv
  <2>3. \A g \in Subs : Pristine(g) => Pristine(g)'
    BY <2>1 DEF Pristine, coreRun
  <2>4. at'[s] \notin {"observe", "failed", "connect", "observing", "cancel", "stopped"} \union Creating
    BY <2>1 DEF Early, Creating
  <2> QED
    BY <2>1, <2>2, <2>3, <2>4 DEF EarlyInv, coreRun
<1>2. CASE StoreSubscriber(s)
  <2>1. /\ UNCHANGED <<coreRun, told, my>> /\ at[s] = "store"
        /\ at'[s] = IF my[s] = s THEN "connect" ELSE "observing"
        /\ \A t \in Subs : t # s => at'[t] = at[t]
    BY <1>a, <1>2 DEF StoreSubscriber, coreVars, coreRun, runVars
  <2>2. Pristine(s) /\ ~hook[s] /\ conn[s] = "open" /\ told[s] = 0
    BY <2>1 DEF EarlyInv, MemberInv, Early
  <2>3. \A g \in Subs : Pristine(g) => Pristine(g)'
    BY <2>1 DEF Pristine, coreRun
  <2>4. device[s] = "nil"
    BY <2>2 DEF Pristine
  <2> QED
    BY <2>1, <2>2, <2>3, <2>4 DEF EarlyInv, coreRun
<1>3. CASE Connect(s)
  <2>1. /\ UNCHANGED <<active, isClosed, conn, known, closing, device, run, told, my>> /\ at[s] = "connect"
        /\ at'[s] = "observe" /\ \A t \in Subs : t # s => at'[t] = at[t] /\ hook'[t] = hook[t]
    BY <1>a, <1>0, <1>3 DEF Connect, sharedVars, subVars, runVars, CoreTypes
  <2>2. Pristine(s) /\ told[s] = 0 /\ my[s] = s
    BY <2>1 DEF EarlyInv, MyInv, Creating
  <2>3. \A g \in Subs : Pristine(g) => Pristine(g)'
    BY <2>1 DEF Pristine
  <2>4. at'[s] \notin Early
    BY <2>1 DEF Early
  <2>5. ~active[s] /\ ~known[s] /\ device[s] = "nil"
    BY <2>2 DEF Pristine
  <2> QED
    BY <2>1, <2>2, <2>3, <2>4, <2>5 DEF EarlyInv
<1>4. CASE Observe(s) \/ RegisterObservation(s)
  <2>1. /\ UNCHANGED <<isClosed, conn, hook, closing, device, run, told, my>>
        /\ at[s] \in {"observe", "register"} /\ at'[s] \in {"register", "publish"}
        /\ \A t \in Subs : t # s => at'[t] = at[t] /\ active'[t] = active[t] /\ known'[t] = known[t]
    BY <1>a, <1>0, <1>4 DEF Observe, RegisterObservation, sharedVars, subVars, runVars, CoreTypes
  <2>2. my[s] = s /\ device[s] = "nil" /\ at'[s] \notin Early
    BY <2>1 DEF EarlyInv, MyInv, Creating, Early
  <2>3. \A g \in Subs : g # s /\ Pristine(g) => Pristine(g)'
    BY <2>1 DEF Pristine
  <2> QED
    BY <2>1, <2>2, <2>3 DEF EarlyInv
<1>5. CASE ObserveFails(s)
  <2>1. /\ UNCHANGED <<active, isClosed, conn, known, closing, device, run, told, my>>
        /\ at[s] \in {"connect", "observe"} /\ at'[s] = "failed"
        /\ \A t \in Subs : t # s => at'[t] = at[t] /\ hook'[t] = hook[t]
    BY <1>a, <1>0, <1>5 DEF ObserveFails, subVars, runVars, CoreTypes
  <2>2. my[s] = s /\ ~active[s] /\ ~known[s] /\ device[s] = "nil" /\ at'[s] \notin Early \union Creating
    BY <2>1 DEF EarlyInv, MyInv, Creating, Early, Pristine
  <2>3. \A g \in Subs : Pristine(g) => Pristine(g)'
    BY <2>1 DEF Pristine
  <2> QED
    BY <2>1, <2>2, <2>3 DEF EarlyInv
<1>6. CASE PublishDevice(s)
  <2>1. /\ UNCHANGED <<coreVars, run, told, my>> /\ at[s] = "publish" /\ at'[s] = "observing" /\ device'[s] # "nil"
        /\ \A t \in Subs : t # s => at'[t] = at[t] /\ device'[t] = device[t]
    BY <1>a, <1>0, <1>6 DEF PublishDevice, subVars, runVars, SharedTypes
  <2>2. my[s] = s /\ at'[s] \notin Early \union Creating
    BY <2>1 DEF MyInv, Creating, Early
  <2>3. \A g \in Subs : g # s /\ Pristine(g) => Pristine(g)'
    BY <2>1 DEF Pristine, coreVars
  <2> QED
    BY <2>1, <2>2, <2>3 DEF EarlyInv, coreVars
<1>7. CASE HandleFirstMessage(s)
  BY <1>7, EarlyKept DEF HandleFirstMessage, clientVars, sharedVars, coreVars, runVars, coreRun
<1>8. CASE StopObservingResource(s)
  <2>1. /\ UNCHANGED <<coreRun, told, my>> /\ at[s] = "observing" /\ at'[s] \in {"cancel", "stopped"}
        /\ \A t \in Subs : t # s => at'[t] = at[t]
    BY <1>a, <1>8 DEF StopObservingResource, coreVars, coreRun, runVars, subVars
  <2>2. at'[s] \notin Early \union Creating
    BY <2>1 DEF Early, Creating
  <2>3. \A g \in Subs : Pristine(g) => Pristine(g)'
    BY <2>1 DEF Pristine, coreRun
  <2> QED
    BY <2>1, <2>2, <2>3 DEF EarlyInv, coreRun
<1>9. CASE CancelObservation(s)
  <2>1. /\ UNCHANGED <<conn, closing, device, run, told, my>> /\ at[s] = "cancel" /\ at'[s] = "stopped"
        /\ \A t \in Subs : t # s => at'[t] = at[t]
        /\ CoreStop(my[s]) \/ UNCHANGED <<known, hook, isClosed, active>>
    BY <1>a, <1>9 DEF CancelObservation, StopOnDevice, sharedVars, subVars, runVars
  <2>2. PICK h \in Subs : h = my[s] /\ device[h] # "nil"
    BY <2>1, MyHandler DEF DyingInv
  <2>3. my[h] = h /\ at[h] \notin Early \union {"connect", "observe", "failed"}
    BY <2>2, Begun DEF EarlyInv, Creating
  <2>4. \A g \in Subs : g # h => /\ active'[g] = active[g] /\ isClosed'[g] = isClosed[g]
                                 /\ hook'[g] = hook[g] /\ known'[g] = known[g]
    BY <1>0, <2>1, <2>2, CoreStopEffect
  <2>5. \A g \in Subs : g # h /\ Pristine(g) => Pristine(g)'
    BY <2>1, <2>4 DEF Pristine
  <2>6. at'[s] \notin Early \union Creating
    BY <2>1 DEF Early, Creating
  <2> QED
    BY <2>1, <2>2, <2>3, <2>4, <2>5, <2>6 DEF EarlyInv
<1> QED
  BY <1>1, <1>2, <1>3, <1>4, <1>5, <1>6, <1>7, <1>8, <1>9 DEF SubStep

LEMMA NextEarly == ASSUME TypeOK, MyInv, MemberInv, EarlyInv, DyingInv, Next PROVE EarlyInv'
<1>1. CASE Change
  BY <1>1, EarlyKept DEF Change, clientVars, sharedVars, subVars, coreVars, runVars, coreRun
<1> QED
  BY <1>1, EarlyByCall, EarlyByHandler DEF Next

-----------------------------------------------------------------------------
(* The end of an observation                                                *)

LEMMA InitDying == Init => DyingInv
  BY DEF Init, DyingInv, Creating

LEMMA DyingKept == DyingInv /\ UNCHANGED <<coreRun, my, at, observations>> => DyingInv'
  BY DEF DyingInv, Dying, Gone, coreRun

\* Who has left a handler does not come back.
LEMMA GoneStays ==
    ASSUME TypeOK, MyInv, Next, NEW h \in Subs, Gone(h)
    PROVE  Gone(h)'
<1> USE DEF Goto
<1>0. ClientTypes /\ SharedTypes
  BY TypesSplit
<1>1. at[h] \notin Early /\ h \notin observations[h]
  BY DEF Gone
<1>2. ASSUME NEW s \in Subs, SubStep(s) \/ LockHandler(s) \/ StopObservingResource(s) PROVE Gone(h)'
  <2>1. \/ at'[s] = at[s]
        \/ s # h
        \/ at'[s] \notin Early
    BY <1>0, <1>1, <1>2 DEF ClientTypes, SubStep, CreateHandler, LoadHandler, LockHandler,
       ReadLastMessage, StoreSubscriber, Connect, Observe, ObserveFails, RegisterObservation,
       PublishDevice, CancelObservation, StopObservingResource, Early
  <2>2. \A t \in Subs : t # s => at'[t] = at[t]
    BY <1>0, <1>2 DEF ClientTypes, SubStep, CreateHandler, LoadHandler, LockHandler,
       ReadLastMessage, StoreSubscriber, Connect, Observe, ObserveFails, RegisterObservation,
       PublishDevice, CancelObservation, StopObservingResource
  <2>3. h \notin observations'[h]
    <3>1. CASE StoreSubscriber(s)
      <4>1. s # h
        BY <1>1, <3>1 DEF StoreSubscriber, Early
      <4> QED
        BY <1>0, <1>1, <3>1, <4>1 DEF StoreSubscriber, SharedTypes
    <3>2. CASE StopObservingResource(s)
      BY <1>0, <1>1, <3>2 DEF StopObservingResource, SharedTypes
    <3>3. CASE observations' = observations
      BY <1>1, <3>3
    <3> QED
      BY <1>2, <3>1, <3>2, <3>3 DEF SubStep, CreateHandler, LoadHandler, LockHandler,
         ReadLastMessage, Connect, Observe, ObserveFails, RegisterObservation,
         PublishDevice, CancelObservation, sharedVars
  <2> QED
    BY <1>1, <2>1, <2>2, <2>3 DEF Gone
<1>3. ASSUME NEW g \in Subs, NotifyEnd(g) PROVE Gone(h)'
  BY <1>0, <1>1, <1>3 DEF NotifyEnd, SharedTypes, clientVars, Gone
<1>4. ASSUME UNCHANGED <<at, observations>> PROVE Gone(h)'
  BY <1>1, <1>4 DEF Gone
<1>5. ASSUME NEW g \in Subs, HandlerStep(g) PROVE Gone(h)'
  BY <1>3, <1>4, <1>5 DEF HandlerStep, HandleMessage, HandleDone, CollectHandlers, ConnectionClosed,
     CloseObservation, OnClose, StopLocked, DeleteFromCache, Ended, clientVars, sharedVars
<1>6. ASSUME NEW g \in Subs,
             Receive(g) \/ ForgetObservation(g) \/ LoseConnection(g) \/ HandleFirstMessage(g)
      PROVE  Gone(h)'
  BY <1>4, <1>6 DEF Receive, Handle, HandleFails, ForgetObservation, LoseConnection,
     HandleFirstMessage, clientVars, sharedVars
<1>7. CASE Change
  BY <1>4, <1>7 DEF Change, clientVars, sharedVars
<1> QED
  BY <1>2, <1>5, <1>6, <1>7 DEF Next

\* What a step may do to handler h: it goes on telling the creator, and takes
\* the observation or its close handler away only for a reason.
Ending == {"uncache", "lock", "notify"}

Proceeds(h) ==
    /\ run[h] \in Ending => run'[h] \in Ending \/ Gone(h)'
    /\ run[h] = "close" => run'[h] \in Ending \union {"close"} \/ (isClosed[h] /\ run'[h] = "after")
    /\ run'[h] = "after" => run[h] = "after" \/ Gone(h)' \/ (run[h] = "close" /\ isClosed[h])
    /\ isClosed'[h] => isClosed[h] \/ run'[h] \in Ending \/ Gone(h)'

Keeps(h) ==
    /\ closing[h] => closing'[h] \/ run'[h] = "close"
    /\ conn[h] \in {"ended", "closing"} =>
           conn'[h] \in {"ended", "closing"} \/ run'[h] = "close" \/ (~hook[h] /\ UNCHANGED <<run, my, at, closing>>)
    /\ active[h] => active'[h] \/ run'[h] \in Ending \/ Gone(h)' \/ conn'[h] = "ended"
    /\ hook[h] => hook'[h] \/ run'[h] \in Ending \/ Gone(h)' \/ closing'[h] \/ at'[h] = "failed"

Arrives(h) ==
    /\ my'[h] = h /\ at'[h] \in {"register", "publish", "observing"} =>
           active'[h] \/ (my[h] = h /\ at[h] \in {"register", "publish", "observing"})
    /\ my'[h] = h /\ at'[h] \in {"observe", "register", "publish", "observing"} =>
           hook'[h] \/ (my[h] = h /\ at[h] \in {"observe", "register", "publish", "observing"})
    /\ at'[h] = "cancel" => /\ my'[h] = my[h]
                            /\ at[h] = "cancel" \/ (Gone(my[h])' /\ device[my[h]] # "nil")
    /\ device[h] # "nil" => device'[h] # "nil"

LEMMA DyingStep ==
    ASSUME TypeOK, MyInv, DyingInv, Next, \A h \in Subs : Proceeds(h) /\ Keeps(h) /\ Arrives(h)
    PROVE  DyingInv'
<1> USE DEF Closing, Ending
<1>1. \A h \in Subs : Gone(h) => Gone(h)'
  BY GoneStays
<1>2. ASSUME NEW s \in Subs, at'[s] = "cancel" PROVE Gone(my[s])' /\ device'[my[s]] # "nil" /\ my'[s] = my[s]
  <2>1. my'[s] = my[s] /\ (at[s] = "cancel" \/ (Gone(my[s])' /\ device[my[s]] # "nil"))
    BY <1>2 DEF Arrives
  <2>2. at[s] = "cancel" => my[s] \in Subs
    BY MyHandler
  <2>3. my[s] \in Subs
    <3>1. my[s] = None => at[s] = "new"
      BY DEF MyInv
    <3>2. at[s] = "new" => at'[s] # "cancel"
      BY DEF TypeOK, Next, SubStep, CreateHandler, LoadHandler, LockHandler, ReadLastMessage, StoreSubscriber,
         Connect, Observe, ObserveFails, RegisterObservation, PublishDevice, CancelObservation,
         StopObservingResource, HandleFirstMessage, HandlerStep, HandleMessage, HandleDone,
         CollectHandlers, ConnectionClosed, CloseObservation, OnClose, DeleteFromCache, StopLocked,
         NotifyEnd, Ended, Receive, Handle, HandleFails, ForgetObservation, LoseConnection, Change,
         Goto, clientVars
    <3> QED
      BY <1>2, <3>1, <3>2 DEF TypeOK
  <2>4. Gone(my[s])'
    BY <1>1, <2>1, <2>2 DEF DyingInv
  <2>5. device[my[s]] # "nil"
    BY <2>1 DEF DyingInv
  <2> QED
    BY <2>1, <2>3, <2>4, <2>5 DEF Arrives
<1>3. ASSUME NEW h \in Subs, isClosed'[h] PROVE run'[h] \in Ending \/ Gone(h)'
  BY <1>1, <1>3 DEF Proceeds, DyingInv
<1>4. ASSUME NEW h \in Subs, run'[h] = "after" PROVE Gone(h)'
  BY <1>1, <1>4 DEF Proceeds, DyingInv
<1>5. ASSUME NEW h \in Subs, Dying(h) PROVE Dying(h)'
  BY <1>1, <1>4, <1>5 DEF Proceeds, DyingInv, Dying
<1>6. ASSUME NEW h \in Subs, my'[h] = h, at'[h] \in {"observe", "register", "publish", "observing"}, ~hook'[h]
      PROVE  Dying(h)' \/ closing'[h]
  <2>1. my[h] = h /\ at[h] \in {"observe", "register", "publish", "observing"}
    BY <1>6 DEF Arrives
  <2>2. CASE hook[h]
    BY <1>6, <2>2 DEF Keeps, Dying
  <2>3. CASE ~hook[h]
    <3>1. Dying(h) \/ closing[h]
      BY <2>1, <2>3 DEF DyingInv
    <3> QED
      BY <1>5, <3>1 DEF Keeps, Dying
  <2> QED
    BY <2>2, <2>3
<1>7. ASSUME NEW h \in Subs, my'[h] = h, at'[h] \in {"register", "publish", "observing"}, ~active'[h]
      PROVE  Dying(h)' \/ conn'[h] \in {"ended", "closing"} \/ closing'[h]
  <2>1. my[h] = h /\ at[h] \in {"register", "publish", "observing"}
    BY <1>7 DEF Arrives
  <2>2. CASE active[h]
    BY <1>7, <2>2 DEF Keeps, Dying
  <2>3. CASE ~active[h]
    <3>1. Dying(h) \/ conn[h] \in {"ended", "closing"} \/ closing[h]
      BY <2>1, <2>3 DEF DyingInv
    <3>2. CASE Dying(h) \/ closing[h]
      BY <1>5, <3>2 DEF Keeps, Dying
    <3>3. CASE conn[h] \in {"ended", "closing"} /\ ~hook[h]
      BY <1>5, <2>1, <3>3 DEF DyingInv, Keeps, Dying
    <3>4. CASE conn[h] \in {"ended", "closing"} /\ hook[h]
      BY <3>4 DEF Keeps, Dying
    <3> QED
      BY <3>1, <3>2, <3>3, <3>4
  <2> QED
    BY <2>2, <2>3
<1> QED
  BY <1>2, <1>3, <1>4, <1>6, <1>7 DEF DyingInv

Untouched(g) ==
    /\ my'[g] = my[g] /\ at'[g] = at[g] /\ device'[g] = device[g]
    /\ run'[g] = run[g] /\ isClosed'[g] = isClosed[g] /\ closing'[g] = closing[g]
    /\ conn'[g] = conn[g] /\ active'[g] = active[g] /\ hook'[g] = hook[g]

LEMMA UntouchedKeeps ==
    ASSUME NEW g \in Subs, Untouched(g)
    PROVE  Proceeds(g) /\ Keeps(g) /\ Arrives(g)
  BY DEF Untouched, Proceeds, Keeps, Arrives

LEMMA DyingByHandler ==
    ASSUME TypeOK, MyInv, EarlyInv, DyingInv, Next, NEW h \in Subs,
           HandlerStep(h) \/ Receive(h) \/ ForgetObservation(h) \/ LoseConnection(h)
    PROVE  DyingInv'
<1> USE DEF Ending
<1>0. CoreTypes /\ RunTypes /\ SharedTypes
  BY TypesSplit
<1>g. Gone(h) => Gone(h)'
  BY GoneStays
<1>s. UNCHANGED <<my, at, device>>
  BY DEF HandlerStep, HandleMessage, HandleDone, CollectHandlers, ConnectionClosed, CloseObservation,
     OnClose, DeleteFromCache, StopLocked, NotifyEnd, Ended, Receive, Handle, HandleFails,
     ForgetObservation, LoseConnection, clientVars, sharedVars
<1>a. Arrives(h)
  BY <1>s DEF Arrives
<1>t. SUFFICES (\A g \in Subs : g # h => Untouched(g)) /\ Proceeds(h) /\ Keeps(h)
  BY <1>a, DyingStep, UntouchedKeeps
<1>1. CASE Receive(h)
  <2>1. /\ UNCHANGED coreVars /\ run[h] = "idle" /\ run'[h] \notin {"after", "close"}
        /\ \A g \in Subs : g # h => run'[g] = run[g]
    BY <1>0, <1>1 DEF Receive, Handle, HandleFails, RunTypes
  <2> QED
    BY <1>s, <2>1 DEF coreVars, Untouched, Proceeds, Keeps
<1>2. ASSUME NEW s \in Subs, HandleMessage(h, s)
      PROVE  (\A g \in Subs : g # h => Untouched(g)) /\ Proceeds(h) /\ Keeps(h)
  BY <1>s, <1>2 DEF HandleMessage, coreVars, Untouched, Proceeds, Keeps
<1>3. CASE HandleDone(h)
  <2>1. /\ UNCHANGED coreVars /\ run[h] = "range" /\ run'[h] \in {"idle", "close"}
        /\ \A g \in Subs : g # h => run'[g] = run[g]
    BY <1>0, <1>3 DEF HandleDone, RunTypes
  <2> QED
    BY <1>s, <2>1 DEF coreVars, Untouched, Proceeds, Keeps
<1>4. CASE CollectHandlers(h)
  <2>1. /\ UNCHANGED <<active, isClosed, hook, known, closing, run>> /\ conn[h] = "ended"
        /\ conn'[h] = "closing" \/ ~hook[h]
        /\ \A g \in Subs : g # h => conn'[g] = conn[g]
    BY <1>0, <1>4 DEF CollectHandlers, CoreTypes, runVars
  <2> QED
    BY <1>s, <2>1 DEF Untouched, Proceeds, Keeps
<1>5. CASE ConnectionClosed(h) \/ CloseObservation(h)
  <2>1. /\ UNCHANGED <<active, isClosed, hook>> /\ run[h] = "idle" /\ run'[h] = "close"
        /\ \A g \in Subs : g # h => conn'[g] = conn[g] /\ closing'[g] = closing[g] /\ run'[g] = run[g]
    BY <1>0, <1>5 DEF ConnectionClosed, CloseObservation, CoreTypes, RunTypes
  <2> QED
    BY <1>s, <2>1 DEF Untouched, Proceeds, Keeps
<1>6. CASE OnClose(h)
  <2>1. /\ UNCHANGED <<active, hook, conn, known, closing>> /\ run[h] = "close"
        /\ run'[h] = (IF isClosed[h] THEN "after" ELSE "uncache")
        /\ \A g \in Subs : g # h => isClosed'[g] = isClosed[g] /\ run'[g] = run[g]
    BY <1>0, <1>6 DEF OnClose, CoreTypes, RunTypes
  <2> QED
    BY <1>s, <2>1 DEF Untouched, Proceeds, Keeps
<1>7. CASE DeleteFromCache(h)
  <2>1. /\ UNCHANGED coreVars /\ run[h] = "uncache" /\ run'[h] \in {"notify", "lock"}
        /\ \A g \in Subs : g # h => run'[g] = run[g]
    BY <1>0, <1>7 DEF DeleteFromCache, RunTypes
  <2> QED
    BY <1>s, <2>1 DEF coreVars, Untouched, Proceeds, Keeps
<1>8. CASE StopLocked(h)
  <2>1. /\ UNCHANGED <<conn, closing>> /\ run[h] = "lock" /\ run'[h] = "notify"
        /\ \A g \in Subs : g # h => run'[g] = run[g]
        /\ CoreStop(h) \/ UNCHANGED <<known, hook, isClosed, active>>
    BY <1>0, <1>8 DEF StopLocked, StopOnDevice, RunTypes
  <2>2. \A g \in Subs : g # h => active'[g] = active[g] /\ isClosed'[g] = isClosed[g] /\ hook'[g] = hook[g]
    BY <1>0, <2>1, CoreStopEffect
  <2> QED
    BY <1>s, <2>1, <2>2 DEF Untouched, Proceeds, Keeps
<1>9. CASE NotifyEnd(h)
  <2>1. /\ UNCHANGED coreVars /\ run[h] = "notify" /\ run'[h] = "after" /\ observations'[h] = {}
        /\ \A g \in Subs : g # h => run'[g] = run[g]
    BY <1>0, <1>9 DEF NotifyEnd, RunTypes, SharedTypes
  <2>2. at[h] \notin Early
    BY <2>1, Begun
  <2>3. Gone(h)'
    BY <1>s, <2>1, <2>2 DEF Gone
  <2> QED
    BY <1>s, <2>1, <2>3 DEF coreVars, Untouched, Proceeds, Keeps
<1>10. CASE Ended(h)
  <2>1. /\ UNCHANGED <<conn, closing>> /\ run[h] = "after" /\ run'[h] \in {"idle", "close"}
        /\ \A g \in Subs : g # h => run'[g] = run[g]
        /\ \/ CoreStop(h)
           \/ active' = [active EXCEPT ![h] = FALSE] /\ UNCHANGED <<known, hook, isClosed>>
           \/ UNCHANGED <<known, hook, isClosed, active>>
    BY <1>0, <1>10 DEF Ended, RunTypes
  <2>2. \A g \in Subs : g # h => active'[g] = active[g] /\ isClosed'[g] = isClosed[g] /\ hook'[g] = hook[g]
    BY <1>0, <2>1, CoreStopEffect DEF CoreTypes
  <2>3. Gone(h)'
    BY <1>g, <2>1 DEF DyingInv
  <2> QED
    BY <1>s, <2>1, <2>2, <2>3 DEF Untouched, Proceeds, Keeps
<1>11. CASE ForgetObservation(h)
  <2>1. /\ UNCHANGED <<active, isClosed, conn, run>> /\ closing'[h]
        /\ \A g \in Subs : g # h => hook'[g] = hook[g] /\ closing'[g] = closing[g]
    BY <1>0, <1>11 DEF ForgetObservation, CoreTypes, runVars
  <2> QED
    BY <1>s, <2>1 DEF Untouched, Proceeds, Keeps
<1>12. CASE LoseConnection(h)
  <2>1. /\ UNCHANGED <<isClosed, hook, closing, run>> /\ conn'[h] = "ended"
        /\ \A g \in Subs : g # h => conn'[g] = conn[g] /\ active'[g] = active[g]
    BY <1>0, <1>12 DEF LoseConnection, CoreTypes, runVars
  <2> QED
    BY <1>s, <2>1 DEF Untouched, Proceeds, Keeps
<1> QED
  BY <1>1, <1>2, <1>3, <1>4, <1>5, <1>6, <1>7, <1>8, <1>9, <1>10, <1>11, <1>12 DEF HandlerStep

LEMMA DyingByCall ==
    ASSUME TypeOK, MyInv, MemberInv, EarlyInv, DyingInv, Next, NEW s \in Subs,
           SubStep(s) \/ LockHandler(s) \/ HandleFirstMessage(s) \/ StopObservingResource(s)
    PROVE  DyingInv'
<1> USE DEF Goto, Unlock
<1>0. CoreTypes /\ RunTypes /\ SharedTypes /\ ClientTypes
  BY TypesSplit
<1>a. at \in [Subs -> Places] /\ my \in [Subs -> Subs \union {None}]
  BY <1>0 DEF ClientTypes
<1>1. CASE CreateHandler(s) \/ LoadHandler(s) \/ LockHandler(s) \/ ReadLastMessage(s)
  <2>1. /\ UNCHANGED coreRun /\ at'[s] \in {"read", "wait", "store"}
        /\ \A g \in Subs : g # s => at'[g] = at[g] /\ my'[g] = my[g]
    BY <1>a, <1>1 DEF CreateHandler, LoadHandler, LockHandler, ReadLastMessage, coreVars,
       coreRun, sharedVars, runVars
  <2>2. Proceeds(s) /\ Keeps(s) /\ Arrives(s)
    BY <2>1 DEF coreRun, Proceeds, Keeps, Arrives
  <2>3. \A g \in Subs : g # s => Untouched(g)
    BY <2>1 DEF coreRun, Untouched
  <2> QED
    BY <2>2, <2>3, DyingStep, UntouchedKeeps
<1>2. CASE StoreSubscriber(s)
  <2>1. /\ UNCHANGED <<coreRun, my>> /\ at'[s] \in {"connect", "observing"} /\ (my[s] = s => at'[s] = "connect")
        /\ \A g \in Subs : g # s => at'[g] = at[g]
    BY <1>a, <1>2 DEF StoreSubscriber, coreVars, coreRun, runVars
  <2>2. Proceeds(s) /\ Keeps(s) /\ Arrives(s)
    BY <2>1 DEF coreRun, Proceeds, Keeps, Arrives
  <2>3. \A g \in Subs : g # s => Untouched(g)
    BY <2>1 DEF coreRun, Untouched
  <2> QED
    BY <2>2, <2>3, DyingStep, UntouchedKeeps
<1>3. CASE Connect(s)
  <2>1. /\ UNCHANGED <<active, isClosed, conn, closing, device, run, my>> /\ at'[s] = "observe" /\ hook'[s]
        /\ \A g \in Subs : g # s => at'[g] = at[g] /\ hook'[g] = hook[g]
    BY <1>a, <1>0, <1>3 DEF Connect, sharedVars, runVars, CoreTypes
  <2>2. Proceeds(s) /\ Keeps(s) /\ Arrives(s)
    BY <2>1 DEF Proceeds, Keeps, Arrives
  <2>3. \A g \in Subs : g # s => Untouched(g)
    BY <2>1 DEF Untouched
  <2> QED
    BY <2>2, <2>3, DyingStep, UntouchedKeeps
<1>4. CASE Observe(s) \/ RegisterObservation(s)
  <2>1. /\ UNCHANGED <<isClosed, hook, conn, closing, device, run, my>>
        /\ \/ at[s] = "observe" /\ at'[s] = "register" /\ active'[s]
           \/ at[s] = "register" /\ at'[s] = "publish" /\ active'[s] = active[s]
        /\ \A g \in Subs : g # s => at'[g] = at[g] /\ active'[g] = active[g]
    BY <1>a, <1>0, <1>4 DEF Observe, RegisterObservation, sharedVars, runVars, CoreTypes
  <2>2. Proceeds(s) /\ Keeps(s) /\ Arrives(s)
    BY <2>1 DEF Proceeds, Keeps, Arrives
  <2>3. \A g \in Subs : g # s => Untouched(g)
    BY <2>1 DEF Untouched
  <2> QED
    BY <2>2, <2>3, DyingStep, UntouchedKeeps
<1>5. CASE ObserveFails(s)
  <2>1. /\ UNCHANGED <<active, isClosed, conn, closing, device, run, my>> /\ at'[s] = "failed"
        /\ \A g \in Subs : g # s => at'[g] = at[g] /\ hook'[g] = hook[g]
    BY <1>a, <1>0, <1>5 DEF ObserveFails, runVars, CoreTypes
  <2>2. Proceeds(s) /\ Keeps(s) /\ Arrives(s)
    BY <2>1 DEF Proceeds, Keeps, Arrives
  <2>3. \A g \in Subs : g # s => Untouched(g)
    BY <2>1 DEF Untouched
  <2> QED
    BY <2>2, <2>3, DyingStep, UntouchedKeeps
<1>6. CASE PublishDevice(s)
  <2>1. /\ UNCHANGED <<coreVars, run, my>> /\ at[s] = "publish" /\ at'[s] = "observing" /\ device'[s] # "nil"
        /\ \A g \in Subs : g # s => at'[g] = at[g] /\ device'[g] = device[g]
    BY <1>a, <1>0, <1>6 DEF PublishDevice, runVars, SharedTypes
  <2>2. Proceeds(s) /\ Keeps(s) /\ Arrives(s)
    BY <2>1 DEF coreVars, Proceeds, Keeps, Arrives
  <2>3. \A g \in Subs : g # s => Untouched(g)
    BY <2>1 DEF coreVars, Untouched
  <2> QED
    BY <2>2, <2>3, DyingStep, UntouchedKeeps
<1>7. CASE HandleFirstMessage(s)
  BY <1>7, DyingKept DEF HandleFirstMessage, clientVars, sharedVars, coreVars, runVars, coreRun
<1>8. CASE StopObservingResource(s)
  <2>1. /\ UNCHANGED <<coreRun, my>> /\ at[s] = "observing" /\ at'[s] \in {"cancel", "stopped"}
        /\ \A g \in Subs : g # s => at'[g] = at[g]
        /\ at'[s] = "cancel" =>
              cache \in Subs /\ s \in observations[cache] /\ observations[cache] = {s}
              /\ device[cache] # "nil" /\ observations'[cache] = observations[cache] \ {s}
    BY <1>a, <1>0, <1>8 DEF StopObservingResource, coreVars, coreRun, runVars, ClientTypes, SharedTypes
  <2>2. ASSUME at'[s] = "cancel" PROVE Gone(my[s])' /\ device[my[s]] # "nil"
    <3>1. PICK h \in Subs : h = cache
      BY <2>1, <2>2
    <3>2. my[s] = h /\ (s # h => at[h] \in Settled)
      BY <2>1, <2>2, <3>1 DEF MemberInv
    <3>3. at'[h] \notin Early
      BY <2>1, <2>2, <3>2 DEF Early, Settled
    <3> QED
      BY <2>1, <2>2, <3>1, <3>2, <3>3 DEF Gone
  <2>3. Proceeds(s) /\ Keeps(s) /\ Arrives(s)
    BY <2>1, <2>2 DEF coreRun, Proceeds, Keeps, Arrives
  <2>4. \A g \in Subs : g # s => Untouched(g)
    BY <2>1 DEF coreRun, Untouched
  <2> QED
    BY <2>3, <2>4, DyingStep, UntouchedKeeps
<1>9. CASE CancelObservation(s)
  <2>1. /\ UNCHANGED <<conn, closing, device, run, my>> /\ at[s] = "cancel" /\ at'[s] = "stopped"
        /\ \A g \in Subs : g # s => at'[g] = at[g]
        /\ CoreStop(my[s]) \/ UNCHANGED <<known, hook, isClosed, active>>
    BY <1>a, <1>9 DEF CancelObservation, StopOnDevice, sharedVars, runVars
  <2>2. PICK h \in Subs : h = my[s] /\ Gone(h)
    BY <2>1, MyHandler DEF DyingInv
  <2>3. Gone(h)'
    BY <2>2, GoneStays
  <2>4. \A g \in Subs : g # h => /\ active'[g] = active[g] /\ isClosed'[g] = isClosed[g] /\ hook'[g] = hook[g]
    BY <1>0, <2>1, <2>2, CoreStopEffect
  <2>5. \A g \in Subs : Proceeds(g) /\ Keeps(g)
    BY <2>1, <2>3, <2>4 DEF Proceeds, Keeps
  <2>6. \A g \in Subs : at'[g] = at[g] \/ at'[g] = "stopped"
    BY <2>1
  <2>7. \A g \in Subs : Arrives(g)
    BY <2>1, <2>6 DEF Arrives
  <2> QED
    BY <2>5, <2>7, DyingStep
<1> QED
  BY <1>1, <1>2, <1>3, <1>4, <1>5, <1>6, <1>7, <1>8, <1>9 DEF SubStep

LEMMA NextDying == ASSUME TypeOK, MyInv, MemberInv, EarlyInv, DyingInv, Next PROVE DyingInv'
<1>1. CASE Change
  BY <1>1, DyingKept DEF Change, clientVars, sharedVars, coreVars, runVars, coreRun
<1> QED
  BY <1>1, DyingByCall, DyingByHandler DEF Next

-----------------------------------------------------------------------------
(* The order of messages                                                    *)

LEMMA InitOrder == Init => OrderInv
<1> SUFFICES ASSUME Init PROVE OrderInv
  OBVIOUS
<1>1. value = 1 /\ \A s \in Subs : /\ lastMessage[s] = 0 /\ todo[s] = {} /\ got[s] = 0 /\ ~starting[s]
                                   /\ firstMessage[s] = 0 /\ my[s] = None
  BY DEF Init
<1> QED
  BY <1>1 DEF OrderInv

orderVars == <<my, at, got, firstMessage, starting, lastMessage, todo, value>>

LEMMA OrderKept == OrderInv /\ UNCHANGED orderVars => OrderInv'
  BY DEF OrderInv, orderVars

LEMMA MessageTypes ==
    ASSUME TypeOK
    PROVE  /\ value \in Nat
           /\ \A s \in Subs : lastMessage[s] \in Nat /\ got[s] \in Nat /\ firstMessage[s] \in Nat
  BY BoundAssumption DEF TypeOK, Messages

\* A subscriber moves on, and nothing is given to it.
LEMMA OrderMoves ==
    ASSUME TypeOK, OrderInv, UNCHANGED <<my, got, firstMessage, starting, lastMessage, todo, value>>,
           NEW s \in Subs, NEW l \in Places, at' = [at EXCEPT ![s] = l],
           l \notin Early \/ (at[s] \in Early /\ l # "new")
    PROVE  OrderInv'
<1>1. at'[s] = l /\ \A t \in Subs : t # s => at'[t] = at[t]
  BY DEF TypeOK
<1> QED
  BY <1>1 DEF OrderInv

LEMMA NextOrder == ASSUME TypeOK, MyInv, MemberInv, OrderInv, Next PROVE OrderInv'
<1> USE DEF Goto, Unlock
<1>0. ClientTypes /\ SharedTypes /\ SubTypes /\ RunTypes
  BY TypesSplit
<1>m. /\ value \in Nat
      /\ \A s \in Subs : lastMessage[s] \in Nat /\ got[s] \in Nat /\ firstMessage[s] \in Nat
  BY MessageTypes
<1>1. ASSUME NEW s \in Subs, CreateHandler(s) \/ LoadHandler(s) PROVE OrderInv'
  <2>1. /\ UNCHANGED <<got, firstMessage, starting, lastMessage, todo, value>>
        /\ at[s] = "new" /\ at'[s] \in {"read", "wait"} /\ my'[s] \in Subs
        /\ \A t \in Subs : t # s => at'[t] = at[t] /\ my'[t] = my[t]
    BY <1>0, <1>1 DEF CreateHandler, LoadHandler, ClientTypes, sharedVars, subVars, runVars
  <2>2. got[s] = 0 /\ ~starting[s] /\ firstMessage[s] = 0 /\ \A h \in Subs : s \notin todo[h]
    BY <2>1 DEF OrderInv, Early
  <2>3. at'[s] # "new" /\ at'[s] \in Early
    BY <2>1 DEF Early
  <2>4. got[s] <= lastMessage[my'[s]] /\ firstMessage[s] <= lastMessage[my'[s]]
    BY <1>m, <2>1, <2>2
  <2> QED
    BY <2>1, <2>2, <2>3, <2>4 DEF OrderInv
<1>2. ASSUME NEW s \in Subs, LockHandler(s) PROVE OrderInv'
  BY <1>2, OrderMoves DEF LockHandler, subVars, runVars, Early, Places
<1>3. ASSUME NEW s \in Subs, ReadLastMessage(s) PROVE OrderInv'
  <2>1. my[s] \in Subs
    BY <1>3, MyHandler DEF ReadLastMessage
  <2>2. /\ UNCHANGED <<my, got, starting, lastMessage, todo, value>>
        /\ at[s] = "read" /\ at'[s] = "store" /\ firstMessage'[s] = lastMessage[my[s]]
        /\ \A t \in Subs : t # s => at'[t] = at[t] /\ firstMessage'[t] = firstMessage[t]
    BY <1>0, <1>3 DEF ReadLastMessage, ClientTypes, SubTypes, sharedVars, runVars
  <2>3. got[s] = 0 /\ ~starting[s] /\ \A h \in Subs : s \notin todo[h]
    BY <2>2 DEF OrderInv, Early
  <2>4. firstMessage'[s] <= lastMessage[my[s]]
    BY <1>m, <2>1, <2>2
  <2> QED
    BY <2>2, <2>3, <2>4 DEF OrderInv
<1>4. ASSUME NEW s \in Subs, StoreSubscriber(s) PROVE OrderInv'
  <2>1. /\ UNCHANGED <<my, got, firstMessage, lastMessage, todo, value>>
        /\ at[s] = "store" /\ at'[s] \in {"connect", "observing"}
        /\ \A t \in Subs : t # s => at'[t] = at[t] /\ starting'[t] = starting[t]
    BY <1>0, <1>4 DEF StoreSubscriber, ClientTypes, SubTypes, runVars
  <2>2. got[s] = 0
    BY <2>1 DEF OrderInv, Early
  <2>3. at'[s] \notin Early
    BY <2>1 DEF Early
  <2> QED
    BY <2>1, <2>2, <2>3 DEF OrderInv
<1>5. ASSUME NEW s \in Subs,
             Connect(s) \/ Observe(s) \/ RegisterObservation(s) \/ PublishDevice(s) \/ ObserveFails(s)
                        \/ CancelObservation(s)
      PROVE  OrderInv'
  BY <1>5, OrderMoves DEF Connect, Observe, RegisterObservation, PublishDevice, ObserveFails,
     CancelObservation, sharedVars, subVars, runVars, Early, Places
<1>6. ASSUME NEW s \in Subs, StopObservingResource(s) PROVE OrderInv'
  <2>1. PICK l \in {"cancel", "stopped"} : at' = [at EXCEPT ![s] = l]
    BY <1>6 DEF StopObservingResource
  <2> QED
    BY <1>6, <2>1, OrderMoves DEF StopObservingResource, subVars, runVars, Early, Places
<1>7. ASSUME NEW s \in Subs, HandleFirstMessage(s) PROVE OrderInv'
  <2>1. /\ UNCHANGED <<my, at, firstMessage, lastMessage, todo, value>> /\ starting[s]
        /\ ~starting'[s] /\ got'[s] \in {got[s], firstMessage[s]}
        /\ \A t \in Subs : t # s => starting'[t] = starting[t] /\ got'[t] = got[t]
    BY <1>0, <1>7 DEF HandleFirstMessage, SubTypes, clientVars, sharedVars, runVars
  <2>2. at[s] \notin Early
    BY <2>1 DEF OrderInv
  <2>3. my[s] # None => got'[s] <= lastMessage[my[s]]
    BY <2>1 DEF OrderInv
  <2> QED
    BY <2>1, <2>2, <2>3 DEF OrderInv
<1>8. ASSUME NEW h \in Subs, Receive(h) PROVE OrderInv'
  <2>1. CASE UNCHANGED orderVars
    BY <2>1, OrderKept
  <2>2. ASSUME NEW last \in BOOLEAN, Handle(h, last), ~isClosed[h] PROVE OrderInv'
    <3>1. /\ UNCHANGED <<my, at, got, firstMessage, starting, value>> /\ lastMessage'[h] = value
          /\ todo'[h] = observations[h]
          /\ \A g \in Subs : g # h => lastMessage'[g] = lastMessage[g] /\ todo'[g] = todo[g]
      BY <1>0, <2>2 DEF Handle, SharedTypes, RunTypes, clientVars, subVars
    <3>2. \A s \in Subs : s \in todo'[h] => my[s] = h /\ at[s] \notin Early
      BY <3>1 DEF MemberInv
    <3>3. \A g \in Subs : lastMessage[g] <= lastMessage'[g] /\ lastMessage'[g] <= value /\ lastMessage'[g] \in Nat
      BY <1>m, <3>1 DEF OrderInv
    <3>4. ASSUME NEW s \in Subs, my[s] # None
          PROVE  got[s] <= lastMessage'[my[s]] /\ firstMessage[s] <= lastMessage'[my[s]]
      <4>1. my[s] \in Subs
        BY <1>0, <3>4 DEF ClientTypes
      <4>2. got[s] <= lastMessage[my[s]] /\ firstMessage[s] <= lastMessage[my[s]]
        BY <3>4 DEF OrderInv
      <4> QED
        BY <1>m, <3>3, <4>1, <4>2
    <3> QED
      BY <3>1, <3>2, <3>3, <3>4 DEF OrderInv
  <2> QED
    BY <1>8, <2>1, <2>2 DEF Receive, Handle, HandleFails, clientVars, sharedVars, subVars, orderVars
<1>9. ASSUME NEW h \in Subs, NEW s \in Subs, HandleMessage(h, s) PROVE OrderInv'
  <2>1. /\ UNCHANGED <<my, at, starting, lastMessage, value>> /\ s \in todo[h]
        /\ got'[s] = lastMessage[h] /\ firstMessage'[s] = 0
        /\ \A t \in Subs : t # s => got'[t] = got[t] /\ firstMessage'[t] = firstMessage[t]
        /\ \A g \in Subs : todo'[g] \subseteq todo[g]
    BY <1>0, <1>9 DEF HandleMessage, SubTypes, RunTypes, clientVars, sharedVars
  <2>2. my[s] = h /\ at[s] \notin Early
    BY <2>1 DEF OrderInv
  <2>3. got'[s] <= lastMessage[my[s]] /\ firstMessage'[s] <= lastMessage[my[s]]
    BY <1>m, <2>1, <2>2
  <2> QED
    BY <2>1, <2>2, <2>3 DEF OrderInv
<1>10. ASSUME NEW h \in Subs, HandleDone(h) PROVE OrderInv'
  <2>1. /\ UNCHANGED <<my, at, got, firstMessage, starting, lastMessage, value>>
        /\ \A g \in Subs : todo'[g] \subseteq todo[g]
    BY <1>0, <1>10 DEF HandleDone, RunTypes, clientVars, sharedVars, subVars
  <2> QED
    BY <2>1 DEF OrderInv
<1>11. ASSUME NEW h \in Subs, HandlerStep(h) PROVE OrderInv'
  BY <1>9, <1>10, <1>11, OrderKept DEF HandlerStep, CollectHandlers, ConnectionClosed, CloseObservation,
     OnClose, DeleteFromCache, StopLocked, NotifyEnd, Ended, clientVars, sharedVars, subVars, runVars, orderVars
<1>12. ASSUME NEW h \in Subs, ForgetObservation(h) \/ LoseConnection(h) PROVE OrderInv'
  BY <1>12, OrderKept DEF ForgetObservation, LoseConnection, clientVars, sharedVars, subVars, runVars, orderVars
<1>13. CASE Change
  <2>1. UNCHANGED <<my, at, got, firstMessage, starting, lastMessage, todo>> /\ value' = value + 1
    BY <1>13 DEF Change, clientVars, sharedVars, subVars, runVars
  <2>2. \A h \in Subs : lastMessage[h] <= value'
    BY <1>m, <2>1 DEF OrderInv
  <2> QED
    BY <2>1, <2>2 DEF OrderInv
<1> QED
  BY <1>1, <1>2, <1>3, <1>4, <1>5, <1>6, <1>7, <1>8, <1>11, <1>12, <1>13 DEF Next, SubStep

\* What OrderInv is for.
LEMMA GotGrows == ASSUME TypeOK, OrderInv, Next PROVE \A s \in Subs : got'[s] >= got[s]
<1>0. SubTypes /\ \A s \in Subs : lastMessage[s] \in Nat /\ got[s] \in Nat /\ firstMessage[s] \in Nat
  BY TypesSplit, MessageTypes
<1>1. ASSUME NEW s \in Subs, HandleFirstMessage(s) PROVE \A t \in Subs : got'[t] >= got[t]
  <2>1. starting[s] /\ (got'[s] = got[s] \/ (firstMessage[s] # 0 /\ got'[s] = firstMessage[s]))
        /\ \A t \in Subs : t # s => got'[t] = got[t]
    BY <1>0, <1>1 DEF HandleFirstMessage, SubTypes
  <2>2. got'[s] >= got[s]
    BY <1>0, <2>1 DEF OrderInv
  <2> QED
    BY <1>0, <2>1, <2>2
<1>2. ASSUME NEW h \in Subs, NEW s \in Subs, HandleMessage(h, s) PROVE \A t \in Subs : got'[t] >= got[t]
  <2>1. s \in todo[h] /\ got'[s] = lastMessage[h] /\ \A t \in Subs : t # s => got'[t] = got[t]
    BY <1>0, <1>2 DEF HandleMessage, SubTypes
  <2>2. my[s] = h /\ h # None
    BY <2>1, NoneAssumption DEF OrderInv
  <2>3. got[s] <= lastMessage[h]
    BY <2>2 DEF OrderInv
  <2> QED
    BY <1>0, <2>1, <2>3
<1>3. CASE UNCHANGED got
  BY <1>0, <1>3
<1>4. \/ \E s \in Subs : HandleFirstMessage(s)
      \/ \E h, s \in Subs : HandleMessage(h, s)
      \/ UNCHANGED got
  BY DEF Next, SubStep, CreateHandler, LoadHandler, LockHandler, ReadLastMessage, StoreSubscriber,
     Connect, Observe, ObserveFails, RegisterObservation, PublishDevice, CancelObservation,
     StopObservingResource, HandlerStep, HandleDone, CollectHandlers, ConnectionClosed,
     CloseObservation, OnClose, DeleteFromCache, StopLocked, NotifyEnd, Ended, Receive, Handle,
     HandleFails, ForgetObservation, LoseConnection, Change, subVars
<1> QED
  BY <1>1, <1>2, <1>3, <1>4

-----------------------------------------------------------------------------
(* Observations nobody wants                                                *)

LEMMA InitCreated == Init => CreatedInv
  BY NoneAssumption DEF Init, CreatedInv

LEMMA NextCreated ==
    ASSUME TypeOK, MyInv, MemberInv, EarlyInv, CreatedInv, Next
    PROVE  CreatedInv'
<1> USE NoneAssumption DEF Goto, Unlock
<1>0. at \in [Subs -> Places] /\ my \in [Subs -> Subs \union {None}] /\ conn \in [Subs -> {"open", "ended", "closing", "done"}]
  BY DEF TypeOK
<1> DEFINE Making == {"read", "store", "connect", "observe"}
<1>1. ASSUME NEW s \in Subs, CreateHandler(s) PROVE CreatedInv'
  <2>1. /\ cache = None /\ cache' = s /\ UNCHANGED <<conn, evicted>>
        /\ \A h \in Subs : h # s => my'[h] = my[h] /\ at'[h] = at[h]
    BY <1>0, <1>1 DEF CreateHandler, coreVars
  <2> QED
    BY <2>1 DEF CreatedInv
<1>2. ASSUME NEW g \in Subs, DeleteFromCache(g) PROVE CreatedInv'
  <2>1. UNCHANGED <<my, at, conn>> /\ evicted' = evicted \union ({cache} \ {g, None}) /\ run[g] = "uncache"
    BY <1>2 DEF DeleteFromCache, coreVars
  <2>2. ~(my[g] = g /\ at[g] \in Making /\ conn[g] = "open")
    BY <2>1 DEF EarlyInv, Pristine, Early
  <2> QED
    BY <2>1, <2>2 DEF CreatedInv
<1>3. ASSUME NEW s \in Subs, StopObservingResource(s) PROVE CreatedInv'
  <2>1. /\ UNCHANGED <<my, conn, evicted>> /\ at[s] = "observing" /\ at'[s] \in {"cancel", "stopped"}
        /\ \A h \in Subs : h # s => at'[h] = at[h]
        /\ cache' = cache \/ s \in observations[cache]
    BY <1>0, <1>3 DEF StopObservingResource, coreVars
  <2>2. ASSUME NEW h \in Subs, cache = h, at[h] \in Making PROVE s \notin observations[h]
    BY <2>1, <2>2 DEF MemberInv, Settled
  <2> QED
    BY <2>1, <2>2 DEF CreatedInv
<1>4. ASSUME NEW s \in Subs,
             \/ LoadHandler(s) \/ ReadLastMessage(s) \/ StoreSubscriber(s) \/ Connect(s) \/ Observe(s)
             \/ ObserveFails(s) \/ RegisterObservation(s) \/ PublishDevice(s) \/ CancelObservation(s)
             \/ LockHandler(s) \/ HandleFirstMessage(s)
      PROVE  CreatedInv'
  <2>1. UNCHANGED <<cache, conn, evicted>>
    BY <1>4 DEF LoadHandler, ReadLastMessage, StoreSubscriber, Connect, Observe, ObserveFails,
       RegisterObservation, PublishDevice, CancelObservation, LockHandler, HandleFirstMessage,
       clientVars, coreVars
  <2>2. \A h \in Subs : h # s => my'[h] = my[h] /\ at'[h] = at[h]
    BY <1>0, <1>4 DEF LoadHandler, ReadLastMessage, StoreSubscriber, Connect, Observe, ObserveFails,
       RegisterObservation, PublishDevice, CancelObservation, LockHandler, HandleFirstMessage,
       clientVars
  <2>3. my'[s] = s /\ at'[s] \in Making => my[s] = s /\ at[s] \in Making
    BY <1>0, <1>4 DEF LoadHandler, ReadLastMessage, StoreSubscriber, Connect, Observe, ObserveFails,
       RegisterObservation, PublishDevice, CancelObservation, LockHandler, HandleFirstMessage,
       clientVars, MyInv
  <2> QED
    BY <2>1, <2>2, <2>3 DEF CreatedInv
<1>5. ASSUME NEW h \in Subs,
             \/ \E s \in Subs : HandleMessage(h, s)
             \/ HandleDone(h) \/ CollectHandlers(h) \/ ConnectionClosed(h) \/ CloseObservation(h)
             \/ OnClose(h) \/ StopLocked(h) \/ NotifyEnd(h) \/ Ended(h)
             \/ Receive(h) \/ ForgetObservation(h) \/ LoseConnection(h)
      PROVE  CreatedInv'
  <2>1. UNCHANGED <<cache, my, at, evicted>>
    BY <1>5 DEF HandleMessage, HandleDone, CollectHandlers, ConnectionClosed, CloseObservation, OnClose,
       StopLocked, NotifyEnd, Ended, Receive, Handle, HandleFails, ForgetObservation, LoseConnection, clientVars
  <2>2. \A g \in Subs : conn'[g] = "open" => conn[g] = "open"
    BY <1>0, <1>5 DEF HandleMessage, HandleDone, CollectHandlers, ConnectionClosed, CloseObservation, OnClose,
       StopLocked, NotifyEnd, Ended, Receive, Handle, HandleFails, ForgetObservation, LoseConnection, coreVars
  <2> QED
    BY <2>1, <2>2 DEF CreatedInv
<1>6. CASE Change
  BY <1>6 DEF Change, clientVars, coreVars, CreatedInv
<1> QED
  BY <1>1, <1>2, <1>3, <1>4, <1>5, <1>6 DEF Next, SubStep, HandlerStep

LEMMA InitLeak == Init => LeakInv
  BY NoneAssumption DEF Init, LeakInv, KnownAt, CachedAt, OutAt, Closing

SameRun(g) == run'[g] = run[g] /\ why'[g] = why[g] /\ closing'[g] = closing[g]

\* A step that leaves the run of a handler alone, and neither observes nor
\* forgets, preserves KnownAt.
LEMMA KnownKept ==
    ASSUME NEW g \in Subs, KnownAt(g), SameRun(g), active'[g] => active[g],
           ~known'[g] /\ active'[g] => ~known[g],
           at[g] = "register" => at'[g] = "register" \/ known'[g] \/ ~active'[g]
    PROVE  KnownAt(g)'
  BY DEF KnownAt, SameRun, ByDevice

\* One that does not empty the handler in the cache preserves CachedAt.
LEMMA CachedKept ==
    ASSUME NEW g \in Subs, CachedAt(g), cache' = g => cache = g,
           run'[g] \in {"lock", "notify"} => run[g] \in {"lock", "notify"},
           \A s \in observations'[g] : \/ s \in observations[g] /\ at'[s] = at[s]
                                       \/ at'[s] \in Creating \union {"observing", "failed"},
           at'[g] \notin Early => at[g] \notin Early \/ observations'[g] # {},
           observations'[g] = {} => observations[g] = {}
    PROVE  CachedAt(g)'
  BY DEF CachedAt

\* One that takes no handler out of the cache, and ends no cancellation but
\* with the observation, preserves OutAt.
LEMMA OutKept ==
    ASSUME NEW g \in Subs, OutAt(g), SameRun(g), active'[g] => active[g], cache = g => cache' = g,
           Stoppable(g)' => Stoppable(g), Cancelled(g) => Cancelled(g)' \/ ~active'[g]
    PROVE  OutAt(g)'
  BY DEF OutAt, SameRun, ByDevice

\* Steps of a handler leave the others alone, but for the one it evicts.
LEMMA LeakByHandler ==
    ASSUME TypeOK, MyInv, EarlyInv, LeakInv, NEW h \in Subs,
           HandlerStep(h) \/ Receive(h) \/ ForgetObservation(h) \/ LoseConnection(h)
    PROVE  LeakInv'
<1> USE NoneAssumption DEF Closing
<1>0. CoreTypes /\ RunTypes /\ SharedTypes /\ ClientTypes
  BY TypesSplit
<1>s. UNCHANGED <<my, at, device>>
  BY DEF HandlerStep, HandleMessage, HandleDone, CollectHandlers, ConnectionClosed, CloseObservation,
     OnClose, DeleteFromCache, StopLocked, NotifyEnd, Ended, Receive, Handle, HandleFails,
     ForgetObservation, LoseConnection, clientVars, sharedVars
<1>c. \A g \in Subs : Cancelled(g) <=> Cancelled(g)'
  BY <1>s DEF Cancelled
<1>h. KnownAt(h) /\ CachedAt(h) /\ OutAt(h)
  BY DEF LeakInv
<1>g. ASSUME NEW g \in Subs, g # h, SameRun(g), active'[g] = active[g], known'[g] = known[g],
             observations'[g] = observations[g],
             UNCHANGED <<cache, evicted>> \/ (cache' = None /\ (cache = g => g \in evicted')
                                              /\ evicted \subseteq evicted')
      PROVE  KnownAt(g)' /\ CachedAt(g)' /\ OutAt(g)'
  <2>1. KnownAt(g) /\ CachedAt(g) /\ OutAt(g)
    BY DEF LeakInv
  <2>2. KnownAt(g)'
    BY <1>s, <1>g, <2>1, KnownKept
  <2>3. CachedAt(g)'
    BY <1>s, <1>g, <2>1, CachedKept DEF SameRun
  <2>4. OutAt(g)'
    <3>1. CASE cache = g => cache' = g
      BY <1>s, <1>c, <1>g, <2>1, <3>1, OutKept DEF Stoppable
    <3>2. CASE ~(cache = g => cache' = g)
      BY <1>g, <3>2 DEF OutAt, Stoppable
    <3> QED
      BY <3>1, <3>2
  <2> QED
    BY <2>2, <2>3, <2>4
<1>t. SUFFICES /\ \A g \in Subs : g # h => /\ SameRun(g) /\ active'[g] = active[g] /\ known'[g] = known[g]
                                           /\ observations'[g] = observations[g]
               /\ \/ UNCHANGED <<cache, evicted>>
                  \/ cache' = None /\ (cache \in {h, None} \/ cache \in evicted') /\ evicted \subseteq evicted'
               /\ KnownAt(h)' /\ CachedAt(h)' /\ OutAt(h)'
  BY <1>g DEF LeakInv
<1>1. CASE Receive(h)
  <2>1. /\ UNCHANGED <<coreVars, observations, cache, evicted>> /\ run[h] = "idle"
        /\ run'[h] \in {"idle", "range", "uncache"}
        /\ \A g \in Subs : g # h => run'[g] = run[g] /\ why'[g] = why[g]
    BY <1>0, <1>1 DEF Receive, Handle, HandleFails, RunTypes, sharedVars, clientVars
  <2> QED
    BY <1>c, <1>h, <1>s, <2>1 DEF coreVars, SameRun, KnownAt, CachedAt, OutAt, ByDevice, Stoppable
<1>2. ASSUME NEW s \in Subs, HandleMessage(h, s)
      PROVE  /\ \A g \in Subs : g # h => /\ SameRun(g) /\ active'[g] = active[g] /\ known'[g] = known[g]
                                         /\ observations'[g] = observations[g]
             /\ UNCHANGED <<cache, evicted>>
             /\ KnownAt(h)' /\ CachedAt(h)' /\ OutAt(h)'
  <2>1. UNCHANGED <<coreVars, observations, cache, evicted, run, why>>
    BY <1>2 DEF HandleMessage, sharedVars, clientVars
  <2> QED
    BY <1>c, <1>h, <1>s, <2>1 DEF coreVars, SameRun, KnownAt, CachedAt, OutAt, ByDevice, Stoppable
<1>3. CASE HandleDone(h)
  <2>1. /\ UNCHANGED <<coreVars, observations, why, cache, evicted>> /\ run[h] = "range"
        /\ run'[h] \in {"close", "idle"}
        /\ \A g \in Subs : g # h => run'[g] = run[g]
    BY <1>0, <1>3 DEF HandleDone, RunTypes, sharedVars, clientVars
  <2> QED
    BY <1>c, <1>h, <1>s, <2>1 DEF coreVars, SameRun, KnownAt, CachedAt, OutAt, ByDevice, Stoppable
<1>4. CASE CollectHandlers(h)
  <2>1. UNCHANGED <<active, known, closing, run, why, observations, cache, evicted>>
    BY <1>4 DEF CollectHandlers, runVars, sharedVars, clientVars
  <2> QED
    BY <1>c, <1>h, <1>s, <2>1 DEF SameRun, KnownAt, CachedAt, OutAt, ByDevice, Stoppable
<1>5. CASE ConnectionClosed(h)
  <2>1. /\ UNCHANGED <<active, known, closing, observations, cache, evicted>>
        /\ run[h] = "idle" /\ run'[h] = "close"
        /\ \A g \in Subs : g # h => run'[g] = run[g] /\ why'[g] = why[g]
    BY <1>0, <1>5 DEF ConnectionClosed, RunTypes, sharedVars, clientVars
  <2> QED
    BY <1>c, <1>h, <1>s, <2>1 DEF SameRun, KnownAt, CachedAt, OutAt, ByDevice, Stoppable
<1>6. CASE CloseObservation(h)
  <2>1. /\ UNCHANGED <<active, known, observations, cache, evicted>>
        /\ run'[h] = "close" /\ why'[h] = "deviceClose"
        /\ \A g \in Subs : g # h => closing'[g] = closing[g] /\ run'[g] = run[g] /\ why'[g] = why[g]
    BY <1>0, <1>6 DEF CloseObservation, CoreTypes, RunTypes, sharedVars, clientVars
  <2> QED
    BY <1>h, <1>s, <2>1 DEF SameRun, KnownAt, CachedAt, OutAt, ByDevice
<1>7. CASE OnClose(h)
  <2>1. /\ UNCHANGED <<active, known, closing, observations, why, cache, evicted>>
        /\ run[h] = "close" /\ run'[h] \in {"uncache", "after"}
        /\ \A g \in Subs : g # h => run'[g] = run[g]
    BY <1>0, <1>7 DEF OnClose, RunTypes, sharedVars, clientVars
  <2> QED
    BY <1>c, <1>h, <1>s, <2>1 DEF SameRun, KnownAt, CachedAt, OutAt, ByDevice, Stoppable
<1>8. CASE DeleteFromCache(h)
  <2>1. /\ UNCHANGED <<active, known, closing, observations, why>>
        /\ run[h] = "uncache" /\ run'[h] \in {"notify", "lock"} /\ (cache = h => run'[h] = "lock")
        /\ \A g \in Subs : g # h => run'[g] = run[g]
        /\ cache' = None /\ evicted' = evicted \union ({cache} \ {h, None})
    BY <1>0, <1>8 DEF DeleteFromCache, coreVars, RunTypes, sharedVars
  <2>2. KnownAt(h)' /\ CachedAt(h)'
    BY <1>h, <1>s, <2>1 DEF KnownAt, CachedAt, ByDevice
  <2>3. OutAt(h)'
    BY <1>c, <1>h, <1>s, <2>1 DEF OutAt, ByDevice, Stoppable
  <2> QED
    BY <2>1, <2>2, <2>3 DEF SameRun
<1>9. CASE StopLocked(h)
  <2>1. /\ UNCHANGED <<closing, observations, why, cache, evicted>> /\ run[h] = "lock" /\ run'[h] = "notify"
        /\ \A g \in Subs : g # h => run'[g] = run[g]
        /\ lock[h] = None /\ StopOnDevice(h)
    BY <1>0, <1>9 DEF StopLocked, RunTypes, sharedVars, clientVars
  <2>2. CoreStop(h) \/ UNCHANGED <<known, hook, isClosed, active>>
    BY <2>1 DEF StopOnDevice
  <2>3. /\ \A g \in Subs : g # h => active'[g] = active[g] /\ known'[g] = known[g]
        /\ ~active'[h] \/ (active'[h] = active[h] /\ known'[h] = known[h])
    BY <1>0, <2>2, CoreStopEffect
  <2>4. KnownAt(h)' /\ CachedAt(h)'
    BY <1>h, <1>s, <2>1, <2>3 DEF KnownAt, CachedAt, ByDevice
  <2>5. ASSUME active'[h], Stoppable(h)' PROVE closing'[h] \/ ByDevice(h)'
    <3>1. active[h] /\ Stoppable(h)
      BY <1>s, <2>1, <2>3, <2>5 DEF Stoppable
    <3>0. my[h] = h
      BY <3>1 DEF EarlyInv, Pristine
    <3>2. at[h] \notin Holding
      BY <2>1, <3>0 DEF MyInv
    <3>3. my[h] = h /\ at[h] \in {"observing", "cancel", "stopped"}
      BY <1>0, <3>1, <3>2 DEF EarlyInv, Pristine, Early, Holding, Creating, ClientTypes, Places
    <3>4. device[h] = "observed"
      BY <1>0, <3>1, <3>3 DEF EarlyInv, Stoppable, SharedTypes
    <3>5. ~known[h]
      BY <1>0, <2>1, <2>5, <3>4, CoreStopEffect DEF StopOnDevice
    <3>6. closing[h] \/ ByDevice(h)
      BY <1>h, <3>1, <3>3, <3>5 DEF KnownAt
    <3> QED
      BY <2>1, <3>6 DEF ByDevice
  <2>6. OutAt(h)'
    BY <2>5 DEF OutAt
  <2> QED
    BY <2>1, <2>3, <2>4, <2>6 DEF SameRun
<1>10. CASE NotifyEnd(h)
  <2>1. /\ UNCHANGED <<coreVars, why, cache, evicted>> /\ run[h] = "notify" /\ run'[h] = "after"
        /\ \A g \in Subs : g # h => run'[g] = run[g] /\ observations'[g] = observations[g]
    BY <1>0, <1>10 DEF NotifyEnd, RunTypes, SharedTypes, clientVars
  <2>2. cache # h
    BY <1>h, <2>1 DEF CachedAt
  <2> QED
    BY <1>c, <1>h, <1>s, <2>1, <2>2 DEF coreVars, SameRun, KnownAt, CachedAt, OutAt, ByDevice, Stoppable
<1>11. CASE Ended(h)
  <2>1. /\ UNCHANGED <<closing, observations, cache, evicted>> /\ run[h] = "after"
        /\ run'[h] \in {"idle", "close"}
        /\ \A g \in Subs : g # h => run'[g] = run[g] /\ why'[g] = why[g]
        /\ \/ CoreStop(h)
           \/ active' = [active EXCEPT ![h] = FALSE] /\ known' = known
           \/ UNCHANGED <<known, active>>
        /\ why[h] = "deviceClose" => active' = [active EXCEPT ![h] = FALSE] /\ known' = known
    BY <1>0, <1>11 DEF Ended, RunTypes, sharedVars, clientVars
  <2>2. /\ \A g \in Subs : g # h => active'[g] = active[g] /\ known'[g] = known[g]
        /\ ~active'[h] \/ (active'[h] = active[h] /\ known'[h] = known[h])
        /\ why[h] = "deviceClose" => ~active'[h]
    BY <1>0, <2>1, CoreStopEffect DEF CoreTypes
  <2> QED
    BY <1>c, <1>h, <1>s, <2>1, <2>2 DEF SameRun, KnownAt, CachedAt, OutAt, ByDevice, Stoppable
<1>12. CASE ForgetObservation(h)
  <2>1. /\ UNCHANGED <<active, run, why, observations, cache, evicted>> /\ closing'[h]
        /\ \A g \in Subs : g # h => known'[g] = known[g] /\ closing'[g] = closing[g]
    BY <1>0, <1>12 DEF ForgetObservation, CoreTypes, runVars, sharedVars, clientVars
  <2> QED
    BY <1>h, <1>s, <2>1 DEF SameRun, KnownAt, CachedAt, OutAt
<1>13. CASE LoseConnection(h)
  <2>1. /\ UNCHANGED <<known, closing, run, why, observations, cache, evicted>> /\ ~active'[h]
        /\ \A g \in Subs : g # h => active'[g] = active[g]
    BY <1>0, <1>13 DEF LoseConnection, CoreTypes, runVars, sharedVars, clientVars
  <2> QED
    BY <1>h, <1>s, <2>1 DEF SameRun, KnownAt, CachedAt, OutAt
<1> QED
  BY <1>1, <1>2, <1>3, <1>4, <1>5, <1>6, <1>7, <1>8, <1>9, <1>10, <1>11, <1>12, <1>13 DEF HandlerStep

\* Nobody is in a handler that is not created yet.
LEMMA NewIsEmpty ==
    ASSUME TypeOK, MyInv, MemberInv, NEW s \in Subs, at[s] = "new"
    PROVE  observations[s] = {}
<1> SUFFICES ASSUME NEW t \in observations[s] PROVE FALSE
  OBVIOUS
<1>1. t \in Subs
  BY DEF TypeOK
<1>2. my[t] = s /\ my[s] = None
  BY <1>1 DEF MemberInv, MyInv
<1> QED
  BY <1>1, <1>2, NoneAssumption DEF MyInv

\* Calls of the client keep LeakInv.
LEMMA LeakByCall ==
    ASSUME TypeOK, MyInv, MemberInv, EarlyInv, DyingInv, CreatedInv, LeakInv, NEW s \in Subs,
           SubStep(s) \/ LockHandler(s) \/ HandleFirstMessage(s) \/ StopObservingResource(s)
    PROVE  LeakInv'
<1> USE NoneAssumption DEF Goto, Unlock
<1>0. CoreTypes /\ RunTypes /\ SharedTypes /\ ClientTypes
  BY TypesSplit
<1>a. at \in [Subs -> Places] /\ my \in [Subs -> Subs \union {None}]
  BY <1>0 DEF ClientTypes
<1>r. UNCHANGED <<runVars, closing, evicted>>
  BY DEF SubStep, CreateHandler, LoadHandler, LockHandler, ReadLastMessage, StoreSubscriber, Connect,
     Observe, ObserveFails, RegisterObservation, PublishDevice, CancelObservation,
     HandleFirstMessage, StopObservingResource, coreVars
<1>s. \A g \in Subs : SameRun(g)
  BY <1>r DEF SameRun, runVars
<1>l. \A g \in Subs : KnownAt(g) /\ CachedAt(g) /\ OutAt(g)
  BY DEF LeakInv
\* Steps of a call that neither leaves nor enters a handler.
<1>1. ASSUME UNCHANGED <<active, known, cache, observations>>, at[s] \notin {"register", "cancel"},
             \A t \in Subs : t # s => at'[t] = at[t] /\ my'[t] = my[t],
             at[s] \in Early => at'[s] \in Early,
             at[s] \notin Early => at'[s] \in Creating \union {"observing", "failed"},
             \A g \in Subs : Stoppable(g)' => Stoppable(g)
      PROVE  LeakInv'
  <2>1. \A g \in Subs : Cancelled(g) => Cancelled(g)'
    BY <1>1 DEF Cancelled
  <2>2. ASSUME NEW g \in Subs PROVE KnownAt(g)' /\ CachedAt(g)' /\ OutAt(g)'
    <3>1. KnownAt(g)'
      BY <1>s, <1>l, <1>1, KnownKept
    <3>2. \A t \in observations'[g] : \/ t \in observations[g] /\ at'[t] = at[t]
                                      \/ at'[t] \in Creating \union {"observing", "failed"}
      BY <1>1 DEF MemberInv, TypeOK
    <3>3. at'[g] \notin Early => at[g] \notin Early
      BY <1>1
    <3>4. CachedAt(g)'
      BY <1>s, <1>l, <1>1, <3>2, <3>3, CachedKept DEF SameRun
    <3>5. OutAt(g)'
      BY <1>s, <1>l, <1>1, <2>1, OutKept
    <3> QED
      BY <3>1, <3>4, <3>5
  <2> QED
    BY <2>2 DEF LeakInv
<1>2. CASE LoadHandler(s) \/ LockHandler(s) \/ ReadLastMessage(s)
  <2>1. /\ UNCHANGED <<active, known, cache, observations, device>> /\ at[s] \in Early /\ at'[s] \in Early
        /\ \A t \in Subs : t # s => at'[t] = at[t] /\ my'[t] = my[t]
    BY <1>a, <1>2 DEF LoadHandler, LockHandler, ReadLastMessage, coreVars, sharedVars, Early
  <2>2. at[s] \notin {"register", "cancel"}
    BY <2>1 DEF Early
  <2>3. \A g \in Subs : Stoppable(g)' => Stoppable(g)
    BY <1>r, <2>1 DEF Stoppable
  <2> QED
    BY <1>1, <2>1, <2>2, <2>3
<1>3. CASE CreateHandler(s)
  <2>1. /\ UNCHANGED <<active, known, observations, device>> /\ cache = None /\ cache' = s
        /\ at[s] = "new" /\ at'[s] = "read"
        /\ \A t \in Subs : t # s => at'[t] = at[t] /\ my'[t] = my[t]
    BY <1>a, <1>3 DEF CreateHandler, coreVars
  <2>2. \A g \in Subs : Cancelled(g) => Cancelled(g)'
    BY <2>1 DEF Cancelled
  <2>3. \A g \in Subs : KnownAt(g)'
    BY <1>s, <1>l, <2>1, KnownKept
  <2>4. run'[s] = "idle"
    BY <1>s, <2>1 DEF EarlyInv, Pristine, Early, SameRun
  <2>5. \A g \in Subs : CachedAt(g)'
    BY <2>1, <2>4, NewIsEmpty DEF CachedAt, Early
  <2>6. \A g \in Subs : OutAt(g)'
    BY <1>s, <1>l, <1>r, <2>1, <2>2, OutKept DEF Stoppable
  <2> QED
    BY <2>3, <2>5, <2>6 DEF LeakInv
<1>4. CASE StoreSubscriber(s)
  <2>1. my[s] \in Subs
    BY <1>4, MyHandler DEF StoreSubscriber
  <2>2. /\ UNCHANGED <<active, known, my, cache, device>> /\ at[s] = "store"
        /\ at'[s] \in {"connect", "observing"}
        /\ \A t \in Subs : t # s => at'[t] = at[t]
        /\ \A g \in Subs : /\ observations[g] \subseteq observations'[g]
                           /\ observations'[g] \subseteq observations[g] \union {s}
                           /\ g = my[s] => s \in observations'[g]
    BY <1>a, <1>0, <1>4, <2>1 DEF StoreSubscriber, coreVars, SharedTypes
  <2>3. \A g \in Subs : Cancelled(g) => Cancelled(g)'
    BY <2>2 DEF Cancelled
  <2>4. ASSUME NEW g \in Subs PROVE KnownAt(g)' /\ CachedAt(g)' /\ OutAt(g)'
    <3>1. KnownAt(g)'
      BY <1>s, <1>l, <2>2, KnownKept
    <3>2. OutAt(g)'
      BY <1>s, <1>l, <1>r, <2>2, <2>3, OutKept DEF Stoppable
    <3>3. \A t \in observations'[g] : \/ t \in observations[g] /\ at'[t] = at[t]
                                      \/ at'[t] \in Creating \union {"observing", "failed"}
      <4>1. \A t \in observations'[g] : t = s \/ (t \in observations[g] /\ t \in Subs)
        BY <1>0, <2>2 DEF SharedTypes
      <4> QED
        BY <2>2, <4>1 DEF Creating
    <3>4. cache = g => my[g] = g
      BY DEF MyInv
    <3>5. CASE cache = g
      <4>1. at'[g] \notin Early => at[g] \notin Early \/ observations'[g] # {}
        BY <2>2, <3>4, <3>5
      <4> QED
        BY <1>s, <1>l, <2>2, <3>1, <3>2, <3>3, <4>1, CachedKept DEF SameRun
    <3>6. CASE cache # g
      BY <2>2, <3>1, <3>2, <3>6 DEF CachedAt
    <3> QED
      BY <3>1, <3>2, <3>5, <3>6
  <2> QED
    BY <2>4 DEF LeakInv
<1>5. CASE Connect(s) \/ ObserveFails(s) \/ PublishDevice(s)
  <2>1. /\ UNCHANGED <<active, known, my, observations, cache>> /\ at[s] \in Creating \ {"register"}
        /\ at'[s] \in Creating \union {"observing", "failed"}
        /\ \A t \in Subs : t # s => at'[t] = at[t] /\ device'[t] = device[t]
        /\ device' = device \/ at[s] = "publish"
    BY <1>a, <1>0, <1>5 DEF Connect, ObserveFails, PublishDevice, coreVars, sharedVars, Creating, SharedTypes
  <2>2. at[s] \notin {"register", "cancel"} \union Early
    BY <2>1 DEF Early, Creating
  <2>3. \A g \in Subs : Stoppable(g)' => Stoppable(g)
    <3>1. device[s] = "nil"
      BY <2>1 DEF EarlyInv
    <3> QED
      BY <1>r, <2>1, <3>1 DEF Stoppable
  <2> QED
    BY <1>1, <2>1, <2>2, <2>3
<1>6. CASE HandleFirstMessage(s)
  <2>1. UNCHANGED <<active, known, cache, observations, device, at, my>>
    BY <1>6 DEF HandleFirstMessage, clientVars, sharedVars, coreVars
  <2>2. ASSUME NEW g \in Subs PROVE KnownAt(g)' /\ CachedAt(g)' /\ OutAt(g)'
    <3>1. KnownAt(g)'
      BY <1>s, <1>l, <2>1, KnownKept
    <3>2. CachedAt(g)'
      BY <1>s, <1>l, <2>1, CachedKept DEF SameRun
    <3>3. OutAt(g)'
      BY <1>s, <1>l, <1>r, <2>1, OutKept DEF Stoppable, Cancelled
    <3> QED
      BY <3>1, <3>2, <3>3
  <2> QED
    BY <2>2 DEF LeakInv
<1>7. CASE Observe(s)
  <2>1. /\ UNCHANGED <<known, my, observations, cache, device>>
        /\ at[s] = "observe" /\ at'[s] = "register" /\ conn[s] = "open"
        /\ \A t \in Subs : t # s => at'[t] = at[t] /\ active'[t] = active[t]
    BY <1>a, <1>0, <1>7 DEF Observe, sharedVars, CoreTypes
  <2>2. \A g \in Subs : Cancelled(g) => Cancelled(g)'
    BY <2>1 DEF Cancelled
  <2>3. my[s] = s
    BY <2>1 DEF MyInv, Creating
  <2>4. ASSUME NEW g \in Subs PROVE KnownAt(g)' /\ CachedAt(g)' /\ OutAt(g)'
    <3>1. KnownAt(g)'
      BY <1>s, <1>l, <2>1, KnownKept DEF KnownAt
    <3>2. \A t \in observations'[g] : \/ t \in observations[g] /\ at'[t] = at[t]
                                      \/ at'[t] \in Creating \union {"observing", "failed"}
      BY <1>0, <2>1 DEF SharedTypes, Creating
    <3>3. at'[g] \notin Early => at[g] \notin Early
      BY <2>1 DEF Early
    <3>4. CachedAt(g)'
      BY <1>s, <1>l, <2>1, <3>2, <3>3, CachedKept DEF SameRun
    <3>5. CASE g # s
      BY <1>s, <1>l, <1>r, <2>1, <2>2, <3>1, <3>4, <3>5, OutKept DEF Stoppable
    <3>6. CASE g = s
      BY <1>r, <2>1, <2>3, <3>1, <3>4, <3>6 DEF CreatedInv, OutAt, Stoppable
    <3> QED
      BY <3>1, <3>4, <3>5, <3>6
  <2> QED
    BY <2>4 DEF LeakInv
<1>8. CASE RegisterObservation(s)
  <2>1. /\ UNCHANGED <<active, my, observations, cache, device>>
        /\ at[s] = "register" /\ at'[s] = "publish" /\ known'[s]
        /\ \A t \in Subs : t # s => at'[t] = at[t] /\ known'[t] = known[t]
    BY <1>a, <1>0, <1>8 DEF RegisterObservation, sharedVars, CoreTypes
  <2>2. \A g \in Subs : Cancelled(g) => Cancelled(g)'
    BY <2>1 DEF Cancelled
  <2>4. ASSUME NEW g \in Subs PROVE KnownAt(g)' /\ CachedAt(g)' /\ OutAt(g)'
    <3>1. KnownAt(g)'
      BY <1>s, <1>l, <2>1, KnownKept
    <3>2. \A t \in observations'[g] : \/ t \in observations[g] /\ at'[t] = at[t]
                                      \/ at'[t] \in Creating \union {"observing", "failed"}
      BY <1>0, <2>1 DEF SharedTypes, Creating
    <3>3. at'[g] \notin Early => at[g] \notin Early
      BY <2>1 DEF Early
    <3>4. CachedAt(g)'
      BY <1>s, <1>l, <2>1, <3>2, <3>3, CachedKept DEF SameRun
    <3>5. OutAt(g)'
      BY <1>s, <1>l, <1>r, <2>1, <2>2, OutKept DEF Stoppable
    <3> QED
      BY <3>1, <3>4, <3>5
  <2> QED
    BY <2>4 DEF LeakInv
<1>9. CASE StopObservingResource(s)
  <2>1. /\ UNCHANGED <<active, known, my, device>> /\ at[s] = "observing" /\ at'[s] \in {"cancel", "stopped"}
        /\ \A t \in Subs : t # s => at'[t] = at[t]
    BY <1>a, <1>9 DEF StopObservingResource, coreVars
  <2>2. \A g \in Subs : Cancelled(g) => Cancelled(g)'
    BY <2>1 DEF Cancelled
  <2>3. \/ UNCHANGED <<cache, observations>> /\ (cache = None \/ s \notin observations[cache])
        \/ /\ cache \in Subs /\ s \in observations[cache]
           /\ observations' = [observations EXCEPT ![cache] = @ \ {s}]
           /\ \/ cache' = cache /\ observations[cache] # {s}
              \/ /\ cache' = None /\ observations[cache] = {s}
                 /\ device[cache] # "nil" => at'[s] = "cancel"
    BY <1>a, <1>0, <1>9 DEF StopObservingResource, ClientTypes
  <2>4. ASSUME NEW g \in Subs PROVE KnownAt(g)' /\ CachedAt(g)' /\ OutAt(g)'
    <3>1. KnownAt(g)'
      BY <1>s, <1>l, <2>1, KnownKept
    <3>2. CASE UNCHANGED <<cache, observations>> /\ (cache = None \/ s \notin observations[cache])
      <4>1. CachedAt(g)'
        <5>1. CASE cache = g
          <6>1. \A t \in observations'[g] : t \in observations[g] /\ at'[t] = at[t]
            BY <1>0, <2>1, <3>2, <5>1 DEF SharedTypes
          <6>2. at'[g] \notin Early => at[g] \notin Early
            BY <2>1 DEF Early
          <6> QED
            BY <1>s, <1>l, <3>2, <6>1, <6>2, CachedKept DEF SameRun
        <5>2. CASE cache # g
          BY <3>2, <5>2 DEF CachedAt
        <5> QED
          BY <5>1, <5>2
      <4>2. OutAt(g)'
        BY <1>s, <1>l, <1>r, <2>1, <2>2, <3>2, OutKept DEF Stoppable
      <4> QED
        BY <3>1, <4>1, <4>2
    <3>3. CASE /\ cache \in Subs /\ s \in observations[cache] /\ cache # g
               /\ observations' = [observations EXCEPT ![cache] = @ \ {s}] /\ cache' \in {cache, None}
      <4>1. CachedAt(g)'
        BY <3>3 DEF CachedAt
      <4>2. OutAt(g)'
        BY <1>s, <1>l, <1>r, <2>1, <2>2, <3>3, OutKept DEF Stoppable
      <4> QED
        BY <3>1, <4>1, <4>2
    <3>4. CASE /\ cache = g /\ s \in observations[g] /\ cache' = g
               /\ observations' = [observations EXCEPT ![g] = @ \ {s}] /\ observations[g] # {s}
      <4>0. observations'[g] = observations[g] \ {s} /\ observations'[g] # {}
        BY <1>0, <3>4 DEF SharedTypes
      <4>1. \A t \in observations'[g] : t \in observations[g] /\ at'[t] = at[t]
        BY <1>0, <2>1, <4>0 DEF SharedTypes
      <4>2. CachedAt(g)'
        BY <1>s, <1>l, <3>4, <4>0, <4>1, CachedKept DEF SameRun
      <4>3. OutAt(g)'
        BY <3>4 DEF OutAt
      <4> QED
        BY <3>1, <4>2, <4>3
    <3>5. CASE /\ cache = g /\ cache' = None /\ observations[g] = {s}
               /\ device[g] # "nil" => at'[s] = "cancel"
      <4>1. CachedAt(g)'
        BY <3>5 DEF CachedAt
      <4>2. ASSUME active[g] PROVE Cancelled(g)'
        <5>2. my[s] = g /\ (s # g => at[g] \in Settled)
          BY <3>5 DEF MemberInv
        <5>3. my[g] = g /\ at[g] \in Settled
          BY <2>1, <4>2, <5>2, Begun DEF Settled
        <5>4. device[g] # "nil"
          BY <4>2, <5>3 DEF EarlyInv, Settled
        <5> QED
          BY <2>1, <3>5, <5>2, <5>4 DEF Cancelled
      <4>3. OutAt(g)'
        BY <2>1, <4>2 DEF OutAt
      <4> QED
        BY <3>1, <4>1, <4>3
    <3>6. CachedAt(g)' /\ OutAt(g)'
      BY <2>3, <3>2, <3>3, <3>4, <3>5
    <3> QED
      BY <3>1, <3>6
  <2> QED
    BY <2>4 DEF LeakInv
<1>10. CASE CancelObservation(s)
  <2>1. /\ UNCHANGED <<my, observations, cache, device>> /\ at[s] = "cancel" /\ at'[s] = "stopped"
        /\ \A t \in Subs : t # s => at'[t] = at[t]
        /\ StopOnDevice(my[s])
    BY <1>a, <1>10 DEF CancelObservation, sharedVars
  <2>2. PICK h \in Subs : h = my[s] /\ device[h] # "nil"
    BY <2>1, MyHandler DEF DyingInv
  <2>3. at[h] # "register"
    BY <2>2 DEF EarlyInv, Creating
  <2>4. /\ \A g \in Subs : g # h => active'[g] = active[g] /\ known'[g] = known[g]
        /\ ~active'[h] \/ (active'[h] = active[h] /\ known'[h] = known[h])
        /\ device[h] = "observed" => ~active'[h] \/ ~known[h]
    BY <1>0, <2>1, <2>2, CoreStopEffect DEF StopOnDevice
  <2>5. ASSUME NEW g \in Subs PROVE KnownAt(g)' /\ CachedAt(g)' /\ OutAt(g)'
    <3>1. KnownAt(g)'
      BY <1>s, <1>l, <2>1, <2>4, KnownKept
    <3>2. CachedAt(g)'
      <4>1. CASE cache = g
        <5>1. s \notin observations[g]
          BY <1>l, <2>1, <4>1 DEF CachedAt, Creating
        <5>2. \A t \in observations'[g] : t \in observations[g] /\ at'[t] = at[t]
          BY <1>0, <2>1, <5>1 DEF SharedTypes
        <5>3. at'[g] \notin Early => at[g] \notin Early
          BY <2>1 DEF Early
        <5> QED
          BY <1>s, <1>l, <2>1, <5>2, <5>3, CachedKept DEF SameRun
      <4>2. CASE cache # g
        BY <2>1, <4>2 DEF CachedAt
      <4> QED
        BY <4>1, <4>2
    <3>3. CASE g # h
      <4>1. Cancelled(g) => Cancelled(g)'
        BY <2>1, <2>2, <3>3 DEF Cancelled
      <4> QED
        BY <1>s, <1>l, <1>r, <2>1, <2>4, <3>1, <3>2, <3>3, <4>1, OutKept DEF Stoppable
    <3>4. CASE g = h
      <4> SUFFICES ASSUME active'[h], Stoppable(h)' PROVE closing'[h] \/ ByDevice(h)'
        BY <3>1, <3>2, <3>4 DEF OutAt
      <4>1. device[h] = "observed"
        BY <1>0, <2>1, <2>2 DEF Stoppable, SharedTypes
      <4>2. ~known[h] /\ active[h]
        BY <2>4, <4>1
      <4>3. closing[h] \/ ByDevice(h)
        BY <1>l, <2>3, <4>2 DEF KnownAt
      <4> QED
        BY <1>s, <4>3 DEF SameRun, ByDevice
    <3> QED
      BY <3>1, <3>2, <3>3, <3>4
  <2> QED
    BY <2>5 DEF LeakInv
<1> QED
  BY <1>2, <1>3, <1>4, <1>5, <1>6, <1>7, <1>8, <1>9, <1>10 DEF SubStep

LEMMA LeakStutters ==
    LeakInv /\ UNCHANGED <<clientVars, sharedVars, coreVars, runVars, evicted>> => LeakInv'
  BY DEF LeakInv, KnownAt, CachedAt, OutAt, ByDevice, Cancelled, Stoppable, clientVars, sharedVars,
     coreVars, runVars

LEMMA NextLeak ==
    ASSUME TypeOK, MyInv, MemberInv, EarlyInv, DyingInv, CreatedInv, LeakInv, Next
    PROVE  LeakInv'
<1>1. CASE Change
  BY <1>1, LeakStutters DEF Change
<1> QED
  BY <1>1, LeakByCall, LeakByHandler DEF Next

-----------------------------------------------------------------------------
(* The invariant, and what it says of observations                          *)

LEMMA ObserveInvariant == Spec => []ObserveInv
<1>1. Init => ObserveInv
  BY InitTypeOK, InitMy, InitMember, InitEarly, InitDying, InitOrder, InitCreated, InitLeak DEF ObserveInv
<1>2. ObserveInv /\ [Next]_vars => ObserveInv'
  <2>1. CASE ObserveInv /\ Next
    BY <2>1, NextTypeOK, NextMy, NextMember, NextEarly, NextDying, NextOrder, NextCreated, NextLeak
       DEF ObserveInv
  <2>2. CASE ObserveInv /\ UNCHANGED vars
    <3>1. UNCHANGED <<clientVars, sharedVars, subVars, coreVars, runVars, value, evicted>>
      BY <2>2 DEF vars
    <3>2. TypeOK'
      BY <2>2, <3>1, TypesSplit, TypesJoin, ClientKept, SharedKept, SubKept, CoreKept, RunKept DEF ObserveInv
    <3>3. UNCHANGED <<coreRun, cache, my, at, lock, observations, told, orderVars>>
      BY <3>1 DEF clientVars, sharedVars, subVars, coreVars, runVars, coreRun, orderVars
    <3>4. MyInv' /\ MemberInv' /\ EarlyInv' /\ DyingInv' /\ OrderInv'
      BY <2>2, <3>3, MyKept, MemberKept, EarlyKept, DyingKept, OrderKept DEF ObserveInv
    <3>5. LeakInv'
      BY <2>2, <3>1, LeakStutters DEF ObserveInv
    <3>6. CreatedInv'
      BY <2>2, <3>1 DEF ObserveInv, CreatedInv, clientVars, coreVars
    <3> QED
      BY <3>2, <3>4, <3>5, <3>6 DEF ObserveInv
  <2> QED
    BY <2>1, <2>2
<1> QED
  BY <1>1, <1>2, PTL DEF Spec

LEMMA CreatorObserved == ObserveInv => CreatorIsObserved
<1> SUFFICES ASSUME ObserveInv, NEW s \in Subs, my[s] = s, at[s] = "observing", told[s] = 0, ~Busy(s)
             PROVE  active[s] /\ s \in observations[s]
  BY DEF CreatorIsObserved, IsObserved
<1>1. s \in observations[s]
  BY DEF ObserveInv, MemberInv
<1>2. ~Dying(s)
  BY <1>1 DEF Busy, Dying, Gone, Closing
<1> QED
  BY <1>1, <1>2 DEF ObserveInv, DyingInv, Busy

\* Every variable keeps its type, so nobody is told twice that the observation
\* has ended; and who has created a shared handler is notified until it stops
\* or is told of the end, whatever joins, stops, fails, is lost or is closed at
\* the same time, for every number of subscribers and changes.
THEOREM SubscribersInvHolds == Spec => []SubscribersInv
<1>1. ObserveInv => SubscribersInv
  BY CreatorObserved DEF ObserveInv, SubscribersInv
<1> QED
  BY <1>1, ObserveInvariant, PTL

\* An observation on the device has a subscriber that has neither stopped nor
\* been told of the end, or is being cancelled: by the last one to leave, by
\* the end of the connection or by Device.Close; whatever cannot be decoded,
\* ends or is lost, and for every number of subscribers.
THEOREM ObservationInvHolds == Spec => []ObservationInv
<1>1. ObserveInv => ObservationInv
  <2> SUFFICES ASSUME ObserveInv, NEW h \in Subs, active[h], ~Busy(h), Stoppable(h)
               PROVE  \E s \in observations[h] : at[s] = "observing"
    BY CreatorObserved DEF ObservationInv, NoLeakedObservation, Stoppable
  <2>1. KnownAt(h) /\ CachedAt(h) /\ OutAt(h)
    BY DEF ObserveInv, LeakInv
  <2>2. ~closing[h] /\ ~ByDevice(h) /\ ~Cancelled(h) /\ run[h] = "idle" /\ at[h] \notin Creating
    BY DEF Busy, ByDevice, Cancelled, Closing, Creating
  <2>3. cache = h
    BY <2>1, <2>2 DEF OutAt
  <2>4. my[h] = h /\ at[h] \notin Early \union {"failed"}
    BY DEF ObserveInv, EarlyInv, Pristine
  <2>5. PICK s \in observations[h] : at[s] \in Creating \union {"observing", "failed"}
    BY <2>1, <2>3, <2>4 DEF CachedAt
  <2>6. s \in Subs /\ my[s] = h
    BY <2>5 DEF ObserveInv, TypeOK, MemberInv
  <2>7. at[s] \in Creating => s = h
    BY <2>6 DEF ObserveInv, MyInv
  <2>8. at[s] = "failed" => s = h
    BY <2>6 DEF ObserveInv, MyInv
  <2> QED
    BY <2>2, <2>4, <2>5, <2>7, <2>8
<1> QED
  BY <1>1, ObserveInvariant, PTL

\* No subscriber is given an older message after a newer one, although the
\* message a subscriber begins with is given to it by a goroutine of its own.
THEOREM DeliveredInOrderHolds == Spec => DeliveredInOrder
<1>1. ObserveInv /\ [Next]_vars => [\A s \in Subs : got'[s] >= got[s]]_vars
  BY GotGrows DEF ObserveInv
<1> QED
  BY <1>1, ObserveInvariant, PTL DEF Spec, DeliveredInOrder
=============================================================================
