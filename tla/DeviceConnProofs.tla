-------------------------- MODULE DeviceConnProofs --------------------------
(* Proofs about DeviceConn: type correctness, no conn with a dial error     *)
(* stays in the pool, a conn has one connection, and Close closes those of  *)
(* the pool.                                                                *)
EXTENDS DeviceConn, TLAPS

Unlisted == {"idle", "load"}
Holding == {"check", "dial"}

\* A goroutine between loadORCreate and its return has a conn, and a client
\* once it has dialled one; so has Close between Close and Done.
LocalsInv ==
    /\ \A p \in Callers :
        /\ at[p] \in Unlisted <=> my[p] = None
        /\ at[p] = "register" <=> got[p] # None
    /\ closer = "done" => cur # None

\* The semaphore of a conn is held by the goroutine that checks or dials it.
MutexInv ==
    /\ \A p \in Callers : at[p] \in Holding => mutex[my[p]] = p
    /\ \A k \in Conns : mutex[k] # None => at[mutex[k]] \in Holding /\ my[mutex[k]] = k

\* A conn is in the pool under one address, the one its users connect to.
AddressInv ==
    /\ \A a, b \in Addrs : pool[a] # None /\ pool[a] = pool[b] => a = b
    /\ \A a \in Addrs, p \in Callers :
        pool[a] # None /\ my[p] = pool[a] => Endpoints[ep[p]] = a

\* A conn is dialled only while it has no error, and has no live client when
\* it has one.
ErrorInv ==
    /\ \A p \in Callers : at[p] = "dial" => ~err[my[p]]
    /\ \A a \in Addrs : pool[a] # None /\ err[pool[a]] => ~Alive(c[pool[a]])

\* An open connection belongs to the conn that holds its client: dialling
\* replaces dead clients only.
ClientInv ==
    /\ \A x \in Clients : hook[x] # None /\ net[x] = "open" => c[hook[x].conn] = x
    /\ \A p \in Callers : at[p] = "register" /\ net[got[p]] = "open" => c[my[p]] = got[p]
    /\ \A p \in Callers : at[p] = "dial" => ~Alive(c[my[p]])

IInv ==
    /\ TypeOK /\ LocalsInv /\ MutexInv /\ AddressInv /\ ErrorInv /\ ClientInv
    /\ FailedIsForgotten

------------------------------------------------------------------------------

\* The address of every endpoint is an address.
LEMMA EndpointAddr ==
    ASSUME NEW i \in 1..Len(Endpoints)
    PROVE  Endpoints[i] \in Addrs
  BY DEF Addrs

\* The disjuncts of Next, one by one.
LEMMA NextCases ==
    ASSUME Next
    PROVE  \/ \E p \in Callers :
                \/ Connect(p) \/ LoadConn(p) \/ CreateConn(p) \/ Acquire(p)
                \/ AcquireTimesOut(p) \/ DialReuses(p) \/ DialRefuses(p)
                \/ StartDial(p) \/ DialSucceeds(p) \/ DialFails(p)
                \/ Register(p) \/ RemoveFailed(p)
           \/ \E x \in Clients : Lose(x) \/ RunCloseHandlers(x)
           \/ \E k \in Conns : CloseConn(k)
           \/ PopConnections \/ Done \/ SocketClosed \/ CloseReturns
  BY DEF Next, CallerStep, Closing

\* removeConn deletes at most one entry.
LEMMA PoolShrinks ==
    ASSUME TypeOK, NEW a \in Addrs, NEW k, RemoveConn(a, k)
    PROVE  /\ pool' \in [Addrs -> Conns \union {None}]
           /\ \A b \in Addrs : pool'[b] = pool[b] \/ pool'[b] = None
  BY DEF TypeOK, RemoveConn

\* What giving up an endpoint does to the goroutine and to the pool.
GivesUp(p) ==
    /\ at[p] = "remove"
    /\ \/ at' = [at EXCEPT ![p] = "load"]
       \/ at' = [at EXCEPT ![p] = "idle"]
    /\ my' = [my EXCEPT ![p] = None]
    /\ got' = got
    /\ ep' \in [Callers -> 1..Len(Endpoints)]
    /\ \A q \in Callers : q # p => ep'[q] = ep[q]
    /\ pool' \in [Addrs -> Conns \union {None}]
    /\ \A b \in Addrs : pool'[b] = pool[b] \/ pool'[b] = None
    /\ UNCHANGED <<c, err, mutex, net, hook, closer, popped, cur, waits, due>>

\* RemoveFailed does that, whichever endpoint is tried next.
LEMMA RemoveFailedEffect ==
    ASSUME TypeOK, LocalsInv, NEW p \in Callers, RemoveFailed(p)
    PROVE  GivesUp(p)
  <1>1. Endpoints[ep[p]] \in Addrs
    BY EndpointAddr DEF TypeOK
  <1>2. /\ pool' \in [Addrs -> Conns \union {None}]
        /\ \A b \in Addrs : pool'[b] = pool[b] \/ pool'[b] = None
    BY <1>1, PoolShrinks DEF RemoveFailed
  <1>3. Len(Endpoints) \in Nat
    BY EndpointsAssumption
  <1>4. CASE ep[p] < Len(Endpoints)
    <2>1. ep[p] + 1 \in 1..Len(Endpoints)
      BY <1>3, <1>4 DEF TypeOK
    <2>2. QED
      BY <1>2, <1>4, <2>1
      DEF GivesUp, RemoveFailed, Goto, TypeOK, netVars, closeVars
  <1>5. CASE ~(ep[p] < Len(Endpoints))
    <2>1. got[p] = None
      BY DEF RemoveFailed, LocalsInv
    <2>2. got' = got
      BY <1>5, <2>1 DEF RemoveFailed, Return, TypeOK
    <2>3. QED
      BY <1>2, <1>5, <2>2
      DEF GivesUp, RemoveFailed, Return, Goto, TypeOK, netVars, closeVars
  <1>6. QED
    BY <1>4, <1>5

\* What an ended connection does to the pool.
HandlersRun(x) ==
    /\ net[x] = "closing"
    /\ net' = [net EXCEPT ![x] = "done"]
    /\ hook' = [hook EXCEPT ![x] = None]
    /\ pool' \in [Addrs -> Conns \union {None}]
    /\ \A b \in Addrs : pool'[b] = pool[b] \/ pool'[b] = None
    /\ UNCHANGED <<c, err, mutex, at, ep, my, got, closer, popped, cur, waits, due>>

\* RunCloseHandlers does that, whether or not a handler was registered.
LEMMA RunCloseHandlersEffect ==
    ASSUME TypeOK, NEW x \in Clients, RunCloseHandlers(x)
    PROVE  HandlersRun(x)
  <1>1. CASE hook[x] # None
    <2>1. hook[x].addr \in Addrs
      BY <1>1 DEF TypeOK
    <2>2. RemoveConn(hook[x].addr, hook[x].conn)
      BY <1>1 DEF RunCloseHandlers
    <2>3. QED
      BY <2>1, <2>2, PoolShrinks
      DEF RunCloseHandlers, HandlersRun, callVars, closeVars
  <1>2. CASE hook[x] = None
    BY <1>2 DEF RunCloseHandlers, HandlersRun, callVars, closeVars, TypeOK
  <1>3. QED
    BY <1>1, <1>2

\* A step of a goroutine, a connection or Close keeps every variable's type.
LEMMA TypeStep ==
    ASSUME TypeOK, LocalsInv, [Next]_vars
    PROVE  TypeOK'
  <1>1. ASSUME NEW p \in Callers, Connect(p) PROVE TypeOK'
    BY <1>1
    DEF Connect, Goto, TypeOK, poolVars, netVars, closeVars
  <1>2. ASSUME NEW p \in Callers, LoadConn(p) PROVE TypeOK'
    BY <1>2, EndpointAddr
    DEF LoadConn, Goto, TypeOK, poolVars, netVars, closeVars
  <1>3. ASSUME NEW p \in Callers, CreateConn(p) PROVE TypeOK'
    BY <1>3, EndpointAddr
    DEF CreateConn, Goto, TypeOK, netVars, closeVars
  <1>4. ASSUME NEW p \in Callers, Acquire(p) PROVE TypeOK'
    BY <1>4
    DEF Acquire, Goto, TypeOK, netVars, closeVars
  <1>5. ASSUME NEW p \in Callers, AcquireTimesOut(p) PROVE TypeOK'
    BY <1>5
    DEF AcquireTimesOut, Goto, TypeOK, poolVars, netVars, closeVars
  <1>6. ASSUME NEW p \in Callers, DialReuses(p) PROVE TypeOK'
    BY <1>6
    DEF DialReuses, Goto, Release, Return, TypeOK, netVars, closeVars
  <1>7. ASSUME NEW p \in Callers, DialRefuses(p) PROVE TypeOK'
    BY <1>7
    DEF DialRefuses, Goto, Release, TypeOK, netVars, closeVars
  <1>8. ASSUME NEW p \in Callers, StartDial(p) PROVE TypeOK'
    BY <1>8
    DEF StartDial, Goto, TypeOK, poolVars, netVars, closeVars
  <1>9. ASSUME NEW p \in Callers, DialSucceeds(p) PROVE TypeOK'
    <2>1. PICK x \in Clients :
                /\ FreshClient(x)
                /\ net' = [net EXCEPT ![x] = "open"]
                /\ hook' = [hook EXCEPT ![x] = None]
                /\ c' = [c EXCEPT ![my[p]] = x]
                /\ got' = [got EXCEPT ![p] = x]
      BY <1>9 DEF DialSucceeds
    <2>2. /\ at[p] = "dial"
          /\ at' = [at EXCEPT ![p] = "register"]
          /\ mutex' = [mutex EXCEPT ![my[p]] = None]
          /\ UNCHANGED <<pool, err, ep, my, closer, popped, cur, waits, due>>
      BY <1>9 DEF DialSucceeds, Goto, Release, closeVars
    <2>3. QED
      BY <2>1, <2>2 DEF TypeOK
  <1>10. ASSUME NEW p \in Callers, DialFails(p) PROVE TypeOK'
    BY <1>10
    DEF DialFails, Goto, Release, TypeOK, netVars, closeVars
  <1>11. ASSUME NEW p \in Callers, Register(p) PROVE TypeOK'
    BY <1>11, EndpointAddr
    DEF Register, Goto, Return, TypeOK, LocalsInv, Unlisted, poolVars, closeVars
  <1>12. ASSUME NEW p \in Callers, RemoveFailed(p) PROVE TypeOK'
    <2>1. GivesUp(p)
      BY <1>12, RemoveFailedEffect
    <2>2. QED
      BY <2>1 DEF GivesUp, TypeOK
  <1>13. ASSUME NEW x \in Clients, Lose(x) PROVE TypeOK'
    BY <1>13
    DEF Lose, TypeOK, poolVars, callVars, closeVars
  <1>14. ASSUME NEW x \in Clients, RunCloseHandlers(x) PROVE TypeOK'
    <2>1. HandlersRun(x)
      BY <1>14, RunCloseHandlersEffect
    <2>2. QED
      BY <2>1 DEF HandlersRun, TypeOK
  <1>15. CASE PopConnections
    BY <1>15
    DEF PopConnections, TypeOK, netVars, callVars
  <1>16. ASSUME NEW k \in Conns, CloseConn(k) PROVE TypeOK'
    BY <1>16
    DEF CloseConn, TypeOK, poolVars, callVars
  <1>17. CASE Done
    BY <1>17
    DEF Done, TypeOK, LocalsInv, Unlisted, poolVars, netVars, callVars
  <1>18. CASE SocketClosed
    BY <1>18
    DEF SocketClosed, TypeOK, poolVars, netVars, callVars
  <1>19. CASE CloseReturns
    BY <1>19
    DEF CloseReturns, TypeOK, poolVars, netVars, callVars
  <1>20. CASE UNCHANGED vars
    BY <1>20
    DEF TypeOK, vars, poolVars, netVars, callVars, closeVars
  <1>21. QED
    BY <1>1, <1>2, <1>3, <1>4, <1>5, <1>6, <1>7, <1>8, <1>9, <1>10, <1>11,
        <1>12, <1>13, <1>14, <1>15, <1>16, <1>17, <1>18, <1>19, <1>20, NextCases

\* A step keeps the goroutines' local variables in line with their positions.
LEMMA LocalsStep ==
    ASSUME TypeOK, LocalsInv, [Next]_vars
    PROVE  LocalsInv'
  <1>1. ASSUME NEW p \in Callers, Connect(p) PROVE LocalsInv'
    BY <1>1
    DEF Connect, Goto, TypeOK, LocalsInv, Unlisted, poolVars, netVars, closeVars
  <1>2. ASSUME NEW p \in Callers, LoadConn(p) PROVE LocalsInv'
    BY <1>2
    DEF LoadConn, Goto, TypeOK, LocalsInv, Unlisted, poolVars, netVars,
        closeVars
  <1>3. ASSUME NEW p \in Callers, CreateConn(p) PROVE LocalsInv'
    BY <1>3
    DEF CreateConn, Goto, FreshConn, TypeOK, LocalsInv, Unlisted, netVars,
        closeVars
  <1>4. ASSUME NEW p \in Callers, Acquire(p) PROVE LocalsInv'
    BY <1>4
    DEF Acquire, Goto, TypeOK, LocalsInv, Unlisted, netVars, closeVars
  <1>5. ASSUME NEW p \in Callers, AcquireTimesOut(p) PROVE LocalsInv'
    BY <1>5
    DEF AcquireTimesOut, Goto, TypeOK, LocalsInv, Unlisted, poolVars, netVars,
        closeVars
  <1>6. ASSUME NEW p \in Callers, DialReuses(p) PROVE LocalsInv'
    BY <1>6
    DEF DialReuses, Goto, Release, Return, TypeOK, LocalsInv, Unlisted, netVars,
        closeVars
  <1>7. ASSUME NEW p \in Callers, DialRefuses(p) PROVE LocalsInv'
    BY <1>7
    DEF DialRefuses, Goto, Release, TypeOK, LocalsInv, Unlisted, netVars,
        closeVars
  <1>8. ASSUME NEW p \in Callers, StartDial(p) PROVE LocalsInv'
    BY <1>8
    DEF StartDial, Goto, TypeOK, LocalsInv, Unlisted, poolVars, netVars,
        closeVars
  <1>9. ASSUME NEW p \in Callers, DialSucceeds(p) PROVE LocalsInv'
    BY <1>9
    DEF DialSucceeds, Goto, Release, FreshClient, FreshConn, TypeOK, LocalsInv,
        Unlisted, closeVars
  <1>10. ASSUME NEW p \in Callers, DialFails(p) PROVE LocalsInv'
    BY <1>10
    DEF DialFails, Goto, Release, TypeOK, LocalsInv, Unlisted, netVars,
        closeVars
  <1>11. ASSUME NEW p \in Callers, Register(p) PROVE LocalsInv'
    BY <1>11
    DEF Register, Goto, Return, TypeOK, LocalsInv, Unlisted, poolVars, closeVars
  <1>12. ASSUME NEW p \in Callers, RemoveFailed(p) PROVE LocalsInv'
    <2>1. GivesUp(p)
      BY <1>12, RemoveFailedEffect
    <2>2. QED
      BY <2>1 DEF GivesUp, TypeOK, LocalsInv, Unlisted
  <1>13. ASSUME NEW x \in Clients, Lose(x) PROVE LocalsInv'
    BY <1>13
    DEF Lose, TypeOK, LocalsInv, Unlisted, poolVars, callVars, closeVars
  <1>14. ASSUME NEW x \in Clients, RunCloseHandlers(x) PROVE LocalsInv'
    <2>1. HandlersRun(x)
      BY <1>14, RunCloseHandlersEffect
    <2>2. QED
      BY <2>1 DEF HandlersRun, TypeOK, LocalsInv, Unlisted
  <1>15. CASE PopConnections
    BY <1>15
    DEF PopConnections, TypeOK, LocalsInv, Unlisted, netVars, callVars
  <1>16. ASSUME NEW k \in Conns, CloseConn(k) PROVE LocalsInv'
    BY <1>16, NoneAssumption
    DEF CloseConn, TypeOK, LocalsInv, Unlisted, poolVars, callVars
  <1>17. CASE Done
    BY <1>17
    DEF Done, TypeOK, LocalsInv, Unlisted, poolVars, netVars, callVars
  <1>18. CASE SocketClosed
    BY <1>18
    DEF SocketClosed, TypeOK, LocalsInv, Unlisted, poolVars, netVars, callVars
  <1>19. CASE CloseReturns
    BY <1>19
    DEF CloseReturns, TypeOK, LocalsInv, Unlisted, poolVars, netVars, callVars
  <1>20. CASE UNCHANGED vars
    BY <1>20
    DEF TypeOK, LocalsInv, Unlisted, vars, poolVars, netVars, callVars,
        closeVars
  <1>21. QED
    BY <1>1, <1>2, <1>3, <1>4, <1>5, <1>6, <1>7, <1>8, <1>9, <1>10, <1>11,
        <1>12, <1>13, <1>14, <1>15, <1>16, <1>17, <1>18, <1>19, <1>20, NextCases

\* A step keeps the semaphores with the goroutines that check or dial.
LEMMA MutexStep ==
    ASSUME TypeOK, LocalsInv, MutexInv, [Next]_vars
    PROVE  MutexInv'
  <1>1. ASSUME NEW p \in Callers, Connect(p) PROVE MutexInv'
    BY <1>1
    DEF Connect, Goto, TypeOK, LocalsInv, Unlisted, MutexInv, Holding, poolVars,
        netVars, closeVars
  <1>2. ASSUME NEW p \in Callers, LoadConn(p) PROVE MutexInv'
    BY <1>2
    DEF LoadConn, Goto, TypeOK, LocalsInv, Unlisted, MutexInv, Holding,
        poolVars, netVars, closeVars
  <1>3. ASSUME NEW p \in Callers, CreateConn(p) PROVE MutexInv'
    BY <1>3
    DEF CreateConn, Goto, TypeOK, LocalsInv, Unlisted, MutexInv, Holding,
        netVars, closeVars
  <1>4. ASSUME NEW p \in Callers, Acquire(p) PROVE MutexInv'
    BY <1>4, NoneAssumption
    DEF Acquire, Goto, TypeOK, LocalsInv, Unlisted, MutexInv, Holding, netVars,
        closeVars
  <1>5. ASSUME NEW p \in Callers, AcquireTimesOut(p) PROVE MutexInv'
    BY <1>5
    DEF AcquireTimesOut, Goto, TypeOK, LocalsInv, Unlisted, MutexInv, Holding,
        poolVars, netVars, closeVars
  <1>6. ASSUME NEW p \in Callers, DialReuses(p) PROVE MutexInv'
    BY <1>6
    DEF DialReuses, Goto, Release, Return, TypeOK, LocalsInv, Unlisted,
        MutexInv, Holding, netVars, closeVars
  <1>7. ASSUME NEW p \in Callers, DialRefuses(p) PROVE MutexInv'
    BY <1>7
    DEF DialRefuses, Goto, Release, TypeOK, LocalsInv, Unlisted, MutexInv,
        Holding, netVars, closeVars
  <1>8. ASSUME NEW p \in Callers, StartDial(p) PROVE MutexInv'
    BY <1>8
    DEF StartDial, Goto, TypeOK, LocalsInv, Unlisted, MutexInv, Holding,
        poolVars, netVars, closeVars
  <1>9. ASSUME NEW p \in Callers, DialSucceeds(p) PROVE MutexInv'
    BY <1>9
    DEF DialSucceeds, Goto, Release, TypeOK, LocalsInv, Unlisted, MutexInv,
        Holding, closeVars
  <1>10. ASSUME NEW p \in Callers, DialFails(p) PROVE MutexInv'
    BY <1>10
    DEF DialFails, Goto, Release, TypeOK, LocalsInv, Unlisted, MutexInv,
        Holding, netVars, closeVars
  <1>11. ASSUME NEW p \in Callers, Register(p) PROVE MutexInv'
    BY <1>11
    DEF Register, Goto, Return, TypeOK, LocalsInv, Unlisted, MutexInv, Holding,
        poolVars, closeVars
  <1>12. ASSUME NEW p \in Callers, RemoveFailed(p) PROVE MutexInv'
    <2>1. GivesUp(p)
      BY <1>12, RemoveFailedEffect
    <2>2. \A q \in Callers : at'[q] \in Holding => q # p /\ at[q] \in Holding /\ my'[q] = my[q]
      BY <2>1 DEF GivesUp, TypeOK, Holding
    <2>3. \A q \in Callers : at[q] \in Holding => q # p /\ at'[q] = at[q] /\ my'[q] = my[q]
      BY <2>1 DEF GivesUp, TypeOK, Holding
    <2>4. \A k \in Conns : mutex[k] # None => mutex[k] \in Callers
      BY DEF TypeOK
    <2>5. mutex' = mutex
      BY <2>1 DEF GivesUp
    <2>6. QED
      BY <2>2, <2>3, <2>4, <2>5 DEF MutexInv
  <1>13. ASSUME NEW x \in Clients, Lose(x) PROVE MutexInv'
    BY <1>13
    DEF Lose, TypeOK, LocalsInv, Unlisted, MutexInv, Holding, poolVars,
        callVars, closeVars
  <1>14. ASSUME NEW x \in Clients, RunCloseHandlers(x) PROVE MutexInv'
    <2>1. HandlersRun(x)
      BY <1>14, RunCloseHandlersEffect
    <2>2. QED
      BY <2>1 DEF HandlersRun, TypeOK, LocalsInv, Unlisted, MutexInv, Holding
  <1>15. CASE PopConnections
    BY <1>15
    DEF PopConnections, TypeOK, LocalsInv, Unlisted, MutexInv, Holding, netVars,
        callVars
  <1>16. ASSUME NEW k \in Conns, CloseConn(k) PROVE MutexInv'
    BY <1>16
    DEF CloseConn, TypeOK, LocalsInv, Unlisted, MutexInv, Holding, poolVars,
        callVars
  <1>17. CASE Done
    BY <1>17
    DEF Done, TypeOK, LocalsInv, Unlisted, MutexInv, Holding, poolVars, netVars,
        callVars
  <1>18. CASE SocketClosed
    BY <1>18
    DEF SocketClosed, TypeOK, LocalsInv, Unlisted, MutexInv, Holding, poolVars,
        netVars, callVars
  <1>19. CASE CloseReturns
    BY <1>19
    DEF CloseReturns, TypeOK, LocalsInv, Unlisted, MutexInv, Holding, poolVars,
        netVars, callVars
  <1>20. CASE UNCHANGED vars
    BY <1>20
    DEF TypeOK, LocalsInv, Unlisted, MutexInv, Holding, vars, poolVars, netVars,
        callVars, closeVars
  <1>21. QED
    BY <1>1, <1>2, <1>3, <1>4, <1>5, <1>6, <1>7, <1>8, <1>9, <1>10, <1>11,
        <1>12, <1>13, <1>14, <1>15, <1>16, <1>17, <1>18, <1>19, <1>20, NextCases

\* A step keeps a conn under the address its users connect to.
LEMMA AddressStep ==
    ASSUME TypeOK, LocalsInv, AddressInv, [Next]_vars
    PROVE  AddressInv'
  <1>1. ASSUME NEW p \in Callers, Connect(p) PROVE AddressInv'
    BY <1>1
    DEF Connect, Goto, TypeOK, LocalsInv, Unlisted, AddressInv, poolVars,
        netVars, closeVars
  <1>2. ASSUME NEW p \in Callers, LoadConn(p) PROVE AddressInv'
    BY <1>2, EndpointAddr
    DEF LoadConn, Goto, TypeOK, LocalsInv, Unlisted, AddressInv, poolVars,
        netVars, closeVars
  <1>3. ASSUME NEW p \in Callers, CreateConn(p) PROVE AddressInv'
    BY <1>3
    DEF CreateConn, Goto, FreshConn, TypeOK, LocalsInv, Unlisted, AddressInv,
        netVars, closeVars
  <1>4. ASSUME NEW p \in Callers, Acquire(p) PROVE AddressInv'
    BY <1>4
    DEF Acquire, Goto, TypeOK, LocalsInv, Unlisted, AddressInv, netVars,
        closeVars
  <1>5. ASSUME NEW p \in Callers, AcquireTimesOut(p) PROVE AddressInv'
    BY <1>5
    DEF AcquireTimesOut, Goto, TypeOK, LocalsInv, Unlisted, AddressInv,
        poolVars, netVars, closeVars
  <1>6. ASSUME NEW p \in Callers, DialReuses(p) PROVE AddressInv'
    BY <1>6
    DEF DialReuses, Goto, Release, Return, TypeOK, LocalsInv, Unlisted,
        AddressInv, netVars, closeVars
  <1>7. ASSUME NEW p \in Callers, DialRefuses(p) PROVE AddressInv'
    BY <1>7
    DEF DialRefuses, Goto, Release, TypeOK, LocalsInv, Unlisted, AddressInv,
        netVars, closeVars
  <1>8. ASSUME NEW p \in Callers, StartDial(p) PROVE AddressInv'
    BY <1>8
    DEF StartDial, Goto, TypeOK, LocalsInv, Unlisted, AddressInv, poolVars,
        netVars, closeVars
  <1>9. ASSUME NEW p \in Callers, DialSucceeds(p) PROVE AddressInv'
    BY <1>9
    DEF DialSucceeds, Goto, Release, FreshClient, FreshConn, TypeOK, LocalsInv,
        Unlisted, AddressInv, closeVars
  <1>10. ASSUME NEW p \in Callers, DialFails(p) PROVE AddressInv'
    BY <1>10
    DEF DialFails, Goto, Release, TypeOK, LocalsInv, Unlisted, AddressInv,
        netVars, closeVars
  <1>11. ASSUME NEW p \in Callers, Register(p) PROVE AddressInv'
    BY <1>11
    DEF Register, Goto, Return, TypeOK, LocalsInv, Unlisted, AddressInv,
        poolVars, closeVars
  <1>12. ASSUME NEW p \in Callers, RemoveFailed(p) PROVE AddressInv'
    <2>1. GivesUp(p)
      BY <1>12, RemoveFailedEffect
    <2>2. QED
      BY <2>1 DEF GivesUp, TypeOK, LocalsInv, Unlisted, AddressInv
  <1>13. ASSUME NEW x \in Clients, Lose(x) PROVE AddressInv'
    BY <1>13
    DEF Lose, TypeOK, LocalsInv, Unlisted, AddressInv, poolVars, callVars,
        closeVars
  <1>14. ASSUME NEW x \in Clients, RunCloseHandlers(x) PROVE AddressInv'
    <2>1. HandlersRun(x)
      BY <1>14, RunCloseHandlersEffect
    <2>2. QED
      BY <2>1 DEF HandlersRun, TypeOK, LocalsInv, Unlisted, AddressInv
  <1>15. CASE PopConnections
    BY <1>15
    DEF PopConnections, TypeOK, LocalsInv, Unlisted, AddressInv, netVars,
        callVars
  <1>16. ASSUME NEW k \in Conns, CloseConn(k) PROVE AddressInv'
    BY <1>16
    DEF CloseConn, TypeOK, LocalsInv, Unlisted, AddressInv, poolVars, callVars
  <1>17. CASE Done
    BY <1>17
    DEF Done, TypeOK, LocalsInv, Unlisted, AddressInv, poolVars, netVars,
        callVars
  <1>18. CASE SocketClosed
    BY <1>18
    DEF SocketClosed, TypeOK, LocalsInv, Unlisted, AddressInv, poolVars,
        netVars, callVars
  <1>19. CASE CloseReturns
    BY <1>19
    DEF CloseReturns, TypeOK, LocalsInv, Unlisted, AddressInv, poolVars,
        netVars, callVars
  <1>20. CASE UNCHANGED vars
    BY <1>20
    DEF TypeOK, LocalsInv, Unlisted, AddressInv, vars, poolVars, netVars,
        callVars, closeVars
  <1>21. QED
    BY <1>1, <1>2, <1>3, <1>4, <1>5, <1>6, <1>7, <1>8, <1>9, <1>10, <1>11,
        <1>12, <1>13, <1>14, <1>15, <1>16, <1>17, <1>18, <1>19, <1>20, NextCases

\* A step keeps an open connection with the conn that holds its client.
LEMMA ClientStep ==
    ASSUME TypeOK, LocalsInv, MutexInv, ClientInv, [Next]_vars
    PROVE  ClientInv'
  <1>1. ASSUME NEW p \in Callers, Connect(p) PROVE ClientInv'
    BY <1>1
    DEF Connect, Goto, TypeOK, LocalsInv, Unlisted, ClientInv, Alive, poolVars,
        netVars, closeVars
  <1>2. ASSUME NEW p \in Callers, LoadConn(p) PROVE ClientInv'
    BY <1>2
    DEF LoadConn, Goto, TypeOK, LocalsInv, Unlisted, ClientInv, Alive, poolVars,
        netVars, closeVars
  <1>3. ASSUME NEW p \in Callers, CreateConn(p) PROVE ClientInv'
    BY <1>3
    DEF CreateConn, Goto, FreshConn, TypeOK, LocalsInv, Unlisted, ClientInv,
        Alive, netVars, closeVars
  <1>4. ASSUME NEW p \in Callers, Acquire(p) PROVE ClientInv'
    BY <1>4
    DEF Acquire, Goto, TypeOK, LocalsInv, Unlisted, ClientInv, Alive, netVars,
        closeVars
  <1>5. ASSUME NEW p \in Callers, AcquireTimesOut(p) PROVE ClientInv'
    BY <1>5
    DEF AcquireTimesOut, Goto, TypeOK, LocalsInv, Unlisted, ClientInv, Alive,
        poolVars, netVars, closeVars
  <1>6. ASSUME NEW p \in Callers, DialReuses(p) PROVE ClientInv'
    BY <1>6
    DEF DialReuses, Goto, Release, Return, TypeOK, LocalsInv, Unlisted,
        ClientInv, Alive, netVars, closeVars
  <1>7. ASSUME NEW p \in Callers, DialRefuses(p) PROVE ClientInv'
    BY <1>7
    DEF DialRefuses, Goto, Release, TypeOK, LocalsInv, Unlisted, ClientInv,
        Alive, netVars, closeVars
  <1>8. ASSUME NEW p \in Callers, StartDial(p) PROVE ClientInv'
    BY <1>8
    DEF StartDial, Goto, TypeOK, LocalsInv, Unlisted, ClientInv, Alive,
        poolVars, netVars, closeVars
  <1>9. ASSUME NEW p \in Callers, DialSucceeds(p) PROVE ClientInv'
    <2>1. PICK x \in Clients :
                /\ FreshClient(x)
                /\ net' = [net EXCEPT ![x] = "open"]
                /\ hook' = [hook EXCEPT ![x] = None]
                /\ c' = [c EXCEPT ![my[p]] = x]
                /\ got' = [got EXCEPT ![p] = x]
      BY <1>9 DEF DialSucceeds
    <2>2. /\ at[p] = "dial"
          /\ at' = [at EXCEPT ![p] = "register"]
          /\ mutex' = [mutex EXCEPT ![my[p]] = None]
          /\ UNCHANGED <<pool, err, ep, my, closer, popped, cur, waits, due>>
      BY <1>9 DEF DialSucceeds, Goto, Release, closeVars
    <2>3. my[p] \in Conns
      BY <2>2 DEF LocalsInv, TypeOK, Unlisted
    <2>4. \A q \in Callers : at[q] = "dial" /\ q # p => my[q] # my[p]
      BY <2>2 DEF MutexInv, Holding
    <2>5. \A k \in Conns : c[k] = x => FreshConn(k)
      BY <2>1 DEF FreshClient
    <2>6. \A y \in Clients : hook'[y] # None /\ net'[y] = "open" => c'[hook'[y].conn] = y
      <3> SUFFICES ASSUME NEW y \in Clients, hook'[y] # None, net'[y] = "open"
                   PROVE  c'[hook'[y].conn] = y
        OBVIOUS
      <3>1. y # x /\ hook[y] # None /\ net[y] = "open" /\ hook'[y] = hook[y]
        BY <2>1 DEF TypeOK
      <3>2. c[hook[y].conn] = y /\ hook[y].conn \in Conns
        BY <3>1 DEF ClientInv, TypeOK
      <3>3. hook[y].conn # my[p]
        BY <2>2, <3>1, <3>2, NoneAssumption DEF ClientInv, Alive
      <3>4. QED
        BY <2>1, <2>3, <3>1, <3>2, <3>3 DEF TypeOK
    <2>7. \A q \in Callers : at'[q] = "register" /\ net'[got'[q]] = "open" => c'[my'[q]] = got'[q]
      <3> SUFFICES ASSUME NEW q \in Callers, at'[q] = "register", net'[got'[q]] = "open"
                   PROVE  c'[my'[q]] = got'[q]
        OBVIOUS
      <3>1. CASE q = p
        BY <2>1, <2>2, <2>3, <3>1 DEF TypeOK
      <3>2. CASE q # p
        <4>1. at[q] = "register" /\ got'[q] = got[q] /\ my'[q] = my[q]
          BY <2>1, <2>2, <3>2 DEF TypeOK
        <4>2. got[q] \in Clients /\ got[q] # x /\ my[q] \in Conns
          BY <2>1, <4>1 DEF FreshClient, LocalsInv, TypeOK, Unlisted
        <4>3. net[got[q]] = "open"
          BY <2>1, <4>1, <4>2 DEF TypeOK
        <4>4. c[my[q]] = got[q]
          BY <4>1, <4>3 DEF ClientInv
        <4>5. my[q] # my[p]
          BY <2>2, <4>2, <4>3, <4>4, NoneAssumption DEF ClientInv, Alive
        <4>6. QED
          BY <2>1, <2>3, <4>1, <4>2, <4>4, <4>5 DEF TypeOK
      <3>3. QED
        BY <3>1, <3>2
    <2>8. \A q \in Callers : at'[q] = "dial" => ~Alive(c[my[q]])' /\ my'[q] = my[q]
      <3> SUFFICES ASSUME NEW q \in Callers, at'[q] = "dial"
                   PROVE  ~(c'[my'[q]] # None /\ net'[c'[my'[q]]] = "open") /\ my'[q] = my[q]
        BY DEF Alive
      <3>1. q # p /\ at[q] = "dial" /\ my'[q] = my[q] /\ my[q] \in Conns
        BY <2>2 DEF TypeOK, LocalsInv, Unlisted
      <3>2. my[q] # my[p]
        BY <2>4, <3>1
      <3>3. c'[my[q]] = c[my[q]]
        BY <2>1, <3>1, <3>2 DEF TypeOK
      <3>4. c[my[q]] # x
        BY <2>5, <3>1 DEF FreshConn
      <3>5. QED
        BY <2>1, <3>1, <3>3, <3>4 DEF ClientInv, Alive, TypeOK
    <2>9. QED
      BY <2>6, <2>7, <2>8 DEF ClientInv, Alive
  <1>10. ASSUME NEW p \in Callers, DialFails(p) PROVE ClientInv'
    BY <1>10
    DEF DialFails, Goto, Release, TypeOK, LocalsInv, Unlisted, ClientInv, Alive,
        netVars, closeVars
  <1>11. ASSUME NEW p \in Callers, Register(p) PROVE ClientInv'
    BY <1>11
    DEF Register, Goto, Return, TypeOK, LocalsInv, Unlisted, ClientInv, Alive,
        poolVars, closeVars
  <1>12. ASSUME NEW p \in Callers, RemoveFailed(p) PROVE ClientInv'
    <2>1. GivesUp(p)
      BY <1>12, RemoveFailedEffect
    <2>2. QED
      BY <2>1 DEF GivesUp, TypeOK, LocalsInv, Unlisted, ClientInv, Alive
  <1>13. ASSUME NEW x \in Clients, Lose(x) PROVE ClientInv'
    BY <1>13
    DEF Lose, TypeOK, LocalsInv, Unlisted, ClientInv, Alive, poolVars, callVars,
        closeVars
  <1>14. ASSUME NEW x \in Clients, RunCloseHandlers(x) PROVE ClientInv'
    <2>1. HandlersRun(x)
      BY <1>14, RunCloseHandlersEffect
    <2>2. QED
      BY <2>1 DEF HandlersRun, TypeOK, LocalsInv, Unlisted, ClientInv, Alive
  <1>15. CASE PopConnections
    BY <1>15
    DEF PopConnections, TypeOK, LocalsInv, Unlisted, ClientInv, Alive, netVars,
        callVars
  <1>16. ASSUME NEW k \in Conns, CloseConn(k) PROVE ClientInv'
    BY <1>16
    DEF CloseConn, TypeOK, LocalsInv, Unlisted, ClientInv, Alive, poolVars,
        callVars
  <1>17. CASE Done
    BY <1>17
    DEF Done, TypeOK, LocalsInv, Unlisted, ClientInv, Alive, poolVars, netVars,
        callVars
  <1>18. CASE SocketClosed
    BY <1>18
    DEF SocketClosed, TypeOK, LocalsInv, Unlisted, ClientInv, Alive, poolVars,
        netVars, callVars
  <1>19. CASE CloseReturns
    BY <1>19
    DEF CloseReturns, TypeOK, LocalsInv, Unlisted, ClientInv, Alive, poolVars,
        netVars, callVars
  <1>20. CASE UNCHANGED vars
    BY <1>20
    DEF TypeOK, LocalsInv, Unlisted, ClientInv, Alive, vars, poolVars, netVars,
        callVars, closeVars
  <1>21. QED
    BY <1>1, <1>2, <1>3, <1>4, <1>5, <1>6, <1>7, <1>8, <1>9, <1>10, <1>11,
        <1>12, <1>13, <1>14, <1>15, <1>16, <1>17, <1>18, <1>19, <1>20, NextCases

\* A step keeps conns with an error without a live client.
LEMMA ErrorStep ==
    ASSUME TypeOK, LocalsInv, MutexInv, ClientInv, ErrorInv, [Next]_vars
    PROVE  ErrorInv'
  <1>1. ASSUME NEW p \in Callers, Connect(p) PROVE ErrorInv'
    BY <1>1
    DEF Connect, Goto, TypeOK, ErrorInv, Alive, poolVars, netVars, closeVars
  <1>2. ASSUME NEW p \in Callers, LoadConn(p) PROVE ErrorInv'
    BY <1>2
    DEF LoadConn, Goto, TypeOK, ErrorInv, Alive, poolVars, netVars, closeVars
  <1>3. ASSUME NEW p \in Callers, CreateConn(p) PROVE ErrorInv'
    BY <1>3
    DEF CreateConn, Goto, FreshConn, TypeOK, ErrorInv, Alive, netVars, closeVars
  <1>4. ASSUME NEW p \in Callers, Acquire(p) PROVE ErrorInv'
    BY <1>4
    DEF Acquire, Goto, TypeOK, ErrorInv, Alive, netVars, closeVars
  <1>5. ASSUME NEW p \in Callers, AcquireTimesOut(p) PROVE ErrorInv'
    BY <1>5
    DEF AcquireTimesOut, Goto, TypeOK, ErrorInv, Alive, poolVars, netVars,
        closeVars
  <1>6. ASSUME NEW p \in Callers, DialReuses(p) PROVE ErrorInv'
    BY <1>6
    DEF DialReuses, Goto, Release, Return, TypeOK, ErrorInv, Alive, netVars,
        closeVars
  <1>7. ASSUME NEW p \in Callers, DialRefuses(p) PROVE ErrorInv'
    BY <1>7
    DEF DialRefuses, Goto, Release, TypeOK, ErrorInv, Alive, netVars, closeVars
  <1>8. ASSUME NEW p \in Callers, StartDial(p) PROVE ErrorInv'
    BY <1>8
    DEF StartDial, Goto, TypeOK, ErrorInv, Alive, poolVars, netVars, closeVars
  <1>9. ASSUME NEW p \in Callers, DialSucceeds(p) PROVE ErrorInv'
    BY <1>9
    DEF DialSucceeds, Goto, Release, FreshClient, FreshConn, TypeOK, ErrorInv,
        Alive, closeVars
  <1>10. ASSUME NEW p \in Callers, DialFails(p) PROVE ErrorInv'
    <2>1. /\ at[p] = "dial" /\ my[p] \in Conns
          /\ err' = [err EXCEPT ![my[p]] = TRUE]
          /\ at' = [at EXCEPT ![p] = "remove"]
          /\ UNCHANGED <<pool, c, net, my>>
      BY <1>10 DEF DialFails, Goto, LocalsInv, Unlisted, TypeOK, netVars
    <2>2. \A q \in Callers : at[q] = "dial" /\ q # p => my[q] # my[p]
      BY <2>1 DEF MutexInv, Holding
    <2>3. \A q \in Callers : at'[q] = "dial" => ~err'[my'[q]]
      BY <2>1, <2>2 DEF ErrorInv, TypeOK
    <2>4. \A a \in Addrs : pool'[a] # None /\ err'[pool'[a]] => ~Alive(c[pool[a]])'
      BY <2>1 DEF ErrorInv, ClientInv, TypeOK, Alive
    <2>5. QED
      BY <2>1, <2>3, <2>4 DEF ErrorInv, Alive
  <1>11. ASSUME NEW p \in Callers, Register(p) PROVE ErrorInv'
    BY <1>11
    DEF Register, Goto, Return, TypeOK, ErrorInv, Alive, poolVars, closeVars
  <1>12. ASSUME NEW p \in Callers, RemoveFailed(p) PROVE ErrorInv'
    <2>1. GivesUp(p)
      BY <1>12, RemoveFailedEffect
    <2>2. QED
      BY <2>1 DEF GivesUp, TypeOK, ErrorInv, Alive
  <1>13. ASSUME NEW x \in Clients, Lose(x) PROVE ErrorInv'
    BY <1>13
    DEF Lose, TypeOK, ErrorInv, Alive, poolVars, callVars, closeVars
  <1>14. ASSUME NEW x \in Clients, RunCloseHandlers(x) PROVE ErrorInv'
    <2>1. HandlersRun(x)
      BY <1>14, RunCloseHandlersEffect
    <2>2. QED
      BY <2>1 DEF HandlersRun, TypeOK, ErrorInv, Alive
  <1>15. CASE PopConnections
    BY <1>15
    DEF PopConnections, TypeOK, ErrorInv, Alive, netVars, callVars
  <1>16. ASSUME NEW k \in Conns, CloseConn(k) PROVE ErrorInv'
    BY <1>16
    DEF CloseConn, TypeOK, ErrorInv, Alive, poolVars, callVars
  <1>17. CASE Done
    BY <1>17
    DEF Done, TypeOK, ErrorInv, Alive, poolVars, netVars, callVars
  <1>18. CASE SocketClosed
    BY <1>18
    DEF SocketClosed, TypeOK, ErrorInv, Alive, poolVars, netVars, callVars
  <1>19. CASE CloseReturns
    BY <1>19
    DEF CloseReturns, TypeOK, ErrorInv, Alive, poolVars, netVars, callVars
  <1>20. CASE UNCHANGED vars
    BY <1>20
    DEF TypeOK, ErrorInv, Alive, vars, poolVars, netVars, callVars, closeVars
  <1>21. QED
    BY <1>1, <1>2, <1>3, <1>4, <1>5, <1>6, <1>7, <1>8, <1>9, <1>10, <1>11,
        <1>12, <1>13, <1>14, <1>15, <1>16, <1>17, <1>18, <1>19, <1>20, NextCases

\* A step leaves somebody to remove every conn in the pool that has an error.
LEMMA ForgottenStep ==
    ASSUME TypeOK, LocalsInv, MutexInv, AddressInv, ErrorInv, FailedIsForgotten, [Next]_vars
    PROVE  FailedIsForgotten'
  <1>1. ASSUME NEW p \in Callers, Connect(p) PROVE FailedIsForgotten'
    BY <1>1
    DEF Connect, Goto, TypeOK, FailedIsForgotten, poolVars, netVars, closeVars
  <1>2. ASSUME NEW p \in Callers, LoadConn(p) PROVE FailedIsForgotten'
    BY <1>2
    DEF LoadConn, Goto, TypeOK, FailedIsForgotten, poolVars, netVars, closeVars
  <1>3. ASSUME NEW p \in Callers, CreateConn(p) PROVE FailedIsForgotten'
    BY <1>3, EndpointAddr, NoneAssumption
    DEF CreateConn, Goto, FreshConn, TypeOK, LocalsInv, Unlisted,
        FailedIsForgotten, netVars, closeVars
  <1>4. ASSUME NEW p \in Callers, Acquire(p) PROVE FailedIsForgotten'
    BY <1>4
    DEF Acquire, Goto, TypeOK, FailedIsForgotten, netVars, closeVars
  <1>5. ASSUME NEW p \in Callers, AcquireTimesOut(p) PROVE FailedIsForgotten'
    BY <1>5
    DEF AcquireTimesOut, Goto, TypeOK, FailedIsForgotten, poolVars, netVars,
        closeVars
  <1>6. ASSUME NEW p \in Callers, DialReuses(p) PROVE FailedIsForgotten'
    BY <1>6
    DEF DialReuses, Goto, Release, Return, TypeOK, MutexInv, Holding,
        AddressInv, ErrorInv, FailedIsForgotten, netVars, closeVars
  <1>7. ASSUME NEW p \in Callers, DialRefuses(p) PROVE FailedIsForgotten'
    BY <1>7
    DEF DialRefuses, Goto, Release, TypeOK, FailedIsForgotten, netVars,
        closeVars
  <1>8. ASSUME NEW p \in Callers, StartDial(p) PROVE FailedIsForgotten'
    BY <1>8
    DEF StartDial, Goto, TypeOK, FailedIsForgotten, poolVars, netVars, closeVars
  <1>9. ASSUME NEW p \in Callers, DialSucceeds(p) PROVE FailedIsForgotten'
    BY <1>9
    DEF DialSucceeds, Goto, Release, FreshClient, FreshConn, TypeOK,
        FailedIsForgotten, closeVars
  <1>10. ASSUME NEW p \in Callers, DialFails(p) PROVE FailedIsForgotten'
    BY <1>10
    DEF DialFails, Goto, Release, TypeOK, MutexInv, Holding, AddressInv,
        ErrorInv, FailedIsForgotten, netVars, closeVars
  <1>11. ASSUME NEW p \in Callers, Register(p) PROVE FailedIsForgotten'
    BY <1>11
    DEF Register, Goto, Return, TypeOK, FailedIsForgotten, poolVars, closeVars
  <1>12. ASSUME NEW p \in Callers, RemoveFailed(p) PROVE FailedIsForgotten'
    <2>1. GivesUp(p)
      BY <1>12, RemoveFailedEffect
    <2>2. my[p] \in Conns
      BY <2>1 DEF GivesUp, LocalsInv, Unlisted, TypeOK
    <2> SUFFICES ASSUME NEW a \in Addrs, pool'[a] # None, err'[pool'[a]]
                 PROVE  \E q \in Callers : /\ my'[q] = pool'[a]
                                           /\ Endpoints[ep'[q]] = a
                                           /\ at'[q] \in {"check", "remove"}
      BY DEF FailedIsForgotten
    <2>3. pool'[a] = pool[a] /\ pool[a] # None /\ err[pool[a]] /\ pool[a] \in Conns
      BY <2>1 DEF GivesUp, TypeOK
    <2>4. PICK q \in Callers : /\ my[q] = pool[a]
                               /\ Endpoints[ep[q]] = a
                               /\ at[q] \in {"check", "remove"}
      BY <2>3 DEF FailedIsForgotten
    <2>5. CASE q # p
      BY <2>1, <2>3, <2>4, <2>5 DEF GivesUp, TypeOK
    <2>6. CASE q = p
      <3>1. RemoveConn(a, pool[a])
        BY <1>12, <2>4, <2>6 DEF RemoveFailed
      <3>2. ~Removes(a, pool[a])
        BY <2>3, <3>1 DEF RemoveConn, TypeOK
      <3>3. mutex[pool[a]] # None
        BY <2>3, <3>2 DEF Removes
      <3>4. PICK r \in Callers : mutex[pool[a]] = r
        BY <2>3, <3>3 DEF TypeOK
      <3>5. at[r] \in Holding /\ my[r] = pool[a]
        BY <2>3, <3>3, <3>4 DEF MutexInv
      <3>6. at[r] = "check"
        BY <2>3, <3>5 DEF ErrorInv, Holding
      <3>7. Endpoints[ep[r]] = a
        BY <2>3, <3>5 DEF AddressInv
      <3>8. r # p
        BY <2>1, <3>6 DEF GivesUp
      <3>9. QED
        BY <2>1, <2>3, <3>5, <3>6, <3>7, <3>8 DEF GivesUp, TypeOK
    <2>7. QED
      BY <2>5, <2>6
  <1>13. ASSUME NEW x \in Clients, Lose(x) PROVE FailedIsForgotten'
    BY <1>13
    DEF Lose, TypeOK, FailedIsForgotten, poolVars, callVars, closeVars
  <1>14. ASSUME NEW x \in Clients, RunCloseHandlers(x) PROVE FailedIsForgotten'
    <2>1. HandlersRun(x)
      BY <1>14, RunCloseHandlersEffect
    <2>2. QED
      BY <2>1 DEF HandlersRun, TypeOK, FailedIsForgotten
  <1>15. CASE PopConnections
    BY <1>15
    DEF PopConnections, TypeOK, FailedIsForgotten, netVars, callVars
  <1>16. ASSUME NEW k \in Conns, CloseConn(k) PROVE FailedIsForgotten'
    BY <1>16
    DEF CloseConn, TypeOK, FailedIsForgotten, poolVars, callVars
  <1>17. CASE Done
    BY <1>17
    DEF Done, TypeOK, FailedIsForgotten, poolVars, netVars, callVars
  <1>18. CASE SocketClosed
    BY <1>18
    DEF SocketClosed, TypeOK, FailedIsForgotten, poolVars, netVars, callVars
  <1>19. CASE CloseReturns
    BY <1>19
    DEF CloseReturns, TypeOK, FailedIsForgotten, poolVars, netVars, callVars
  <1>20. CASE UNCHANGED vars
    BY <1>20
    DEF TypeOK, FailedIsForgotten, vars, poolVars, netVars, callVars, closeVars
  <1>21. QED
    BY <1>1, <1>2, <1>3, <1>4, <1>5, <1>6, <1>7, <1>8, <1>9, <1>10, <1>11,
        <1>12, <1>13, <1>14, <1>15, <1>16, <1>17, <1>18, <1>19, <1>20, NextCases

\* The invariant holds for ever.
THEOREM Invariant == Spec => []IInv
  <1>1. Init => IInv
    BY EndpointsAssumption, NoneAssumption, EndpointAddr
    DEF Init, IInv, TypeOK, LocalsInv, Unlisted, MutexInv, Holding, AddressInv,
        ErrorInv, ClientInv, FailedIsForgotten
  <1>2. IInv /\ [Next]_vars => IInv'
    BY TypeStep, LocalsStep, MutexStep, AddressStep, ClientStep, ErrorStep,
        ForgottenStep
    DEF IInv
  <1>3. QED
    BY <1>1, <1>2, PTL DEF Spec

\* For any number of goroutines, endpoints and connections every variable
\* keeps its type; in particular no goroutine runs past the last endpoint.
THEOREM TypeCorrect == Spec => []TypeOK
  BY Invariant, PTL DEF IInv

\* A conn whose dial failed (conn.Dial, device.go:134) is in the pool only while
\* somebody has still to call removeConn for it: no later call is refused
\* because of an old error for ever.
THEOREM FailedIsForgottenHolds == Spec => []FailedIsForgotten
  BY Invariant, PTL DEF IInv

\* A conn never has two connections open: conn.Dial replaces a client only
\* when it is closed, whoever waits for the semaphore.
THEOREM OneConnectionPerConnHolds == Spec => []OneConnectionPerConn
  <1>1. IInv => OneConnectionPerConn
    BY DEF IInv, ClientInv, OneConnectionPerConn
  <1>2. QED
    BY <1>1, Invariant, PTL

------------------------------------------------------------------------------
(* Device.Close                                                             *)

\* A connection that was in the pool when Close took the conns out is closed,
\* or the conn that holds it has still to be closed.
DueInv == \A x \in due : net[x] # "open" \/ \E k \in popped : c[k] = x

\* A step keeps that: a conn that was taken out is dialled again only when its
\* client is dead, and a client Close has to do with is not used again.
LEMMA DueStep ==
    ASSUME IInv, DueInv, [Next]_vars
    PROVE  DueInv'
  <1>t. TypeOK
    BY DEF IInv
  <1>1. ASSUME UNCHANGED <<c, popped, due>>, \A x \in Clients : net'[x] = "open" => net[x] = "open"
        PROVE  DueInv'
    BY <1>t, <1>1 DEF DueInv, TypeOK
  <1>2. ASSUME NEW p \in Callers, CreateConn(p) PROVE DueInv'
    <2>1. PICK k \in Conns : FreshConn(k) /\ c' = [c EXCEPT ![k] = None]
      BY <1>2 DEF CreateConn
    <2>2. k \notin popped /\ UNCHANGED <<net, popped, due>>
      BY <1>2, <2>1 DEF CreateConn, FreshConn, netVars, closeVars
    <2>3. QED
      BY <1>t, <2>1, <2>2 DEF DueInv, TypeOK
  <1>3. ASSUME NEW p \in Callers, DialSucceeds(p) PROVE DueInv'
    <2>1. PICK x \in Clients :
                /\ FreshClient(x)
                /\ net' = [net EXCEPT ![x] = "open"]
                /\ c' = [c EXCEPT ![my[p]] = x]
      BY <1>3 DEF DialSucceeds
    <2>2. at[p] = "dial" /\ UNCHANGED <<popped, due>>
      BY <1>3 DEF DialSucceeds, closeVars
    <2>3. ~Alive(c[my[p]])
      BY <2>2 DEF IInv, ClientInv
    <2>4. ASSUME NEW y \in due, net'[y] = "open" PROVE \E k \in popped : c'[k] = y
      <3>1. y # x /\ y \in Clients
        BY <1>t, <2>1 DEF FreshClient, TypeOK
      <3>2. net[y] = "open"
        BY <1>t, <2>1, <2>4, <3>1 DEF TypeOK
      <3>3. PICK k \in popped : c[k] = y
        BY <3>2 DEF DueInv
      <3>4. k \in Conns /\ k # my[p]
        BY <1>t, <2>3, <3>1, <3>2, <3>3, NoneAssumption DEF Alive, TypeOK
      <3>5. QED
        BY <1>t, <2>1, <3>3, <3>4 DEF TypeOK
    <2>5. QED
      BY <2>2, <2>4 DEF DueInv
  <1>4. CASE PopConnections
    <2>1. ASSUME NEW x \in due' PROVE \E k \in popped' : c'[k] = x
      <3>1. PICK a \in Addrs : pool[a] # None /\ c[pool[a]] = x
        BY <1>4, <2>1 DEF PopConnections
      <3>2. pool[a] \in popped' /\ c' = c
        BY <1>4, <3>1 DEF PopConnections
      <3>3. QED
        BY <3>1, <3>2
    <2>2. QED
      BY <2>1 DEF DueInv
  <1>5. ASSUME NEW k \in Conns, CloseConn(k) PROVE DueInv'
    <2>1. /\ popped' = popped \ {k} /\ UNCHANGED <<c, due>>
          /\ net' = IF Alive(c[k]) THEN [net EXCEPT ![c[k]] = "closing"] ELSE net
      BY <1>5 DEF CloseConn, poolVars
    <2>2. c[k] \in Clients \union {None} /\ net \in [Clients -> {"unused", "open", "closing", "done"}]
      BY <1>t DEF TypeOK
    <2>3. ASSUME NEW x \in due, net'[x] = "open" PROVE \E j \in popped' : c'[j] = x
      <3>1. x \in Clients
        BY <1>t DEF TypeOK
      <3>2. net[x] = "open" /\ x # c[k]
        BY <2>1, <2>2, <2>3, <3>1, NoneAssumption DEF Alive
      <3>3. QED
        BY <2>1, <3>2 DEF DueInv
    <2>4. QED
      BY <2>1, <2>3 DEF DueInv
  <1>6. CASE CloseReturns
    BY <1>6 DEF CloseReturns, DueInv
  <1>7. ASSUME NEW x \in Clients, Lose(x) \/ RunCloseHandlers(x) PROVE DueInv'
    <2>1. /\ UNCHANGED <<c, popped, due>>
          /\ net' = [net EXCEPT ![x] = "closing"] \/ net' = [net EXCEPT ![x] = "done"]
      BY <1>7 DEF Lose, RunCloseHandlers, poolVars, closeVars
    <2>2. QED
      BY <1>t, <1>1, <2>1 DEF TypeOK
  <1>8. ASSUME NEW p \in Callers,
               Connect(p) \/ LoadConn(p) \/ Acquire(p) \/ AcquireTimesOut(p) \/ DialReuses(p)
               \/ DialRefuses(p) \/ StartDial(p) \/ DialFails(p) \/ Register(p) \/ RemoveFailed(p)
        PROVE  DueInv'
    <2>1. UNCHANGED <<c, net, popped, due>>
      BY <1>8 DEF Connect, LoadConn, Acquire, AcquireTimesOut, DialReuses, DialRefuses, StartDial,
         DialFails, Register, RemoveFailed, poolVars, netVars, closeVars
    <2>2. QED
      BY <1>1, <2>1
  <1>9. CASE Done \/ SocketClosed \/ UNCHANGED vars
    <2>1. UNCHANGED <<c, net, popped, due>>
      BY <1>9 DEF Done, SocketClosed, vars, poolVars, netVars, closeVars
    <2>2. QED
      BY <1>1, <2>1
  <1>10. QED
    BY <1>2, <1>3, <1>4, <1>5, <1>6, <1>7, <1>8, <1>9, NextCases

\* Device.Close closes every connection that the pool held when it was called
\* (device.go:189), for any number of goroutines that go on dialling into the
\* conns it has taken out, and however often it is called.
THEOREM CloseClosesPooledHolds == Spec => CloseClosesPooled
  <1>1. Init => DueInv
    BY DEF Init, DueInv
  <1>2. DueInv => (CloseReturns => \A x \in due : net[x] # "open")
    BY DEF DueInv, CloseReturns
  <1>3. QED
    BY <1>1, <1>2, Invariant, DueStep, PTL DEF Spec, CloseClosesPooled
=============================================================================
