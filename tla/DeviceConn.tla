---------------------------- MODULE DeviceConn ----------------------------
(* The connection pool of a device (client/core/device.go): a map from the  *)
(* address of an endpoint to a conn, which holds a CoAP client, the error   *)
(* of its last dial and a semaphore that lets one goroutine dial at a time. *)
(* Goroutines connect to the endpoints of the device and close the device,  *)
(* connections break, and the close handler of a client removes its conn    *)
(* from the pool some time after the connection has ended.                  *)
EXTENDS Integers, Sequences

CONSTANTS
    Callers,     \* goroutines that connect to the device
    Endpoints,   \* the addresses connectToEndpoints tries, in order
    Conns,       \* conn objects
    Clients,     \* CoAP clients (coap.ClientCloseHandler)
    None,
    MayTimeout,  \* a caller's context may end while it waits for the semaphore
    MayLose,     \* connections may break
    MayClose     \* the device may be closed

Addrs == {Endpoints[i] : i \in 1..Len(Endpoints)}

ASSUME EndpointsAssumption == Endpoints \in Seq(Addrs) /\ Len(Endpoints) > 0
ASSUME NoneAssumption ==
    /\ None \notin Conns \union Clients \union Callers
    /\ None \notin [addr : Addrs, conn : Conns]
ASSUME SwitchesAssumption == {MayTimeout, MayLose, MayClose} \subseteq BOOLEAN

VARIABLES
    pool,    \* Device.private.conn: the conn of an address
    c,       \* conn.c: the client of a conn
    err,     \* conn.err # nil
    mutex,   \* conn.mutex: the goroutine that holds the semaphore
    net,     \* a client's connection; its context is over iff it is not "open"
    hook,    \* what the close handler registered on a client has captured
    at,      \* where a caller is in connectToEndpoint
    ep,      \* the endpoint it tries
    my,      \* its conn
    got,     \* the client it has dialled
    closer,  \* where Device.Close is
    popped,  \* the conns it still has to close
    cur,     \* the conn it is closing
    waits,   \* the client whose Done channel it waits for
    due      \* history: the open clients of the pool when it was called

poolVars == <<pool, c, err, mutex>>
netVars == <<net, hook>>
callVars == <<at, ep, my, got>>
closeVars == <<closer, popped, cur, waits, due>>
vars == <<poolVars, netVars, callVars, closeVars>>

TypeOK ==
    /\ pool \in [Addrs -> Conns \union {None}]
    /\ c \in [Conns -> Clients \union {None}]
    /\ err \in [Conns -> BOOLEAN]
    /\ mutex \in [Conns -> Callers \union {None}]
    /\ net \in [Clients -> {"unused", "open", "closing", "done"}]
    /\ hook \in [Clients -> [addr : Addrs, conn : Conns] \union {None}]
    /\ at \in [Callers -> {"idle", "load", "acquire", "check", "dial", "register", "remove"}]
    /\ ep \in [Callers -> 1..Len(Endpoints)]
    /\ my \in [Callers -> Conns \union {None}]
    /\ got \in [Callers -> Clients \union {None}]
    /\ closer \in {"idle", "next", "done", "wait"}
    /\ popped \subseteq Conns
    /\ cur \in Conns \union {None}
    /\ waits \in Clients \union {None}
    /\ due \subseteq Clients

Init ==
    /\ pool = [a \in Addrs |-> None]
    /\ c = [k \in Conns |-> None]
    /\ err = [k \in Conns |-> FALSE]
    /\ mutex = [k \in Conns |-> None]
    /\ net = [x \in Clients |-> "unused"]
    /\ hook = [x \in Clients |-> None]
    /\ at = [p \in Callers |-> "idle"]
    /\ ep = [p \in Callers |-> 1]
    /\ my = [p \in Callers |-> None]
    /\ got = [p \in Callers |-> None]
    /\ closer = "idle"
    /\ popped = {}
    /\ cur = None
    /\ waits = None
    /\ due = {}

------------------------------------------------------------------------------
(* Memory: an object nothing refers to any more may be allocated again, so  *)
(* that Conns and Clients bound what exists at a time, not what ever was.   *)

FreshConn(k) ==
    /\ \A a \in Addrs : pool[a] # k
    /\ \A p \in Callers : my[p] # k
    /\ \A x \in Clients : hook[x] # None => hook[x].conn # k
    /\ k \notin popped
    /\ cur # k

FreshClient(x) ==
    /\ net[x] \in {"unused", "done"}
    /\ \A k \in Conns : c[k] = x => FreshConn(k)
    /\ \A p \in Callers : got[p] # x
    /\ waits # x
    /\ x \notin due

------------------------------------------------------------------------------
(* connectToEndpoints, connectToEndpoint                                    *)

Goto(p, l) == at' = [at EXCEPT ![p] = l]

Connect(p) ==
    /\ at[p] = "idle"
    /\ Goto(p, "load")
    /\ ep' = [ep EXCEPT ![p] = 1]
    /\ UNCHANGED <<poolVars, netVars, my, got, closeVars>>

\* loadORCreate: the conn of the address, or a new one.
LoadConn(p) ==
    /\ at[p] = "load"
    /\ pool[Endpoints[ep[p]]] # None
    /\ my' = [my EXCEPT ![p] = pool[Endpoints[ep[p]]]]
    /\ Goto(p, "acquire")
    /\ UNCHANGED <<poolVars, netVars, ep, got, closeVars>>

CreateConn(p) ==
    /\ at[p] = "load"
    /\ pool[Endpoints[ep[p]]] = None
    /\ \E k \in Conns :
        /\ FreshConn(k)
        /\ pool' = [pool EXCEPT ![Endpoints[ep[p]]] = k]
        /\ c' = [c EXCEPT ![k] = None]
        /\ err' = [err EXCEPT ![k] = FALSE]
        /\ my' = [my EXCEPT ![p] = k]
    /\ Goto(p, "acquire")
    /\ UNCHANGED <<mutex, netVars, ep, got, closeVars>>

\* conn.Dial takes the semaphore, unless the caller's context ends first.
Acquire(p) ==
    /\ at[p] = "acquire"
    /\ mutex[my[p]] = None
    /\ mutex' = [mutex EXCEPT ![my[p]] = p]
    /\ Goto(p, "check")
    /\ UNCHANGED <<pool, c, err, netVars, ep, my, got, closeVars>>

AcquireTimesOut(p) ==
    /\ MayTimeout
    /\ at[p] = "acquire"
    /\ Goto(p, "remove")
    /\ UNCHANGED <<poolVars, netVars, ep, my, got, closeVars>>

Release(k) == mutex' = [mutex EXCEPT ![k] = None]

Alive(x) == x # None /\ net[x] = "open"

\* The caller is done: it has a client or an error for the last endpoint.
Return(p) ==
    /\ Goto(p, "idle")
    /\ my' = [my EXCEPT ![p] = None]
    /\ got' = [got EXCEPT ![p] = None]

DialReuses(p) ==
    /\ at[p] = "check"
    /\ Alive(c[my[p]])
    /\ Release(my[p])
    /\ Return(p)
    /\ UNCHANGED <<pool, c, err, netVars, ep, closeVars>>

\* An earlier dial of this conn failed: its error is returned to all who wait.
DialRefuses(p) ==
    /\ at[p] = "check"
    /\ ~Alive(c[my[p]])
    /\ err[my[p]]
    /\ Release(my[p])
    /\ Goto(p, "remove")
    /\ UNCHANGED <<pool, c, err, netVars, ep, my, got, closeVars>>

\* Mutation: a client is dialled although the conn has one.
StartDialAlways(p) ==
    /\ at[p] = "check"
    /\ ~err[my[p]]
    /\ Goto(p, "dial")
    /\ UNCHANGED <<poolVars, netVars, ep, my, got, closeVars>>

StartDial(p) ==
    /\ at[p] = "check"
    /\ ~Alive(c[my[p]])
    /\ ~err[my[p]]
    /\ Goto(p, "dial")
    /\ UNCHANGED <<poolVars, netVars, ep, my, got, closeVars>>

DialSucceeds(p) ==
    /\ at[p] = "dial"
    /\ \E x \in Clients :
        /\ FreshClient(x)
        /\ net' = [net EXCEPT ![x] = "open"]
        /\ hook' = [hook EXCEPT ![x] = None]
        /\ c' = [c EXCEPT ![my[p]] = x]
        /\ got' = [got EXCEPT ![p] = x]
    /\ Release(my[p])
    /\ Goto(p, "register")
    /\ UNCHANGED <<pool, err, ep, my, closeVars>>

DialFails(p) ==
    /\ at[p] = "dial"
    /\ err' = [err EXCEPT ![my[p]] = TRUE]
    /\ Release(my[p])
    /\ Goto(p, "remove")
    /\ UNCHANGED <<pool, c, netVars, ep, my, got, closeVars>>

\* OnCloseHandler.Add: a handler added after the client's handlers have run
\* is never called.
Register(p) ==
    /\ at[p] = "register"
    /\ hook' = IF net[got[p]] = "done" THEN hook
               ELSE [hook EXCEPT ![got[p]] = [addr |-> Endpoints[ep[p]], conn |-> my[p]]]
    /\ Return(p)
    /\ UNCHANGED <<poolVars, net, ep, closeVars>>

\* Mutation: only a conn that had a client is removed.
RemovesDialled(a, k) ==
    LET o == pool[a] IN
    /\ o # None
    /\ mutex[o] = None
    /\ c[k] # None
    /\ c[o] = c[k]

\* removeConn(a, k) deletes the entry of a: whatever conn o is there now, its
\* semaphore can be had, and it holds the client that k holds now or is k and
\* has failed.
Removes(a, k) ==
    LET o == pool[a] IN
    /\ o # None
    /\ mutex[o] = None
    /\ ~(c[k] = None /\ ~err[o])
    /\ \/ c[k] # None /\ c[o] = c[k]
       \/ o = k /\ err[o]

RemoveConn(a, k) ==
    pool' = IF Removes(a, k) THEN [pool EXCEPT ![a] = None] ELSE pool

\* The endpoint failed: its conn is removed and the next endpoint tried.
RemoveFailed(p) ==
    /\ at[p] = "remove"
    /\ RemoveConn(Endpoints[ep[p]], my[p])
    /\ IF ep[p] < Len(Endpoints)
       THEN /\ Goto(p, "load")
            /\ ep' = [ep EXCEPT ![p] = ep[p] + 1]
            /\ my' = [my EXCEPT ![p] = None]
            /\ UNCHANGED got
       ELSE Return(p) /\ UNCHANGED ep
    /\ UNCHANGED <<c, err, mutex, netVars, closeVars>>

------------------------------------------------------------------------------
(* Connections                                                              *)

\* The peer or the network ends a connection: its context is over at once.
Lose(x) ==
    /\ MayLose
    /\ net[x] = "open"
    /\ net' = [net EXCEPT ![x] = "closing"]
    /\ UNCHANGED <<poolVars, hook, callVars, closeVars>>

\* OnCloseHandler.OnClose, called by the connection some time later; Done is
\* closed when it has returned.
RunCloseHandlers(x) ==
    /\ net[x] = "closing"
    /\ net' = [net EXCEPT ![x] = "done"]
    /\ hook' = [hook EXCEPT ![x] = None]
    /\ IF hook[x] # None THEN RemoveConn(hook[x].addr, hook[x].conn) ELSE UNCHANGED pool
    /\ UNCHANGED <<c, err, mutex, callVars, closeVars>>

------------------------------------------------------------------------------
(* Device.Close (its first part, closeObservations, touches no connection)  *)

PopConnections ==
    /\ MayClose
    /\ closer = "idle"
    /\ popped' = {pool[a] : a \in Addrs} \ {None}
    /\ pool' = [a \in Addrs |-> None]
    /\ due' = {x \in Clients : net[x] = "open" /\ \E a \in Addrs : pool[a] # None /\ c[pool[a]] = x}
    /\ closer' = "next"
    /\ UNCHANGED <<c, err, mutex, netVars, callVars, cur, waits>>

\* Mutation: the loop over the connections ends after the first one.
CloseConnFirst(k) ==
    /\ closer = "next"
    /\ k \in popped
    /\ popped' = {}
    /\ cur' = k
    /\ net' = IF Alive(c[k]) THEN [net EXCEPT ![c[k]] = "closing"] ELSE net
    /\ closer' = "done"
    /\ UNCHANGED <<poolVars, hook, callVars, waits, due>>

\* conn.Close
CloseConn(k) ==
    /\ closer = "next"
    /\ k \in popped
    /\ popped' = popped \ {k}
    /\ cur' = k
    /\ net' = IF Alive(c[k]) THEN [net EXCEPT ![c[k]] = "closing"] ELSE net
    /\ closer' = "done"
    /\ UNCHANGED <<poolVars, hook, callVars, waits, due>>

\* conn.Done asks the conn for its client once more.
Done ==
    /\ closer = "done"
    /\ waits' = c[cur]
    /\ cur' = None
    /\ closer' = "wait"
    /\ UNCHANGED <<poolVars, netVars, callVars, popped, due>>

SocketClosed ==
    /\ closer = "wait"
    /\ waits # None => net[waits] = "done"
    /\ waits' = None
    /\ closer' = "next"
    /\ UNCHANGED <<poolVars, netVars, callVars, popped, cur, due>>

CloseReturns ==
    /\ closer = "next"
    /\ popped = {}
    /\ closer' = "idle"
    /\ due' = {}
    /\ UNCHANGED <<poolVars, netVars, callVars, popped, cur, waits>>

------------------------------------------------------------------------------

CallerStep(p) ==
    \/ LoadConn(p) \/ CreateConn(p)
    \/ DialReuses(p) \/ DialRefuses(p) \/ StartDial(p)
    \/ DialSucceeds(p) \/ DialFails(p)
    \/ Register(p) \/ RemoveFailed(p)

Closing ==
    (\E k \in Conns : CloseConn(k)) \/ Done \/ SocketClosed \/ CloseReturns

Next ==
    \/ \E p \in Callers :
        Connect(p) \/ Acquire(p) \/ AcquireTimesOut(p) \/ CallerStep(p)
    \/ \E x \in Clients : Lose(x) \/ RunCloseHandlers(x)
    \/ PopConnections
    \/ Closing

Spec == Init /\ [][Next]_vars

------------------------------------------------------------------------------
(* Properties                                                               *)

\* A dial error is kept in the conn (conn.Dial returns it to every later
\* caller without dialling), so the conn must leave the pool: while a conn
\* with an error is in the pool, somebody who was given the error, or is
\* about to be, has still to call removeConn for it.
FailedIsForgotten ==
    \A a \in Addrs :
        pool[a] # None /\ err[pool[a]] =>
            \E p \in Callers :
                /\ my[p] = pool[a]
                /\ Endpoints[ep[p]] = a
                /\ at[p] \in {"check", "remove"}

\* A conn never has two connections open, although its client is replaced
\* when it is found dead and several goroutines find it so.
OneConnectionPerConn ==
    \A x, y \in Clients :
        /\ hook[x] # None /\ hook[y] # None /\ hook[x].conn = hook[y].conn
        /\ net[x] = "open" /\ net[y] = "open"
        => x = y

\* "Close closes open connections to the device": when Device.Close returns,
\* none of the connections that the pool held when it was called is open,
\* although goroutines go on dialling into the conns that were taken out.
CloseClosesPooled ==
    [][CloseReturns => \A x \in due : net[x] # "open"]_vars
=============================================================================
