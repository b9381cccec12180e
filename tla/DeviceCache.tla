---------------------------- MODULE DeviceCache ----------------------------
(* The client's cache of devices and the calls that find, refresh, move and *)
(* delete them (client/deviceCache.go, getDevice.go, getDevices.go,         *)
(* deleteDevices.go, and the discovery of client/core below them).          *)
(*                                                                          *)
(* The cache maps device IDs to device objects with an expiration.  A call  *)
(* reads the cache, waits for the network and writes the cache again, and   *)
(* the expiration of an element is read and written in two steps, so that   *)
(* calls of several goroutines and the eviction interleave.  There is one   *)
(* IP address devices are found by, with one device behind it.              *)
EXTENDS Integers

CONSTANTS
    Ids,     \* device IDs
    Objs,    \* device objects; one that nobody refers to is used again
    Workers, \* goroutines that call the client
    Nil,     \* no ID, no device
    MaxCalls, MaxChanges, \* bounds on the calls, and on the changes of an ID by Own
    MayClose \* Client.Close may be called

ASSUME NilAssumption == Nil \notin Ids \union Objs
ASSUME IdsAssumption == Ids # {}
ASSUME BoundsAssumption == MayClose \in BOOLEAN /\ {MaxCalls, MaxChanges} \subseteq Nat

VARIABLES
    cache,  \* devicesCache: the object under an ID
    exp,    \* ValidUntil of its element: "never" (the zero time), "fresh" or "expired"
    closed, \* DeviceCache.closed: the eviction has stopped
    idOf,   \* DeviceID of an object
    foundByIP, \* it was found by IP
    open,   \* it has connections
    call,   \* the call a goroutine is in
    calls, changes, \* count the calls, and the changes of an ID by Own
    stored, \* history: the objects that have been in the cache
    stale,  \* history: objects whose ID was changed and not moved in the cache
    raced   \* history: devices given an expiration by a decision that was too old,
            \* or by a GetDevice that has renamed them

devVars == <<idOf, foundByIP, open>>
ghosts == <<stored, stale, raced, changes>>
cacheVars == <<cache, exp, closed, devVars, call, calls, ghosts>>

Labels == {"idle", "load", "touch", "links", "unlessIP", "delete", "mcast", "mcastLinks",
           "closeNew", "store", "ipFind", "ipOld", "ipStore", "ipDrop", "ipLinks", "handleLinks",
           "handleDelete", "compare", "rekey", "rename", "closeRenamed", "got", "owning", "moveExp",
           "moveDelete", "temporary"}
OrNil(S) == S \union {Nil}

\* A call: where it is, is it a ping, the ID it was called with, the device it has
\* got, the one it has found, those it replaces; the element whose expiration
\* it is about to write (or the ID of the links it has read), with what, what it saw of the element before
\* (expiration, found by IP), and where it goes on.
Calls == [at : Labels, ping : BOOLEAN, id : OrNil(Ids),
          dev : OrNil(Objs), new : OrNil(Objs), old : SUBSET Objs,
          key : OrNil(Ids), perm : BOOLEAN, saw : {"never", "fresh", "expired"} \X BOOLEAN,
          then : Labels]

Idle == [at |-> "idle", ping |-> FALSE, id |-> Nil, dev |-> Nil, new |-> Nil, old |-> {},
         key |-> Nil, perm |-> FALSE, saw |-> <<"never", FALSE>>, then |-> "idle"]

\* Where a call uses the device it has got.
Dereferences == {"touch", "links", "compare", "rekey", "unlessIP", "delete", "ipLinks", "handleLinks", "handleDelete",
                 "got", "owning", "moveExp", "temporary"}

\* Every variable has its type, and no call goes on with a nil device: what it
\* has read from the cache, possibly nothing, is checked before it is used.
CacheTypes ==
    /\ cache \in [Ids -> OrNil(Objs)]
    /\ exp \in [Ids -> {"never", "fresh", "expired"}]
    /\ closed \in BOOLEAN
    /\ idOf \in [Objs -> Ids]
    /\ foundByIP \in [Objs -> BOOLEAN]
    /\ open \in [Objs -> BOOLEAN]
    /\ call \in [Workers -> Calls]
    /\ \A w \in Workers : call[w].at \in Dereferences => call[w].dev # Nil
    /\ stored \subseteq Objs /\ stale \subseteq Objs /\ raced \subseteq Objs
    /\ calls \in 0..MaxCalls /\ changes \in 0..MaxChanges

CacheInit ==
    /\ cache = [i \in Ids |-> Nil]
    /\ exp = [i \in Ids |-> "never"]
    /\ closed = FALSE
    /\ idOf = [o \in Objs |-> CHOOSE i \in Ids : TRUE]
    /\ foundByIP = [o \in Objs |-> FALSE]
    /\ open = [o \in Objs |-> FALSE]
    /\ call = [w \in Workers |-> Idle]
    /\ calls = 0 /\ changes = 0 /\ stored = {} /\ stale = {} /\ raced = {}

------------------------------------------------------------------------------
(* The cache                                                                *)

\* devicesCache.Load finds it: not expired.
Live(i) == cache[i] # Nil /\ exp[i] # "expired"

Saw(i) == <<exp[i], foundByIP[cache[i]]>>

Referenced == {cache[i] : i \in Ids} \union
    UNION {{call[w].dev, call[w].new} \union call[w].old : w \in Workers}

\* NewDevice of a discovery: an object nobody refers to.
Fresh == {o \in Objs \ Referenced : ~open[o]}

\* w's call goes on at l, with those fields of c that it needs from there on.
Step(w, c, l) == call' = [call EXCEPT ![w] = IF l = "idle" THEN Idle ELSE
    [Idle EXCEPT
        !.at = l, !.ping = c.ping, !.id = c.id,
        !.dev = IF l \in {"load", "mcast", "mcastLinks", "ipFind", "ipOld", "rename", "closeRenamed"}
                THEN @ ELSE c.dev,
        !.new = IF l \in {"touch", "store", "mcastLinks", "closeNew", "ipOld", "ipStore", "moveDelete",
                          "rename", "closeRenamed"}
                THEN c.new ELSE @,
        !.old = IF l \in {"touch", "store", "ipStore", "ipDrop"} THEN c.old ELSE @,
        !.key = IF l \in {"touch", "compare", "rekey", "rename"} THEN c.key ELSE @,
        !.saw = IF l = "touch" THEN c.saw ELSE @,
        !.perm = IF l \in {"touch", "store"} THEN c.perm ELSE @,
        !.then = IF l \in {"touch", "store", "unlessIP", "delete"} THEN c.then ELSE @]]

\* LoadAndDelete of the devices under the IDs of I, and Close of the objects
\* of D.
Drop(I, D) ==
    /\ cache' = [i \in Ids |-> IF i \in I THEN Nil ELSE cache[i]]
    /\ exp' = [i \in Ids |-> IF i \in I THEN "never" ELSE exp[i]]
    /\ open' = [o \in Objs |-> open[o] /\ o \notin D]
    /\ UNCHANGED <<closed, idOf, foundByIP>>

\* ValidUntil.Store on the element that the call has seen: without effect for
\* the cache if the element is no longer there.
Touch(w) ==
    LET c == call[w] IN
    /\ c.at = "touch"
    /\ IF cache[c.key] = c.dev
       THEN /\ exp' = [exp EXCEPT ![c.key] = IF c.perm THEN "never" ELSE "fresh"]
            /\ raced' = IF ~c.perm /\ foundByIP[c.dev] /\ c.saw # Saw(c.key)
                        THEN raced \union {c.dev} ELSE raced
       ELSE UNCHANGED <<exp, raced>>
    /\ Step(w, c, c.then)
    /\ UNCHANGED <<cache, closed, devVars, stored, stale, changes>>

\* GetDevice, or GetDeviceLinkForHref, which calls it, returns c.dev.  What the
\* call was made for is chosen then: nothing depends on it before.
Returns(w, c) == Step(w, c, "got")

\* Mutation: an element stored without expiration gets one.
StoreAlways(w) ==
    LET c == call[w]  i == idOf[c.new]  d == cache[i] IN
    /\ c.at = "store"
    /\ IF Live(i)
       THEN /\ foundByIP' = [foundByIP EXCEPT ![d] = @ \/ foundByIP[c.new]]
            /\ Step(w, [c EXCEPT !.dev = d, !.key = i, !.saw = Saw(i)], "touch")
            /\ UNCHANGED <<cache, exp, stored, raced>>
       ELSE /\ cache' = [cache EXCEPT ![i] = c.new]
            /\ exp' = [exp EXCEPT ![i] = IF c.perm THEN "never" ELSE "fresh"]
            /\ stored' = stored \union {c.new}
            /\ IF c.then = "closeNew" THEN Returns(w, [c EXCEPT !.dev = c.new])
               ELSE Step(w, [c EXCEPT !.dev = c.new], IF c.then = "closeRenamed" THEN "idle" ELSE c.then)
            /\ UNCHANGED <<foundByIP, raced>>
    /\ UNCHANGED <<closed, idOf, open, stale, changes>>

\* A device found by IP is stored with an expiration: by Own, because the entry
\* under the old ID was gone or not yet permanent when its expiration was read,
\* or by a GetDevice that has renamed it, always.
MovedLate(c) == c.then \in {"moveDelete", "closeRenamed"} /\ foundByIP[c.new] /\ ~c.perm

\* updateOrStoreDevice: LoadOrStore, which replaces an expired element; a
\* device that is there already is updated by the new one (UpdateBy), and its
\* expiration is overridden unless it has none.
Store(w) ==
    LET c == call[w]  i == idOf[c.new]  d == cache[i] IN
    /\ c.at = "store"
    /\ IF Live(i)
       THEN /\ idOf' = [idOf EXCEPT ![d] = i]
            /\ foundByIP' = [foundByIP EXCEPT ![d] = @ \/ foundByIP[c.new]]
            /\ raced' = IF MovedLate(c) THEN raced \union {d} ELSE raced
            /\ stale' = IF idOf[d] # i THEN stale \union {d} ELSE stale
            /\ Step(w, [c EXCEPT !.dev = d, !.key = i, !.saw = <<exp[i], foundByIP'[d]>>],
                    IF exp[i] # "never" THEN "touch" ELSE c.then)
            /\ UNCHANGED <<cache, exp, stored>>
       ELSE /\ cache' = [cache EXCEPT ![i] = c.new]
            /\ exp' = [exp EXCEPT ![i] = IF c.perm THEN "never" ELSE "fresh"]
            /\ stored' = stored \union {c.new}
            /\ IF c.then = "closeNew" THEN Returns(w, [c EXCEPT !.dev = c.new])
               ELSE Step(w, [c EXCEPT !.dev = c.new], IF c.then = "closeRenamed" THEN "idle" ELSE c.then)
            /\ raced' = IF MovedLate(c) THEN raced \union {c.new} ELSE raced
            /\ UNCHANGED <<idOf, foundByIP, stale>>
    /\ UNCHANGED <<closed, open, changes>>

\* Time passes.
Expire(i) ==
    /\ Live(i) /\ exp[i] = "fresh"
    /\ exp' = [exp EXCEPT ![i] = "expired"]
    /\ UNCHANGED <<cache, closed, devVars, call, ghosts>>

\* The ticker of NewDeviceCache: CheckExpirations deletes an expired element
\* and its callback closes the device.
CheckExpirations(i) ==
    /\ ~closed /\ cache[i] # Nil /\ exp[i] = "expired"
    /\ Drop({i}, {cache[i]})
    /\ UNCHANGED <<call, ghosts>>

------------------------------------------------------------------------------
(* GetDevice and GetDeviceByMulticast                                       *)

Begin(w, c, l) ==
    /\ call[w].at = "idle"
    /\ calls < MaxCalls
    /\ calls' = calls + 1
    /\ Step(w, c, l)

GetDevice(w, i) ==
    /\ Begin(w, [Idle EXCEPT !.id = i], "load")
    /\ UNCHANGED <<cache, exp, closed, devVars, ghosts>>

\* deviceCache.GetDevice: the expiration is prolonged in a second step.
Load(w) ==
    LET c == call[w] IN
    /\ c.at = "load"
    /\ IF Live(c.id)
       THEN Step(w, [c EXCEPT !.dev = cache[c.id], !.key = c.id, !.perm = FALSE,
                              !.saw = Saw(c.id), !.then = "links"],
                 IF exp[c.id] # "never" THEN "touch" ELSE "links")
       ELSE Step(w, [c EXCEPT !.dev = Nil], "mcast")
    /\ UNCHANGED <<cache, exp, closed, devVars, ghosts>>

\* getLinksDevice of o succeeds.  What a failed attempt has opened is closed
\* with the device in the next step.
Connects(o) == open' = [open EXCEPT ![o] = TRUE]

\* The links of the cached device, filtered by the ID it has now; that of the
\* device resource may be missing, which is an error.
Links(w) ==
    LET c == call[w] IN
    /\ c.at = "links"
    /\ \/ Connects(c.dev) /\ Step(w, [c EXCEPT !.key = idOf[c.dev]], "compare")
       \/ Connects(c.dev) /\ Step(w, c, "idle")
       \/ /\ UNCHANGED open
          /\ Step(w, [c EXCEPT !.then = "load"], IF foundByIP[c.dev] THEN "ipFind" ELSE "unlessIP")
    /\ UNCHANGED <<cache, exp, closed, idOf, foundByIP, ghosts>>

\* checkAndUpdateCacheByLinks: the ID in the links is compared with the ID of
\* the device, which an Own may have changed in between.
CheckByLinks(w) ==
    LET c == call[w] IN
    /\ c.at = "compare"
    /\ IF idOf[c.dev] = c.key THEN Returns(w, c) ELSE Step(w, c, "rekey")
    /\ UNCHANGED <<cache, exp, closed, devVars, ghosts>>

\* Whatever is in the cache under the new ID is taken out; the call will fail.
Rekey(w) ==
    LET c == call[w]  d == cache[idOf[c.dev]] IN
    /\ c.at = "rekey"
    /\ Drop({idOf[c.dev]}, {})
    /\ Step(w, [c EXCEPT !.new = d], IF d = Nil THEN "idle" ELSE "rename")
    /\ UNCHANGED ghosts

\* It is given the ID of the links, wherever else the cache has it, and stored
\* again, with an expiration.
Rename(w) ==
    LET c == call[w] IN
    /\ c.at = "rename"
    /\ idOf' = [idOf EXCEPT ![c.new] = c.key]
    /\ stale' = IF \E i \in Ids : cache[i] = c.new THEN stale \union {c.new} ELSE stale
    /\ Step(w, [c EXCEPT !.perm = FALSE, !.then = "closeRenamed"], "store")
    /\ UNCHANGED <<cache, exp, closed, foundByIP, open, stored, raced, changes>>

\* The cache has another device, or this one already, under that ID.
CloseRenamed(w) ==
    /\ call[w].at = "closeRenamed"
    /\ Drop({}, {call[w].new})
    /\ Step(w, call[w], "idle")
    /\ UNCHANGED ghosts

\* deleteDeviceNotFoundByIP: the test; then what is in the cache under the
\* device's ID is deleted, and the device is closed.
UnlessIP(w) ==
    LET c == call[w] IN
    /\ c.at = "unlessIP"
    /\ IF foundByIP[c.dev]
       THEN Drop({}, {c.dev}) /\ Step(w, c, c.then)
       ELSE UNCHANGED <<cache, exp, closed, devVars>> /\ Step(w, c, "delete")
    /\ UNCHANGED ghosts

DeleteDeviceNotFoundByIP(w) ==
    LET c == call[w] IN
    /\ c.at = "delete"
    /\ Drop({idOf[c.dev]}, {c.dev})
    /\ Step(w, c, c.then)
    /\ UNCHANGED ghosts

\* A discovery of core finds a device with ID i: a new object o.
Finds(o, i, ip) ==
    /\ idOf' = [idOf EXCEPT ![o] = i]
    /\ foundByIP' = [foundByIP EXCEPT ![o] = ip]
    /\ stored' = stored \ {o}
    /\ stale' = stale \ {o}
    /\ raced' = raced \ {o}
    /\ UNCHANGED <<cache, exp, closed, open, changes>>

\* core GetDeviceByMulticast
Multicast(w) ==
    LET c == call[w] IN
    /\ c.at = "mcast"
    /\ \/ \E o \in Fresh : Finds(o, c.id, FALSE) /\ Step(w, [c EXCEPT !.new = o], "mcastLinks")
       \/ Step(w, c, "idle") /\ UNCHANGED <<cache, exp, closed, devVars, ghosts>>

MulticastLinks(w) ==
    LET c == call[w] IN
    /\ c.at = "mcastLinks"
    /\ \/ /\ Connects(c.new)
          /\ Step(w, [c EXCEPT !.perm = FALSE, !.then = "closeNew"], "store")
       \/ UNCHANGED open /\ Step(w, c, "idle") \* closed again
    /\ UNCHANGED <<cache, exp, closed, idOf, foundByIP, ghosts>>

\* Mutation: the device that has updated another one is not closed.
CloseNewNot(w) ==
    /\ call[w].at = "closeNew"
    /\ Returns(w, call[w])
    /\ UNCHANGED <<cache, exp, closed, devVars, ghosts>>

\* The device that was found is not the one in the cache.
CloseNew(w) ==
    /\ call[w].at = "closeNew"
    /\ Drop({}, {call[w].new})
    /\ Returns(w, call[w])
    /\ UNCHANGED ghosts

------------------------------------------------------------------------------
(* GetDevicesByIP, and the ping of the devices observer                     *)

GetDevicesByIP(w) ==
    /\ Begin(w, [Idle EXCEPT !.then = "idle"], "ipFind")
    /\ UNCHANGED <<cache, exp, closed, devVars, ghosts>>

\* getDeviceByIPWithUpdateCache for a device the cache says was found by IP.
PingByIP(w, i) ==
    /\ Live(i) /\ foundByIP[cache[i]]
    /\ Begin(w, [Idle EXCEPT !.id = i, !.ping = TRUE], "ipFind")
    /\ UNCHANGED <<cache, exp, closed, devVars, ghosts>>

\* core GetDevicesByIP: whatever device is there now.
IPFind(w) ==
    LET c == call[w] IN
    /\ c.at = "ipFind"
    /\ \/ \E o \in Fresh, i \in Ids : Finds(o, i, TRUE) /\ Step(w, [c EXCEPT !.new = o], "ipOld")
       \/ Step(w, c, "idle") /\ UNCHANGED <<cache, exp, closed, devVars, ghosts>>

\* UpdateOrStoreDevice of the one that was found comes next.
IPStoreNext(w, c) == Step(w, [c EXCEPT !.perm = TRUE, !.then = "ipDrop"], "store")

\* The device the cache has for the expected ID, or the first one it comes to
\* that was found by the address, unless it is the one that was found.
IPOld(w) ==
    LET c == call[w]
        Found == {i \in Ids : Live(i) /\ foundByIP[cache[i]]}
        c1 == [c EXCEPT !.old = IF c.id = idOf[c.new] THEN {} ELSE {cache[c.id]}]
        c2(i) == [c EXCEPT !.old = IF idOf[cache[i]] = idOf[c.new] THEN {} ELSE {cache[i]}]
    IN
    /\ c.at = "ipOld"
    /\ \/ /\ c.id # Nil /\ Live(c.id) /\ exp[c.id] # "never"
          /\ Step(w, [c1 EXCEPT !.dev = cache[c.id], !.key = c.id, !.perm = FALSE,
                                !.saw = Saw(c.id), !.then = "ipStore"], "touch")
       \/ c.id # Nil /\ Live(c.id) /\ exp[c.id] = "never" /\ IPStoreNext(w, c1)
       \/ c.id # Nil /\ ~Live(c.id) /\ IPStoreNext(w, c)
       \/ c.id = Nil /\ Found = {} /\ IPStoreNext(w, c)
       \/ c.id = Nil /\ \E i \in Found : IPStoreNext(w, c2(i))
    /\ UNCHANGED <<cache, exp, closed, devVars, ghosts>>

\* GetDevice of the cache has prolonged the old one.
IPStore(w) ==
    /\ call[w].at = "ipStore"
    /\ IPStoreNext(w, call[w])
    /\ UNCHANGED <<cache, exp, closed, devVars, ghosts>>

\* Another device has the address now: what the cache has under the IDs of the
\* old ones is deleted and closed.
IPDrop(w) ==
    LET c == call[w]
        I == {idOf[o] : o \in c.old}
    IN
    /\ c.at = "ipDrop"
    /\ Drop(I, {cache[i] : i \in I})
    /\ Step(w, c, IF c.ping THEN "idle" ELSE "ipLinks")
    /\ UNCHANGED ghosts

IPLinks(w) ==
    LET c == call[w]
        wrong == c.id # Nil /\ idOf[c.dev] # c.id
    IN
    /\ c.at = "ipLinks"
    /\ \/ wrong /\ Step(w, c, "idle") /\ UNCHANGED open
       \/ ~wrong /\ Connects(c.dev) /\ IF c.id = Nil THEN Step(w, c, "idle") ELSE Returns(w, c)
       \/ ~wrong /\ UNCHANGED open /\ Step(w, [c EXCEPT !.then = "idle"], "unlessIP")
    /\ UNCHANGED <<cache, exp, closed, idOf, foundByIP, ghosts>>

------------------------------------------------------------------------------
(* GetDevicesDetails: discoveryHandler.Handle                               *)

HandleDevice(w, i) ==
    \E o \in Fresh :
       /\ Begin(w, [Idle EXCEPT !.new = o, !.then = "handleLinks"], "store")
       /\ Finds(o, i, FALSE)

HandleLinks(w) ==
    LET c == call[w] IN
    /\ c.at = "handleLinks"
    /\ \/ Connects(c.dev) /\ Step(w, c, "idle")
       \/ UNCHANGED open /\ Step(w, c, "handleDelete")
    /\ UNCHANGED <<cache, exp, closed, idOf, foundByIP, ghosts>>

\* Whatever is in the cache under the ID is deleted and closed.
HandleDelete(w) ==
    LET c == call[w] IN
    /\ c.at = "handleDelete"
    /\ Drop({idOf[c.dev]}, {cache[idOf[c.dev]]})
    /\ Step(w, c, "idle")
    /\ UNCHANGED ghosts

------------------------------------------------------------------------------
(* What the client does with a device that it has got                       *)

\* A request opens a connection if there is none; it succeeds or fails.
Request(w) ==
    /\ call[w].at = "got"
    /\ Connects(call[w].dev) \/ UNCHANGED open
    /\ Step(w, call[w], "idle")
    /\ UNCHANGED <<cache, exp, closed, idOf, foundByIP, ghosts>>

GetResource(w) == Request(w)
UpdateResource(w) == Request(w)
CreateResource(w) == Request(w)
DeleteResource(w) == Request(w)
GetDeviceDetailsByMulticast(w) == Request(w)
OnboardDevice(w) == Request(w)
OffboardDevice(w) == Request(w)

\* A request that resets the device, which is then not the one it was.
ResetRequest(w) ==
    /\ call[w].at = "got"
    /\ Connects(call[w].dev) \/ UNCHANGED open
    /\ Step(w, call[w], "temporary")
    /\ UNCHANGED <<cache, exp, closed, idOf, foundByIP, ghosts>>

DisownDevice(w) == ResetRequest(w)
FactoryReset(w) == ResetRequest(w)
Reboot(w) == ResetRequest(w)

\* The deferred removeTemporaryDeviceFromCache: the test, which
\* deleteDeviceNotFoundByIP makes again.
RemoveTemporaryDeviceFromCache(w) ==
    LET c == call[w] IN
    /\ c.at = "temporary"
    /\ Step(w, [c EXCEPT !.then = "idle"], IF foundByIP[c.dev] THEN "idle" ELSE "unlessIP")
    /\ UNCHANGED <<cache, exp, closed, devVars, ghosts>>

------------------------------------------------------------------------------
(* DeleteDevices, Close, Own and the observations                           *)

DeleteDevices(I) ==
    /\ \E i \in I : cache[i] # Nil
    /\ Drop(I, {cache[i] : i \in I})
    /\ UNCHANGED <<call, ghosts>>

CloseCache ==
    /\ MayClose
    /\ closed' = TRUE
    /\ cache' = [i \in Ids |-> Nil]
    /\ exp' = [i \in Ids |-> "never"]
    /\ open' = [o \in Objs |-> open[o] /\ \A i \in Ids : cache[i] # o]
    /\ UNCHANGED <<idOf, foundByIP, call, ghosts>>

\* An observation keeps the device in the cache.
ObserveResource(w) ==
    LET c == call[w] IN
    /\ c.at = "got"
    /\ Step(w, [c EXCEPT !.new = c.dev, !.perm = TRUE, !.then = "idle"], "store")
    /\ UNCHANGED <<cache, exp, closed, devVars, ghosts>>

\* actionDuringOwn may give the device another ID.  Another call may have done
\* so before, and is then moving it away from its first ID only.
OwnDevice(w) ==
    LET c == call[w] IN
    /\ c.at = "got"
    /\ \/ /\ changes < MaxChanges
          /\ changes' = changes + 1
          /\ \E i \in Ids \ {idOf[c.dev]} :
                /\ idOf' = [idOf EXCEPT ![c.dev] = i]
                /\ stale' = IF idOf[c.dev] # c.id \/ cache[i] = c.dev THEN stale \union {c.dev} ELSE stale
       \/ UNCHANGED <<idOf, stale, changes>>
    /\ Step(w, c, "owning")
    /\ UNCHANGED <<cache, exp, closed, foundByIP, open, stored, raced>>

\* Own fails, or ownDeviceWithSigners goes on with updateCache.
Owned(w) ==
    LET c == call[w] IN
    /\ c.at = "owning"
    /\ \/ /\ stale' = IF idOf[c.dev] # c.id THEN stale \union {c.dev} ELSE stale
          /\ Step(w, c, "idle")
       \/ /\ Step(w, c, IF idOf[c.dev] = c.id THEN "idle" ELSE "moveExp")
          /\ UNCHANGED stale
    /\ UNCHANGED <<cache, exp, closed, devVars, stored, raced, changes>>

\* GetDeviceExpiration of the old ID tells how to store under the new one.
MoveExp(w) ==
    LET c == call[w] IN
    /\ c.at = "moveExp"
    /\ Step(w, [c EXCEPT !.new = c.dev, !.perm = Live(c.id) /\ exp[c.id] = "never",
                         !.then = "moveDelete"], "store")
    /\ UNCHANGED <<cache, exp, closed, devVars, ghosts>>

\* The old key is deleted; the device is not closed.
MoveDelete(w) ==
    /\ call[w].at = "moveDelete"
    /\ Drop({call[w].id}, {})
    /\ Step(w, call[w], "idle")
    /\ UNCHANGED ghosts

\* TryToChangeDeviceExpirationToDefault, when the last observation has ended.
TryDefault(w, i) ==
    /\ Live(i) /\ ~foundByIP[cache[i]]
    /\ Begin(w, [Idle EXCEPT !.dev = cache[i], !.key = i, !.saw = Saw(i)], "touch")
    /\ UNCHANGED <<cache, exp, closed, devVars, ghosts>>

------------------------------------------------------------------------------

Calling(w) ==
    \/ GetDevicesByIP(w)
    \/ \E i \in Ids : GetDevice(w, i) \/ PingByIP(w, i) \/ HandleDevice(w, i) \/ TryDefault(w, i)

Working(w) ==
    \/ Load(w) \/ Touch(w) \/ Links(w) \/ CheckByLinks(w) \/ Rekey(w) \/ Rename(w) \/ CloseRenamed(w)
    \/ UnlessIP(w) \/ DeleteDeviceNotFoundByIP(w)
    \/ Multicast(w) \/ MulticastLinks(w) \/ CloseNew(w) \/ Store(w)
    \/ IPFind(w) \/ IPOld(w) \/ IPStore(w) \/ IPDrop(w) \/ IPLinks(w)
    \/ HandleLinks(w) \/ HandleDelete(w)
    \/ GetResource(w) \/ UpdateResource(w) \/ CreateResource(w) \/ DeleteResource(w)
    \/ GetDeviceDetailsByMulticast(w) \/ OnboardDevice(w) \/ OffboardDevice(w)
    \/ DisownDevice(w) \/ FactoryReset(w) \/ Reboot(w) \/ RemoveTemporaryDeviceFromCache(w)
    \/ ObserveResource(w) \/ OwnDevice(w) \/ Owned(w) \/ MoveExp(w) \/ MoveDelete(w)

CacheNext ==
    \/ \E w \in Workers : Calling(w)
    \/ /\ \/ \E w \in Workers : Working(w)
          \/ \E i \in Ids : Expire(i) \/ CheckExpirations(i)
          \/ \E I \in SUBSET Ids : DeleteDevices(I)
          \/ CloseCache
       /\ UNCHANGED calls

CacheSpec == CacheInit /\ [][CacheNext]_cacheVars

------------------------------------------------------------------------------
(* Properties                                                               *)

Moving(o) == \E w \in Workers :
    /\ call[w].dev = o \/ call[w].new = o
    /\ call[w].at \in {"owning", "moveExp", "moveDelete"} \/ call[w].then = "moveDelete"

\* Whatever calls, evictions and moves interleave, a device is in the cache
\* under its own ID and under no other, except while Own is changing the ID,
\* and if Own has failed after that, a late answer under the old ID has changed
\* it back, a second Own has changed it again or a GetDevice has renamed it while
\* it was in the cache twice: then GetDevice for the old ID would delete the
\* wrong entry and call itself for ever.
KeyIsDeviceID == \A i \in Ids :
    cache[i] # Nil => idOf[cache[i]] = i \/ Moving(cache[i]) \/ cache[i] \in stale

\* A device that was found but never got into the cache is closed by the call
\* that has found it: nobody else will.  One that has been in the cache may stay
\* open: it can be replaced after it has expired, deleted in place of another
\* one, or used after it was deleted.
LoserIsClosed == \A o \in Objs :
    open[o] => o \in stored \/ \E w \in Workers : call[w].new = o

\* A device found by IP has no expiration, so that it stays in the cache when
\* it is offline, whatever refreshes it: prolonging, discovery, an observation
\* that ends.  The exceptions are an expiration that is about to be removed, a
\* late write of one that was decided before the device was found by IP, and the
\* store of a GetDevice whose links are of the ID that an Own has just changed.
FoundByIPIsPermanent == \A i \in Ids :
    cache[i] # Nil /\ foundByIP[cache[i]] /\ idOf[cache[i]] = i /\ exp[i] # "never" =>
        \/ cache[i] \in raced \union stale
        \/ \E w \in Workers : /\ call[w].at = "touch" /\ call[w].perm
                              /\ call[w].key = i /\ call[w].dev = cache[i]

\* Every variable has its type, so that no call uses a device it does not have;
\* the cache holds each device under its ID, and a device that it never held is
\* closed by the call that found it.
CacheInv == CacheTypes /\ KeyIsDeviceID /\ LoserIsClosed
==============================================================================
