--------------------------- MODULE ResourceLinks ---------------------------
(* The endpoints of a device and of its resources: what the client makes of *)
(* the links a device sends (schema/link.go, core/discoverDevices.go,       *)
(* core/getResourceLinks.go, client/patchResourceLinksEndpoints.go).        *)
(*                                                                          *)
(* A device answers a discovery; its endpoints are those of its /oic/d link *)
(* as PatchEndpoint completes it.  The client connects to one of them and   *)
(* reads all links, which PatchEndpoint completes again, with the address   *)
(* of the connection and the endpoints of the device, and getLinksDevice    *)
(* filters.  A discovery of another goroutine may replace the endpoints of  *)
(* the device (UpdateBy) at any time.                                       *)
EXTENDS Slices

CONSTANTS
    DeviceID,   \* the device; links of others come over the same connection
    DeviceHref, \* /oic/d
    Answers,    \* what devices answer to a discovery of /oic/d: sequences of links
    Responses,  \* what they answer when all links are read
    DeviceIDs,  \* of the devices whose links come over one connection
    Unset       \* no policy, no address, not discovered

\* An endpoint: its scheme ("other" is one that Device.dial does not know, "bad"
\* stands for a URI that cannot be parsed), its host (an address, a link-local
\* one with or without a zone, or a name) and priority.  A response of the
\* multicast comes from an endpoint, too.
Schemes == {"coap", "coaps", "coap+tcp", "coaps+tcp"}
Endpoint == [scheme : Schemes \union {"other", "bad"}, host : {"ip", "local", "zoned", "name"}, pri : Nat]

\* The ports of a policy, and whether the resource is secured only.
Policy == [ports : SUBSET {"udp", "tcp", "tls"}, secured : BOOLEAN]

Link == [href : STRING, id : DeviceIDs, eps : Seq(Endpoint), policy : Policy \union {Unset}]

ASSUME ResponsesAssumption == Answers \union Responses \subseteq Seq(Link)

VARIABLES
    disableUDPEndpoints, \* a setting of the client
    known,   \* endpoints of the device (getEndpoints); Unset before it is discovered
    connAddr, \* the address of the connection to it; Unset without one
    raw,     \* the links it has sent over connAddr
    links,   \* what getLinksDevice has made of them; Unset if nothing has been read
    replaced \* history: known was replaced after connAddr was dialled

linkVars == <<disableUDPEndpoints, known, connAddr, raw, links, replaced>>

------------------------------------------------------------------------------
(* schema/link.go                                                           *)

IsSecuredScheme(s) == s \in {"coaps", "coaps+tcp"}

\* Endpoints.Sort: in order of priority.
SortEndpoints(eps) == SortedBy("pri", Endpoint)[eps]

FilterSecureEndpoints(eps) == Selected(eps, {i \in DOMAIN eps : IsSecuredScheme(eps[i].scheme)})

\* The endpoints of the ports that a policy has, at the address.
PolicyEndpoints(p, addr) ==
    LET At(port, s) == IF port \in p.ports THEN <<[scheme |-> s, host |-> addr.host, pri |-> 0]>>
                       ELSE <<>>
    IN At("udp", IF p.secured THEN "coaps" ELSE "coap") \o At("tcp", "coap+tcp") \o At("tls", "coaps+tcp")

\* Mutation: the endpoints of the device are not filtered.
PatchMissingAll(l, addr, deviceEndpoints) ==
    IF l.eps # <<>> \/ l.policy = Unset THEN l
    ELSE [l EXCEPT !.eps = IF l.policy.ports # {} THEN PolicyEndpoints(l.policy, addr) ELSE deviceEndpoints]

\* patchEndpoint: a link without endpoints gets those of its policy, or else
\* those of the device, secured ones if the address is.
PatchMissing(l, addr, deviceEndpoints) ==
    IF l.eps # <<>> \/ l.policy = Unset THEN l
    ELSE [l EXCEPT !.eps =
            IF l.policy.ports # {} THEN PolicyEndpoints(l.policy, addr)
            ELSE IF IsSecuredScheme(addr.scheme) THEN FilterSecureEndpoints(deviceEndpoints)
            ELSE deviceEndpoints]

\* PatchEndpoint: endpoints that cannot be parsed, and names, are left out; a
\* link-local address without a zone cannot be dialled, it is taken from addr
\* if it is the same one and left out otherwise.  The scheme is not looked at.
PatchEndpoint(l, addr, deviceEndpoints) ==
    LET Usable(e) == e.scheme # "bad" /\ e.host # "name" /\ (e.host = "local" => addr.host = "zoned")
        Zoned(e) == IF e.host = "local" THEN [e EXCEPT !.host = addr.host] ELSE e
        kept == Selected(l.eps, {i \in DOMAIN l.eps : Usable(l.eps[i])})
    IN PatchMissing([l EXCEPT !.eps = [i \in DOMAIN kept |-> Zoned(kept[i])]], addr, deviceEndpoints)

PatchEndpoints(r, addr, deviceEndpoints) == [i \in DOMAIN r |-> PatchEndpoint(r[i], addr, deviceEndpoints)]

FilterByDeviceID(r) == Selected(r, {i \in DOMAIN r : r[i].id = DeviceID})

\* GetResourceLink: the first link with the href.
HasLink(r, href) == \E i \in DOMAIN r : r[i].href = href
GetResourceLink(r, href) ==
    r[CHOOSE i \in DOMAIN r : r[i].href = href /\ \A j \in 1 .. i - 1 : r[j].href # href]

------------------------------------------------------------------------------
(* client/patchResourceLinksEndpoints.go                                    *)

FilterTCPEndpoints(eps) == Selected(eps, {i \in DOMAIN eps : eps[i].scheme \in {"coap+tcp", "coaps+tcp"}})

\* Endpoints in order of priority, TCP ones only if UDP is disabled.
Enabled(eps) == IF disableUDPEndpoints THEN FilterTCPEndpoints(SortEndpoints(eps)) ELSE SortEndpoints(eps)

\* Links without endpoints get those of the /oic/d link.
PatchResourceLinksEndpoints(r) ==
    IF ~HasLink(r, DeviceHref) THEN r
    ELSE [i \in DOMAIN r |-> [r[i] EXCEPT !.eps =
            IF Enabled(r[i].eps) # <<>> THEN Enabled(r[i].eps)
            ELSE Enabled(GetResourceLink(r, DeviceHref).eps)]]

------------------------------------------------------------------------------
(* Discovery, connection, links                                             *)

LinksInit ==
    /\ disableUDPEndpoints \in BOOLEAN
    /\ known = Unset
    /\ connAddr = Unset
    /\ raw = <<>>
    /\ links = Unset
    /\ replaced = FALSE

\* handleResponse and the handlers of core: a response r from addr.  NewDevice
\* if the device is not known, UpdateBy otherwise.
HandleAnswer(addr, r) ==
    LET patched == FilterByDeviceID(PatchEndpoints(r, addr, <<>>)) IN
    /\ links = Unset
    /\ HasLink(patched, DeviceHref)
    /\ known' = SortEndpoints(GetResourceLink(patched, DeviceHref).eps)
    /\ replaced' = (connAddr # Unset /\ (replaced \/ known' # known))
    /\ UNCHANGED <<disableUDPEndpoints, connAddr, raw, links>>

\* connectToEndpoints: the first endpoint that can be dialled; dial refuses a
\* scheme it does not know.
ConnectToEndpoints ==
    /\ known # Unset
    /\ \E i \in DOMAIN known : known[i].scheme \in Schemes /\ connAddr' = known[i]
    /\ raw' = <<>>
    /\ links' = Unset
    /\ replaced' = FALSE
    /\ UNCHANGED <<disableUDPEndpoints, known>>

\* getResourceLinks, with the endpoints the device has by now, and
\* getLinksDevice; no link at all is an error.  Bound: links are read once per
\* connection, and nothing that happens after it changes them.
GetLinksDevice(r) ==
    LET own == FilterByDeviceID(PatchEndpoints(r, connAddr, known)) IN
    /\ connAddr # Unset /\ links = Unset
    /\ own # <<>>
    /\ raw' = FilterByDeviceID(r)
    /\ links' = PatchResourceLinksEndpoints(own)
    /\ UNCHANGED <<disableUDPEndpoints, known, connAddr, replaced>>

LinksNext ==
    \/ \E h \in {"ip", "zoned"}, r \in Answers : HandleAnswer([scheme |-> "coap", host |-> h, pri |-> 0], r)
    \/ ConnectToEndpoints
    \/ \E r \in Responses : GetLinksDevice(r)

LinksSpec == LinksInit /\ [][LinksNext]_linkVars

------------------------------------------------------------------------------
(* Properties                                                               *)

LinksRead == links # Unset

\* The endpoints have one that Device.dial can dial.
Reachable(eps) == \E i \in DOMAIN eps : eps[i].scheme \in Schemes

\* The device has sent a link with an endpoint of a scheme nobody can dial.
Foreign(l) == \E i \in DOMAIN l.eps : l.eps[i].scheme = "other"

\* Whatever a device sends, neither its own endpoints nor those of its links
\* hold a URI that cannot be parsed, a name, or a link-local address without
\* the zone it needs.
EveryEndpointHasAddress ==
    /\ known # Unset => \A i \in DOMAIN known : known[i].scheme # "bad" /\ known[i].host \in {"ip", "zoned"}
    /\ LinksRead => \A i \in DOMAIN links : \A j \in DOMAIN links[i].eps :
          links[i].eps[j].scheme # "bad" /\ links[i].eps[j].host \in {"ip", "zoned"}

\* Every resource of a device that sends its /oic/d link with a policy can be
\* reached, whatever endpoints the device forgets: unless UDP is disabled,
\* another discovery has replaced the endpoints of the device after the client
\* connected to one of them (then a secured connection may leave none), or the
\* device itself sends endpoints of an unknown scheme for the resource or for
\* /oic/d: PatchEndpoint keeps them, and may have no other one to keep.
EveryLinkReachable ==
    LinksRead /\ ~disableUDPEndpoints /\ ~replaced /\ HasLink(raw, DeviceHref)
         /\ GetResourceLink(raw, DeviceHref).policy # Unset =>
        \A i \in DOMAIN links :
            Reachable(links[i].eps) \/ Foreign(raw[i]) \/ Foreign(GetResourceLink(raw, DeviceHref))

\* A resource for which the device sends neither endpoints nor ports is reached
\* over secured endpoints only, if its links were read over a secured
\* connection; not if UDP is disabled or the endpoints have been replaced, when
\* it is reached like /oic/d.
SecuredStaysSecured ==
    LinksRead /\ IsSecuredScheme(connAddr.scheme) /\ ~disableUDPEndpoints /\ ~replaced =>
        \A i \in DOMAIN raw :
            raw[i].eps = <<>> /\ raw[i].policy # Unset /\ raw[i].policy.ports = {} =>
                \A j \in DOMAIN links[i].eps : IsSecuredScheme(links[i].eps[j].scheme)

\* A client that has disabled UDP is never given a UDP endpoint by the links of
\* a device with an /oic/d link.
NoUDPWhenDisabled ==
    LinksRead /\ disableUDPEndpoints /\ HasLink(raw, DeviceHref) =>
        \A i \in DOMAIN links : \A j \in DOMAIN links[i].eps : links[i].eps[j].scheme \notin {"coap", "coaps"}

\* Whatever a device sends and however often its links are patched, they hold
\* endpoints with an address, each at least one that can be dialled, and never
\* one over a transport that the connection or the client rules out.
LinksInv == EveryEndpointHasAddress /\ EveryLinkReachable /\ SecuredStaysSecured /\ NoUDPWhenDisabled
=============================================================================
