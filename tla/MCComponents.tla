---------------------------- MODULE MCComponents ----------------------------
(* Four parts of the system that nothing else interferes with, on instances *)
(* for TLC: when a token is refreshed, what the client makes of the links   *)
(* of a device, the credentials of a bridged device, and the life of a      *)
(* bridge.                                                                  *)
EXTENDS TokenExpiry, ResourceLinks, Credentials, BridgeService, TLC

CONSTANTS a, b, c1, c2, c3, p1, p2, p3, i1, o1, o2

SomeLifetimes == {-1, 4, 6, 9}

Eps == LET E(s, h, p) == [scheme |-> s, host |-> h, pri |-> p] IN
    {<<>>, <<E("coap", "ip", 1), E("coaps+tcp", "ip", 0)>>, <<E("coaps", "local", 0)>>,
     <<E("coaps", "zoned", 1), E("coap", "local", 0)>>, <<E("bad", "ip", 0), E("coap", "name", 0)>>,
     <<E("other", "ip", 0), E("coap", "name", 1)>>}

Policies == {Unset, [ports |-> {}, secured |-> FALSE], [ports |-> {"udp"}, secured |-> TRUE],
             [ports |-> {"udp", "tcp", "tls"}, secured |-> FALSE]}

LinkTo(href, id) == {[href |-> href, id |-> id, eps |-> e, policy |-> p] : e \in Eps, p \in Policies}

\* A policy without ports adds nothing to an answer that came without endpoints.
SomeAnswers == {<<l>> : l \in {m \in LinkTo("/oic/d", a) : m.policy # Unset => m.policy.ports # {}}}

\* Links of a resource without endpoints, or with ones that are left out or that
\* nobody can dial.
Forgotten == {l \in LinkTo("/light", a) :
    /\ \A i \in DOMAIN l.eps : l.eps[i].scheme \in {"bad", "other"} \/ l.eps[i].host = "name"
    /\ l.policy # Unset => l.policy.ports \in {{}, {"udp"}}}

\* One link, and two: of a resource and the device, or of two devices.
SomeResponses ==
    {<<l>> : l \in LinkTo("/oic/d", a) \union LinkTo("/light", a)} \union
    {<<m, l>> : l \in LinkTo("/oic/d", a), m \in Forgotten} \union
    {<<l, m>> : l \in {k \in LinkTo("/oic/d", b) : k.policy = Unset}, m \in Forgotten}

SomeSubjects == (c1 :> "cloud") @@ (c2 :> "cloud") @@ (c3 :> "other")

\* Each is run on its own: the others stand still at their beginning.
AllInit == Init /\ LinksInit /\ CredInit /\ SvcInit

TokenIdle == now = 0 /\ nextTick = 1 /\ ~ticked /\ refreshable /\ manager = "busy" /\ lifetime = 2 * TickInterval
LinksIdle == known = Unset /\ ~disableUDPEndpoints
CredIdle == posted = {} /\ ~closed
SvcIdle == state = "new" /\ \A s \in Sockets : sock[s] = "none"

AllNext ==
    \/ LinksIdle /\ CredIdle /\ SvcIdle /\ Next /\ UNCHANGED <<linkVars, credVars, svcVars>>
    \/ TokenIdle /\ CredIdle /\ SvcIdle /\ LinksNext /\ UNCHANGED <<vars, credVars, svcVars>>
    \/ TokenIdle /\ LinksIdle /\ SvcIdle /\ CredNext /\ UNCHANGED <<vars, linkVars, svcVars>>
    \/ TokenIdle /\ LinksIdle /\ CredIdle /\ SvcNext /\ UNCHANGED <<vars, linkVars, credVars>>

AllSpec == AllInit /\ [][AllNext]_<<vars, linkVars, credVars, svcVars>> /\ SvcFairness
=============================================================================
