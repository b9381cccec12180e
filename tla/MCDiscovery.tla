---------------------------- MODULE MCDiscovery -----------------------------
(* The two users of the discovery by multicast, GetDevicesDetails and       *)
(* ObserveDevices, on instances for TLC.                                    *)
EXTENDS ObserveDevices, DevicesDetails

CONSTANTS d1, d2, c1, c2

SomeEndpoints == LET E(u, p) == [uri |-> u, pri |-> p] IN
    {<<E(1, 1), E(2, 1)>>, <<E(2, 1), E(1, 2)>>}

\* Each is run on its own: the other stands still at its beginning.
DiscoveryInit == Init /\ DetailsInit

DetailsIdle == dpc = "idle" /\ \A d \in Devs : owner[d] = "nil"
ObserveIdle == pc = "new" /\ caller = "idle" /\ present = {} /\ host = None /\ byIP = None

DiscoveryNext ==
    \/ DetailsIdle /\ Next /\ UNCHANGED detailsVars
    \/ ObserveIdle /\ DetailsNext /\ UNCHANGED vars

DiscoverySpec ==
    DiscoveryInit /\ [][DiscoveryNext]_<<vars, detailsVars>> /\ Fairness /\ DetailsFairness
=============================================================================
