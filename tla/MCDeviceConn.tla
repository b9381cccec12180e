---------------------------- MODULE MCDeviceConn ----------------------------
(* Instances of DeviceConn for TLC: see MCDeviceConn*.cfg. *)
EXTENDS DeviceConn, TLC

CONSTANTS a1, a2

\* A device with a secure and a plain endpoint.
MCTwoEndpoints == <<a1, a2>>

\* The goroutines, and the objects, are interchangeable.
MCSymmetry == Permutations(Callers) \union Permutations(Conns) \union Permutations(Clients)
=============================================================================
