--------------------------- MODULE DevicePresence ---------------------------
(* What ObserveDevices promises to its caller: a device is reported online  *)
(* when the latest round of the discovery has found it, offline when it was *)
(* not found in FailureThreshold consecutive rounds, the two in turn, and   *)
(* nothing is reported after the end of the observation.  A round finds the *)
(* devices that answer to multicast and the devices found by IP from whose  *)
(* address something answers, be it another device.                         *)
EXTENDS Integers

CONSTANTS Devices, FailureThreshold

VARIABLES
    view,   \* devices last reported online
    missed, \* rounds since it was last found, at most FailureThreshold
    ended   \* the observation has ended

vars == <<view, missed, ended>>

Init ==
    /\ view = {}
    /\ missed = [d \in Devices |-> FailureThreshold]
    /\ ended = FALSE

\* A round of the discovery is over: it has found the devices of F.
Round(F) ==
    /\ missed' = [d \in Devices |-> IF d \in F THEN 0
                                    ELSE IF missed[d] < FailureThreshold THEN missed[d] + 1
                                    ELSE FailureThreshold]
    /\ UNCHANGED <<view, ended>>

Online(d) ==
    /\ ~ended /\ d \notin view /\ missed[d] = 0
    /\ view' = view \union {d}
    /\ UNCHANGED <<missed, ended>>

Offline(d) ==
    /\ ~ended /\ d \in view /\ missed[d] = FailureThreshold
    /\ view' = view \ {d}
    /\ UNCHANGED <<missed, ended>>

End ==
    /\ ended' = TRUE
    /\ UNCHANGED <<view, missed>>

Next ==
    \/ \E F \in SUBSET Devices : Round(F)
    \/ \E d \in Devices : Online(d) \/ Offline(d)
    \/ End

Spec == Init /\ [][Next]_vars
=============================================================================
