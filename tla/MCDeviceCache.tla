--------------------------- MODULE MCDeviceCache ---------------------------
(* Instances of DeviceCache for TLC. *)
EXTENDS DeviceCache, TLC

CONSTANTS w1, w2, d1, d2, d3, i1, i2

\* What is left in an object that nobody refers to is not read again.
View ==
    LET R == Referenced
        Kept(o) == IF o \in R
                   THEN <<idOf[o], foundByIP[o], open[o], o \in stored, o \in stale, o \in raced>>
                   ELSE <<open[o], o \in stored>>
    IN <<cache, exp, closed, call, calls, changes, [o \in Objs |-> Kept(o)]>>

Symmetry == Permutations({w1, w2}) \union Permutations(Objs)
=============================================================================
