---------------------------- MODULE MCOwnDevice ----------------------------
(* An instance of OwnDevice for TLC: two clients, two goroutines of the     *)
(* first and one of the second.                                             *)
EXTENDS OwnDevice, TLC

CONSTANTS p1, p2, p3, o1, o2

MCId == [p \in {p1, p2, p3} |-> IF p = p3 THEN o2 ELSE o1]
MCKind == [o \in {o1, o2} |-> IF o = o1 THEN "sdk" ELSE "backend"]
MCOtmClients ==
    [o \in {o1, o2} |-> IF o = o1 THEN <<"manufacturer", "justWorks">> ELSE <<"justWorks">>]

Symmetry == Permutations({p1, p2})
=============================================================================
