------------------------- MODULE MCObserveResource -------------------------
(* Instances of ObserveResource for TLC: see MCObserve*.cfg. *)
EXTENDS ObserveResource, TLC

\* The subscribers are interchangeable.
MCSymmetry == Permutations(Subs)
=============================================================================
