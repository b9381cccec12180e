--------------------------- MODULE MCCloudManager ---------------------------
(* Instances of CloudManager for TLC: see MCCloud*.cfg. *)
EXTENDS CloudManager, TLC

\* Clouds, connections and resources are interchangeable.
Symmetry == Permutations(Clouds) \cup Permutations(Conns) \cup Permutations(Hrefs)
=============================================================================
