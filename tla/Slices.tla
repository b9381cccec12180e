------------------------------- MODULE Slices -------------------------------
(* The loops over slices that the client shares: a filter that appends what *)
(* it keeps to a new slice, and the sorts of Go's package sort.  Both are   *)
(* recursive functions of the position, so that they can be proved about.   *)
EXTENDS Integers, Sequences

\* What a filter has kept at the end of s: the elements at the positions in I.
Selected(s, I) ==
    LET kept[n \in 0 .. Len(s)] ==
          IF n = 0 THEN <<>>
          ELSE IF n \in I THEN Append(kept[n - 1], s[n])
          ELSE kept[n - 1]
    IN  kept[Len(s)]

\* Where e goes in a sorted s: behind every element with no greater value of
\* the field f.
Place(s, e, f) ==
    CHOOSE k \in 0 .. Len(s) :
       /\ \A i \in 1 .. k : s[i][f] <= e[f]
       /\ k < Len(s) => e[f] < s[k + 1][f]

\* Slices of S with e in its place.
With(e, f, S) ==
    [s \in Seq(S) |-> SubSeq(s, 1, Place(s, e, f)) \o <<e>> \o SubSeq(s, Place(s, e, f) + 1, Len(s))]

\* sort.SliceStable by the field f, of slices of S.  sort.Slice is the same
\* insertion for up to 12 elements; for more of them it may change the order of
\* those with the same value.
SortedBy(f, S) ==
    [s \in Seq(S) |->
       LET sorted[n \in 0 .. Len(s)] == IF n = 0 THEN <<>> ELSE With(s[n], f, S)[sorted[n - 1]]
       IN  sorted[Len(s)]]
=============================================================================
