---------------------------- MODULE MCEventLoop ----------------------------
(* Instances of EventLoop for TLC: see MCEventLoop*.cfg. *)
EXTENDS EventLoop

CONSTANTS c1, c2

\* One Add of a single handler and one of two (as the managers of a device
\* do), in both cases of c1, and removal of both.
MCAddArgs == {<<c1>>, <<c2, c1>>}
MCRemoveArgs == {<<c2, c1>>}
MCChannels == {c1, c2}
=============================================================================
