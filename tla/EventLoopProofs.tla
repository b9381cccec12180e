--------------------------- MODULE EventLoopProofs ---------------------------
(***************************************************************************)
(* Proofs about EventLoop, for every set of goroutines, channels and       *)
(* arguments and without the bounds of the TLC instances: no wake-up is    *)
(* lost, the loop implements HandlerList, removing handlers keeps the      *)
(* others in their order, and a removed handler runs at most once more.    *)
(***************************************************************************)
EXTENDS EventLoop, WellFoundedInduction, TLAPS


\* The parts of the type invariant the arguments below rest on.
ControlTypes ==
    /\ handlers = [ver |-> handlers.ver, list |-> handlers.list]
    /\ handlers.ver \in Nat
    /\ pc \in [Threads -> {"idle", "load", "cas", "wake"}]
    /\ DOMAIN req = Threads
    /\ DOMAIN snap = Threads
    /\ \A t \in Threads : snap[t].ver \in Nat
    /\ wake \in BOOLEAN

\* Run's goroutine is inside a call only while it removes the handler of a
\* closed channel or executes a handler.
LoopCallsFromRun == pc[Loop] # "idle" => run \in {"remove", "handler"}

\* Only Run's own removal does not wake the loop.
OnlyRunIsSilent ==
    \A t \in Threads : pc[t] # "idle" /\ ~req[t].wake => t = Loop /\ run = "remove"

\* A snapshot with the identity of the current slice has its contents, and a
\* snapshot is never newer than the current slice.
SnapshotsAreOld ==
    \A t \in Threads : pc[t] = "cas" =>
        /\ snap[t].ver <= handlers.ver
        /\ snap[t].ver = handlers.ver => snap[t].list = handlers.list

IInv ==
    /\ ControlTypes
    /\ LoopCallsFromRun
    /\ OnlyRunIsSilent
    /\ SnapshotsAreOld
    /\ NoLostWakeUp

\* The initial state satisfies the inductive invariant.
LEMMA InitIInv == Init => IInv
<1> SUFFICES ASSUME Init PROVE IInv
  OBVIOUS
<1>1. Loop \in Threads
  BY DEF Threads
<1>2. ControlTypes
  BY DEF Init, ControlTypes, Nil
<1>3. LoopCallsFromRun /\ OnlyRunIsSilent /\ SnapshotsAreOld /\ NoLostWakeUp
  BY <1>1 DEF Init, LoopCallsFromRun, OnlyRunIsSilent, SnapshotsAreOld, NoLostWakeUp
<1> QED
  BY <1>2, <1>3 DEF IInv

\* Every call from outside Run ends in a wake-up.
LEMMA CallRequestsWake == \A r \in CallRequests : r.wake = TRUE
  BY DEF CallRequests, AddRequest, RemoveRequest

\* The removal of a closed channel, which Run makes itself, does not wake.
LEMMA SilentRequest == \A c : RemoveRequest(<<c>>, FALSE).wake = FALSE
  BY DEF RemoveRequest

\* Every step preserves the inductive invariant.
LEMMA StepIInv == IInv /\ [Next]_vars => IInv'
<1> SUFFICES ASSUME IInv, [Next]_vars PROVE IInv'
  OBVIOUS
<1> USE LoopNotCaller DEF Threads
<1>t. Loop \in Threads
  OBVIOUS
<1>1. ASSUME NEW t \in Threads, NEW r \in CallRequests, Call(t, r) PROVE IInv'
  <2>1. r.wake
    BY CallRequestsWake
  <2> QED
    BY <1>1, <2>1 DEF IInv, ControlTypes, LoopCallsFromRun, OnlyRunIsSilent,
       SnapshotsAreOld, NoLostWakeUp, Call
<1>2. ASSUME NEW t \in Threads, Load(t) PROVE IInv'
  BY <1>2 DEF IInv, ControlTypes, LoopCallsFromRun, OnlyRunIsSilent,
     SnapshotsAreOld, NoLostWakeUp, Load
<1>3. ASSUME NEW t \in Threads, CompareAndSwap(t) PROVE IInv'
  <2>1. ControlTypes' /\ LoopCallsFromRun' /\ OnlyRunIsSilent'
    BY <1>3 DEF IInv, ControlTypes, LoopCallsFromRun, OnlyRunIsSilent, CompareAndSwap, Nil
  <2>2. SnapshotsAreOld'
    BY <1>3 DEF IInv, ControlTypes, SnapshotsAreOld, CompareAndSwap
  <2>3. NoLostWakeUp'
    <3>1. CASE run = "select"
      <4>1. t # Loop /\ req[t].wake
        BY <1>3, <3>1 DEF IInv, LoopCallsFromRun, OnlyRunIsSilent, CompareAndSwap
      <4> QED
        BY <1>3, <4>1 DEF IInv, ControlTypes, NoLostWakeUp, CompareAndSwap
    <3>2. CASE run # "select"
      BY <1>3, <3>2 DEF NoLostWakeUp, CompareAndSwap
    <3> QED
      BY <3>1, <3>2
  <2> QED
    BY <2>1, <2>2, <2>3 DEF IInv
<1>4. ASSUME NEW t \in Threads, CasFails(t) PROVE IInv'
  BY <1>4 DEF IInv, ControlTypes, LoopCallsFromRun, OnlyRunIsSilent,
     SnapshotsAreOld, NoLostWakeUp, CasFails
<1>5. ASSUME NEW t \in Threads, ReturnFromCall(t) PROVE IInv'
  BY <1>5 DEF IInv, ControlTypes, LoopCallsFromRun, OnlyRunIsSilent,
     SnapshotsAreOld, NoLostWakeUp, ReturnFromCall, Wake
<1>6. CASE GetCases
  BY <1>6, <1>t DEF IInv, ControlTypes, LoopCallsFromRun, OnlyRunIsSilent,
     SnapshotsAreOld, NoLostWakeUp, GetCases, callVars, Refresh, SamePointer
<1>7. CASE SelectStop \/ SelectWake
  BY <1>7, <1>t DEF IInv, ControlTypes, LoopCallsFromRun, OnlyRunIsSilent,
     SnapshotsAreOld, NoLostWakeUp, SelectStop, SelectWake, callVars
<1>8. ASSUME NEW c \in Channels, SelectValue(c) PROVE IInv'
  BY <1>8, <1>t DEF IInv, ControlTypes, LoopCallsFromRun, OnlyRunIsSilent,
     SnapshotsAreOld, NoLostWakeUp, SelectValue, Dispatch, callVars
<1>9. ASSUME NEW c \in Channels, SelectClosed(c) PROVE IInv'
  BY <1>9, <1>t, SilentRequest DEF IInv, ControlTypes, LoopCallsFromRun, OnlyRunIsSilent,
     SnapshotsAreOld, NoLostWakeUp, SelectClosed
<1>10. CASE HandleClosed
  BY <1>10, <1>t DEF IInv, ControlTypes, LoopCallsFromRun, OnlyRunIsSilent,
     SnapshotsAreOld, NoLostWakeUp, HandleClosed, Dispatch
<1>11. CASE HandlerReturns
  BY <1>11, <1>t DEF IInv, ControlTypes, LoopCallsFromRun, OnlyRunIsSilent,
     SnapshotsAreOld, NoLostWakeUp, HandlerReturns, callVars
<1>12. CASE Environment
  BY <1>12 DEF IInv, ControlTypes, LoopCallsFromRun, OnlyRunIsSilent, SnapshotsAreOld,
     NoLostWakeUp, Environment, CloseStop, Send, CloseChannel, callVars
<1>13. CASE UNCHANGED vars
  BY <1>13 DEF IInv, ControlTypes, LoopCallsFromRun, OnlyRunIsSilent, SnapshotsAreOld,
     NoLostWakeUp, vars, callVars
<1> QED
  BY <1>1, <1>2, <1>3, <1>4, <1>5, <1>6, <1>7, <1>8, <1>9, <1>10, <1>11, <1>12, <1>13
     DEF Next, CallStep, RunStep

\* The inductive invariant holds throughout.
LEMMA InductiveInvariant == Spec => []IInv
  BY InitIInv, StepIInv, PTL DEF Spec

\* Run never blocks on cases built from an old slice without a wake-up that
\* is in the channel or about to be sent, for any number of goroutines.
THEOREM NoLostWakeUpHolds == Spec => []NoLostWakeUp
<1>1. IInv => NoLostWakeUp
  BY DEF IInv
<1> QED
  BY <1>1, InductiveInvariant, PTL

------------------------------------------------------------------------------
(* The loop implements HandlerList                                          *)

\* A step that leaves the handler list and the progress of every call alone
\* is a stuttering step of HandlerList.
LEMMA StutterStep ==
    UNCHANGED <<handlers, pc, req>> => UNCHANGED HL!vars
  BY DEF HL!vars, AbstractStatus

\* The request Run makes for a closed channel is one of Requests.
LEMMA RunRequests == \A c \in Channels : RemoveRequest(<<c>>, FALSE) \in Requests
  BY DEF Requests

\* Every step of the loop is a step of HandlerList or leaves it unchanged.
LEMMA StepRefines == IInv /\ [Next]_vars => [HL!Next]_HL!vars
<1> SUFFICES ASSUME IInv, [Next]_vars PROVE [HL!Next]_HL!vars
  OBVIOUS
<1>t. Loop \in Threads
  BY DEF Threads
<1>p. pc \in [Threads -> {"idle", "load", "cas", "wake"}] /\ DOMAIN req = Threads
  BY DEF IInv, ControlTypes
<1>1. ASSUME NEW t \in Threads, NEW r \in CallRequests, Call(t, r) PROVE HL!Next
  <2>1. HL!Invoke(t, r)
    BY <1>1, <1>p DEF Call, HL!Invoke, AbstractStatus
  <2>2. r \in Requests
    BY DEF Requests
  <2> QED
    BY <2>1, <2>2 DEF HL!Next
<1>2. ASSUME NEW t \in Threads, Load(t) \/ CasFails(t) PROVE UNCHANGED HL!vars
  <2>1. AbstractStatus' = AbstractStatus
    BY <1>2, <1>p DEF Load, CasFails, AbstractStatus
  <2> QED
    BY <1>2, <2>1 DEF Load, CasFails, HL!vars
<1>3. ASSUME NEW t \in Threads, CompareAndSwap(t) PROVE HL!Next
  <2>1. snap[t].list = handlers.list
    BY <1>3 DEF IInv, SnapshotsAreOld, CompareAndSwap, SamePointer
  <2>2. AbstractStatus' = [AbstractStatus EXCEPT ![t] = "applied"]
    BY <1>3, <1>p DEF CompareAndSwap, AbstractStatus
  <2>3. AbstractStatus[t] = "called"
    BY <1>3, <1>p DEF CompareAndSwap, AbstractStatus
  <2>4. HL!Apply(t)
    BY <1>3, <2>1, <2>2, <2>3 DEF CompareAndSwap, HL!Apply
  <2> QED
    BY <2>4 DEF HL!Next
<1>4. ASSUME NEW t \in Threads, ReturnFromCall(t) PROVE HL!Next
  <2>1. HL!Return(t)
    BY <1>4, <1>p DEF ReturnFromCall, HL!Return, AbstractStatus
  <2> QED
    BY <2>1 DEF HL!Next
<1>5. CASE HandleClosed
  <2>1. HL!Return(Loop)
    BY <1>5, <1>p, <1>t DEF HandleClosed, HL!Return, AbstractStatus
  <2> QED
    BY <2>1, <1>t DEF HL!Next
<1>6. ASSUME NEW c \in Channels, SelectClosed(c) PROVE HL!Next
  <2>1. pc[Loop] = "idle"
    BY <1>6 DEF SelectClosed, IInv, LoopCallsFromRun
  <2>2. HL!Invoke(Loop, RemoveRequest(<<c>>, FALSE))
    BY <1>6, <2>1, <1>p, <1>t DEF SelectClosed, HL!Invoke, AbstractStatus
  <2> QED
    BY <2>2, <1>t, RunRequests DEF HL!Next
<1>7. CASE GetCases \/ SelectStop \/ SelectWake \/ HandlerReturns
  BY <1>7, StutterStep DEF GetCases, SelectStop, SelectWake, HandlerReturns, callVars
<1>8. ASSUME NEW c \in Channels, SelectValue(c) PROVE UNCHANGED HL!vars
  BY <1>8, StutterStep DEF SelectValue, callVars
<1>9. CASE Environment
  BY <1>9, StutterStep DEF Environment, CloseStop, Send, CloseChannel, callVars
<1>10. CASE UNCHANGED vars
  BY <1>10, StutterStep DEF vars, callVars
<1> QED
  BY <1>1, <1>2, <1>3, <1>4, <1>5, <1>6, <1>7, <1>8, <1>9, <1>10
     DEF Next, CallStep, RunStep

\* Concurrent Add and RemoveByChannels calls behave as if each edited the
\* handler list in one atomic step: the compare-and-swap loop loses, repeats
\* and reorders nothing.
THEOREM RefinesHandlerList == Spec => ImplementsHandlerList
<1>1. Init => HL!Init
  BY DEF Init, HL!Init, Nil, AbstractStatus
<1> QED
  BY <1>1, StepRefines, InductiveInvariant, PTL DEF Spec, HL!Spec, ImplementsHandlerList

------------------------------------------------------------------------------
(* What removeByChannels keeps.  The copy is a recursive function of the     *)
(* position in the list; induction over the position is stated with a set.   *)

\* A set of naturals that is not empty has a least element.
LEMMA LeastNatural ==
    ASSUME NEW T, T \subseteq Nat, T # {}
    PROVE  \E n \in T : \A m \in T : n <= m
<1>0. OpToRel(<, Nat) = {p \in Nat \X Nat : p[1] < p[2]}
  BY DEF OpToRel
<1>1. PICK x \in T : \A y \in T : ~ (<<y, x>> \in OpToRel(<, Nat))
  BY WFMin, NatLessThanWellFounded
<1>2. \A y \in T : ~(y < x)
  <2> TAKE y \in T
  <2>0. y \in Nat /\ x \in Nat
    OBVIOUS
  <2>1. y < x => <<y, x>> \in {p \in Nat \X Nat : p[1] < p[2]}
    BY <2>0
  <2>2. ~ (<<y, x>> \in OpToRel(<, Nat))
    BY <1>1
  <2> QED
    BY <1>0, <2>1, <2>2
<1> QED
  BY <1>2

\* Induction over an initial segment of the naturals, with a set for the
\* induction hypothesis.
LEMMA SetInduction ==
    ASSUME NEW n \in Nat, NEW T, 0 \in T, \A i \in 0 .. n : i \in T /\ i < n => i + 1 \in T
    PROVE  \A i \in 0 .. n : i \in T
<1> DEFINE U == {i \in 0 .. n : i \notin T}
<1>1. SUFFICES ASSUME U # {} PROVE FALSE
  BY <1>1
<1>u. U \subseteq Nat
  OBVIOUS
<1>2. PICK i \in U : \A j \in U : i <= j
  <2> HIDE DEF U
  <2> QED
    BY <1>1, <1>u, LeastNatural
<1>3. i # 0 /\ i \in Nat /\ i <= n
  OBVIOUS
<1>4. i - 1 \in 0 .. n /\ i - 1 \in T /\ i - 1 < n
  BY <1>2, <1>3
<1>5. (i - 1) + 1 \in T
  BY <1>4
<1> QED
  BY <1>5, <1>3

\* One pass of removeByChannels over the first n handlers.
Copy(k, n, list, chs) == [i \in 0 .. n |->
    IF i = 0 THEN <<>>
    ELSE IF list[i] \in Range(chs) THEN k[i - 1]
    ELSE Append(k[i - 1], list[i])]

\* The copy is well defined, whatever the length of the list.
LEMMA CopyExists ==
    ASSUME NEW n \in Nat, NEW list, NEW chs
    PROVE  \E k : k = Copy(k, n, list, chs)
<1> DEFINE T == {i \in 0 .. n : \E k : k = Copy(k, i, list, chs)}
<1>1. 0 \in T
  <2> DEFINE k == [i \in 0 .. 0 |-> <<>>]
  <2>1. k = Copy(k, 0, list, chs)
    BY DEF Copy
  <2> QED
    BY <2>1
<1>2. ASSUME NEW i \in 0 .. n, i \in T, i < n PROVE i + 1 \in T
  <2>1. PICK k : k = Copy(k, i, list, chs)
    BY <1>2
  <2> DEFINE g == [j \in 0 .. i + 1 |->
                     IF j = i + 1
                     THEN IF list[j] \in Range(chs) THEN k[i] ELSE Append(k[i], list[j])
                     ELSE k[j]]
  <2>0. i \in Nat /\ i + 1 \in 0 .. n
    BY <1>2
  <2>2. ASSUME NEW j \in 0 .. i + 1 PROVE g[j] = Copy(g, i + 1, list, chs)[j]
    <3>1. CASE j = i + 1
      BY <3>1, <2>0 DEF Copy
    <3>2. CASE j = 0
      BY <3>2, <2>0, <2>1 DEF Copy
    <3>3. CASE j # 0 /\ j # i + 1
      <4>1. j \in 0 .. i /\ j - 1 \in 0 .. i + 1 /\ j - 1 # i + 1
        BY <3>3, <2>0
      <4>2. g[j] = k[j] /\ g[j - 1] = k[j - 1]
        BY <4>1, <2>0
      <4>3. k[j] = IF list[j] \in Range(chs) THEN k[j - 1] ELSE Append(k[j - 1], list[j])
        BY <2>1, <4>1, <3>3 DEF Copy
      <4>4. Copy(g, i + 1, list, chs)[j] = IF list[j] \in Range(chs) THEN g[j - 1] ELSE Append(g[j - 1], list[j])
        BY <3>3 DEF Copy
      <4> HIDE DEF g
      <4> QED
        BY <4>2, <4>3, <4>4
    <3> QED
      BY <3>1, <3>2, <3>3
  <2>3. DOMAIN g = 0 .. i + 1 /\ DOMAIN Copy(g, i + 1, list, chs) = 0 .. i + 1
    BY DEF Copy
  <2>4. Copy(g, i + 1, list, chs) = [j \in 0 .. i + 1 |-> Copy(g, i + 1, list, chs)[j]]
    BY DEF Copy
  <2>5. g = [j \in 0 .. i + 1 |-> g[j]]
    OBVIOUS
  <2> HIDE DEF g
  <2>6. g = Copy(g, i + 1, list, chs)
    BY <2>2, <2>3, <2>4, <2>5
  <2> QED
    BY <2>6, <2>0
<1> HIDE DEF T
<1>3. n \in T
  BY <1>1, <1>2, SetInduction
<1> QED
  BY <1>3 DEF T

\* Kept is the last of the copies.
LEMMA KeptDef ==
    ASSUME NEW list, NEW chs, Len(list) \in Nat
    PROVE  \E k : k = Copy(k, Len(list), list, chs) /\ Kept(list, chs) = k[Len(list)]
<1> DEFINE K == CHOOSE k : k = Copy(k, Len(list), list, chs)
<1>1. K = Copy(K, Len(list), list, chs)
  BY CopyExists
<1>2. Kept(list, chs) = K[Len(list)]
  BY DEF Kept, Copy
<1> HIDE DEF K
<1> QED
  BY <1>1, <1>2

\* kept is list[f[1]], list[f[2]], ...: f picks some of the first i handlers,
\* in the order they have in list.
Picks(kept, f, i, list) ==
   /\ f \in [1 .. Len(kept) -> 1 .. i]
   /\ \A a, b \in 1 .. Len(kept) : a < b => f[a] < f[b]
   /\ \A a \in 1 .. Len(kept) : kept[a] = list[f[a]]

\* The elements of a sequence to which one is appended.
LEMMA RangeOfAppend ==
    ASSUME NEW S, NEW s \in Seq(S), NEW e \in S
    PROVE  Range(Append(s, e)) = Range(s) \cup {e}
<1> DEFINE t == Append(s, e)
           m == Len(s)
<1>1. /\ m \in Nat /\ DOMAIN s = 1 .. m /\ DOMAIN t = 1 .. m + 1
      /\ t[m + 1] = e /\ \A a \in 1 .. m : t[a] = s[a]
  OBVIOUS
<1>2. 1 .. m + 1 = (1 .. m) \cup {m + 1}
  BY <1>1
<1> HIDE DEF t, m
<1>3. Range(t) = Range(s) \cup {e}
  BY <1>1, <1>2 DEF Range
<1> QED
  BY <1>3 DEF t

\* A subsequence of the first i handlers, extended by the next one.
LEMMA PicksAppend ==
    ASSUME NEW S, NEW kept \in Seq(S), NEW list, NEW i \in Nat, list[i + 1] \in S,
           NEW f, Picks(kept, f, i, list)
    PROVE  \E g : Picks(Append(kept, list[i + 1]), g, i + 1, list)
<1> DEFINE m == Len(kept)
           next == Append(kept, list[i + 1])
           g == [a \in 1 .. m + 1 |-> IF a = m + 1 THEN i + 1 ELSE f[a]]
<1>0. m \in Nat
  OBVIOUS
<1>1. Len(next) = m + 1 /\ next[m + 1] = list[i + 1] /\ \A a \in 1 .. m : next[a] = kept[a]
  OBVIOUS
<1>2. /\ f \in [1 .. m -> 1 .. i]
      /\ \A a, b \in 1 .. m : a < b => f[a] < f[b]
      /\ \A a \in 1 .. m : kept[a] = list[f[a]]
  BY DEF Picks
<1> HIDE DEF m, next
<1>3. g \in [1 .. m + 1 -> 1 .. i + 1]
  BY <1>0, <1>2
<1>4. \A a \in 1 .. m + 1 : a # m + 1 => a \in 1 .. m /\ g[a] = f[a] /\ f[a] \in 1 .. i
  BY <1>0, <1>2
<1>5. g[m + 1] = i + 1
  BY <1>0
<1> HIDE DEF g
<1>6. ASSUME NEW a \in 1 .. m + 1, NEW b \in 1 .. m + 1, a < b PROVE g[a] < g[b]
  <2>1. a # m + 1
    BY <1>0, <1>6
  <2>2. CASE b = m + 1
    BY <2>1, <2>2, <1>4, <1>5
  <2>3. CASE b # m + 1
    BY <2>1, <2>3, <1>6, <1>4, <1>2
  <2> QED
    BY <2>2, <2>3
<1>7. \A a \in 1 .. m + 1 : next[a] = list[g[a]]
  BY <1>1, <1>2, <1>4, <1>5
<1>8. Picks(next, g, i + 1, list)
  BY <1>1, <1>3, <1>6, <1>7 DEF Picks
<1> QED
  BY <1>8 DEF next

\* For every handler list and every set of channels, removeByChannels keeps
\* exactly the handlers of the other channels, each where it was relative to
\* the others.
THEOREM RemoveKeepsOthersInOrder ==
    ASSUME NEW S, NEW list \in Seq(S), NEW chs
    PROVE  LET kept == Kept(list, chs)
           IN  /\ kept \in Seq(S)
               /\ Range(kept) = Range(list) \ Range(chs)
               /\ \E f : Picks(kept, f, Len(list), list)
<1> DEFINE n == Len(list)
<1>0. PICK k : k = Copy(k, n, list, chs) /\ Kept(list, chs) = k[n]
  BY KeptDef
<1> DEFINE T == {i \in 0 .. n : /\ k[i] \in Seq(S)
                 /\ Range(k[i]) = {list[j] : j \in 1 .. i} \ Range(chs)
                 /\ \E f : Picks(k[i], f, i, list)}
<1>n. n \in Nat
  OBVIOUS
<1>1. 0 \in T
  <2>1. k[0] = <<>>
    BY <1>0, <1>n DEF Copy
  <2>2. Range(<<>>) = {}
    BY DEF Range
  <2>3. {list[j] : j \in 1 .. 0} = {}
    OBVIOUS
  <2>4. Picks(<<>>, [a \in {} |-> 1], 0, list)
    BY DEF Picks
  <2>5. /\ k[0] \in Seq(S)
        /\ Range(k[0]) = {list[j] : j \in 1 .. 0} \ Range(chs)
        /\ \E f : Picks(k[0], f, 0, list)
    BY <2>1, <2>2, <2>3, <2>4
  <2>6. 0 \in 0 .. n
    BY <1>n
  <2> QED
    BY <2>5, <2>6
<1>2. ASSUME NEW i \in 0 .. n, i \in T, i < n PROVE i + 1 \in T
  <2>0. i \in Nat /\ i + 1 \in 1 .. n /\ list[i + 1] \in S
    BY <1>2, <1>n
  <2>1. k[i + 1] = IF list[i + 1] \in Range(chs) THEN k[i] ELSE Append(k[i], list[i + 1])
    <3> DEFINE j == i + 1
    <3>1. j \in 0 .. n /\ j # 0 /\ j - 1 = i
      BY <2>0
    <3>2. k[j] = IF list[j] \in Range(chs) THEN k[j - 1] ELSE Append(k[j - 1], list[j])
      <4> HIDE DEF j
      <4> QED
        BY <1>0, <3>1 DEF Copy
    <3> QED
      BY <3>1, <3>2
  <2>2. {list[j] : j \in 1 .. i + 1} = {list[j] : j \in 1 .. i} \cup {list[i + 1]}
    BY <2>0
  <2>3. PICK f : Picks(k[i], f, i, list)
    BY <1>2
  <2>4. CASE list[i + 1] \in Range(chs)
    <3>1. Picks(k[i], f, i + 1, list)
      BY <2>3, <2>0 DEF Picks
    <3> QED
      BY <3>1, <2>0, <2>1, <2>2, <2>4, <1>2
  <2>5. CASE list[i + 1] \notin Range(chs)
    <3>1. k[i] \in Seq(S) /\ k[i + 1] = Append(k[i], list[i + 1])
      BY <1>2, <2>1, <2>5
    <3>2. k[i + 1] \in Seq(S)
      BY <3>1, <2>0
    <3>3. Range(k[i + 1]) = Range(k[i]) \cup {list[i + 1]}
      BY <3>1, <2>0, RangeOfAppend
    <3>4. \E g : Picks(k[i + 1], g, i + 1, list)
      BY <3>1, <2>0, <2>3, PicksAppend
    <3> QED
      BY <3>2, <3>3, <3>4, <2>0, <2>2, <2>5, <1>2
  <2> QED
    BY <2>4, <2>5
<1>3. n \in T
  <2>1. \A i \in 0 .. n : i \in T /\ i < n => i + 1 \in T
    BY <1>2
  <2>2. n \in 0 .. n
    BY <1>n
  <2> HIDE DEF T, n
  <2> QED
    BY <1>1, <2>1, <2>2, <1>n, SetInduction
<1>4. {list[j] : j \in 1 .. n} = Range(list)
  BY DEF Range
<1> QED
  BY <1>0, <1>3, <1>4

------------------------------------------------------------------------------
(* No handler runs twice after its removal                                  *)

\* No more values wait in a channel than were sent.
SentBound == \A c \in Channels : pend[c] <= sent[c]

\* The slice the select cases were built from is never newer than the current
\* one, and has its contents when it is the current one.
CasesAreOld ==
    /\ cases.ver <= handlers.ver
    /\ cases.ver = handlers.ver => cases.list = handlers.list

\* A handler that ran after its removal is not registered again, and the
\* select does not wait on its channel.
LateIsGone ==
    \A c \in Channels :
        /\ late[c] <= 1
        /\ late[c] # 0 => c \notin Registered /\ (run = "select" => c \notin Range(cases.list))

\* While Run removes the handler of a closed channel, that handler has not
\* yet run after a removal.
RemovesOnce ==
    run = "remove" =>
        /\ pc[Loop] # "idle"
        /\ ~req[Loop].wake
        /\ \E c \in Channels : req[Loop].chs = <<c>> /\ late[c] = 0

CallsInv == TypeOK /\ SentBound /\ CasesAreOld /\ LateIsGone /\ RemovesOnce

\* Arguments of requests are sequences of channels.
LEMMA RequestArgs ==
    \A r \in Requests \cup {NoRequest} : r.chs \in Seq(Channels) /\ r.kind \in {"add", "remove", "none"}
<1>1. \A r \in CallRequests : r.chs \in Seq(Channels) /\ r.kind \in {"add", "remove"}
  BY ArgsAssumption DEF CallRequests, AddRequest, RemoveRequest
<1>2. \A c \in Channels : /\ RemoveRequest(<<c>>, FALSE).chs \in Seq(Channels)
                          /\ RemoveRequest(<<c>>, FALSE).kind = "remove"
  BY DEF RemoveRequest
<1>3. NoRequest.chs \in Seq(Channels) /\ NoRequest.kind = "none"
  BY DEF NoRequest
<1> QED
  BY <1>1, <1>2, <1>3 DEF Requests

\* The elements of a concatenation.
LEMMA RangeOfConcat ==
    ASSUME NEW S, NEW s \in Seq(S), NEW t \in Seq(S)
    PROVE  Range(s \o t) \subseteq Range(s) \cup Range(t)
<1> SUFFICES ASSUME NEW i \in DOMAIN (s \o t)
             PROVE  (s \o t)[i] \in Range(s) \cup Range(t)
  BY DEF Range
<1>0. Len(s) \in Nat /\ Len(t) \in Nat /\ i \in 1 .. Len(s) + Len(t)
  OBVIOUS
<1>1. CASE i <= Len(s)
  <2>1. i \in DOMAIN s /\ (s \o t)[i] = s[i]
    BY <1>0, <1>1
  <2> QED
    BY <2>1 DEF Range
<1>2. CASE ~(i <= Len(s))
  <2>1. i - Len(s) \in DOMAIN t /\ (s \o t)[i] = t[i - Len(s)]
    BY <1>0, <1>2
  <2> QED
    BY <2>1 DEF Range
<1> QED
  BY <1>1, <1>2

\* An edit yields a handler list, with no handler that was neither there nor
\* added.
LEMMA EditedList ==
    ASSUME NEW list \in Seq(Channels), NEW r \in Requests \cup {NoRequest}
    PROVE  /\ Edit(list, r) \in Seq(Channels)
           /\ \A c \in Range(Edit(list, r)) :
                  c \in Range(list) \/ (r.kind = "add" /\ c \in Range(r.chs))
<1>0. r.chs \in Seq(Channels)
  BY RequestArgs
<1>1. CASE r.kind = "add"
  <2>1. Edit(list, r) = list \o r.chs
    BY <1>1 DEF Edit
  <2>2. Edit(list, r) \in Seq(Channels)
    BY <2>1, <1>0
  <2> QED
    BY <2>1, <2>2, <1>0, <1>1, RangeOfConcat
<1>2. CASE r.kind # "add"
  <2>1. Edit(list, r) = Kept(list, r.chs)
    BY <1>2 DEF Edit
  <2> QED
    BY <2>1, RemoveKeepsOthersInOrder
<1> QED
  BY <1>1, <1>2

\* The initial state satisfies the second inductive invariant.
LEMMA InitCallsInv == Init => CallsInv
<1> SUFFICES ASSUME Init PROVE CallsInv
  OBVIOUS
<1>1. Nil \in Slice
  BY DEF Nil, Slice
<1>2. TypeOK
  <2>1. /\ pend \in [Channels -> 0 .. MaxSends] /\ sent \in [Channels -> 0 .. MaxSends]
        /\ late \in [Channels -> Nat] /\ calls \in 0 .. MaxCalls
    BY BoundsAssumption DEF Init
  <2>2. /\ pc \in [Threads -> {"idle", "load", "cas", "wake"}]
        /\ req \in [Threads -> Requests \cup {NoRequest}]
        /\ snap \in [Threads -> Slice]
    BY <1>1 DEF Init
  <2>3. /\ handlers \in Slice /\ wake \in BOOLEAN /\ cases \in Slice
        /\ run \in {"getCases", "select", "remove", "handler", "stopped"}
        /\ closed \subseteq Channels /\ stop \in BOOLEAN
    BY <1>1 DEF Init
  <2> QED
    BY <2>1, <2>2, <2>3 DEF TypeOK
<1>3. SentBound /\ CasesAreOld /\ LateIsGone /\ RemovesOnce
  BY DEF Init, SentBound, CasesAreOld, LateIsGone, RemovesOnce, Nil
<1> QED
  BY <1>2, <1>3 DEF CallsInv

\* A step that leaves the late calls, the slices and Run where they are
\* preserves what is said of them.
LEMMA LateUnchanged ==
    LateIsGone /\ UNCHANGED <<handlers, cases, run, late>> => LateIsGone'
  BY DEF LateIsGone, Registered

\* The compare-and-swap installs an edited list and preserves the second
\* inductive invariant.
LEMMA CasCallsInv ==
    ASSUME IInv, CallsInv, NEW t \in Threads, CompareAndSwap(t)
    PROVE  CallsInv'
<1>t. Loop \in Threads
  BY DEF Threads
<1> DEFINE list == Edit(snap[t].list, req[t])
<1>0. snap[t] \in Slice /\ req[t] \in Requests \cup {NoRequest} /\ handlers.ver \in Nat
  BY DEF CallsInv, TypeOK, Slice
<1>1. snap[t].list \in Seq(Channels) /\ snap[t].list = handlers.list
  BY <1>0 DEF Slice, IInv, SnapshotsAreOld, CompareAndSwap, SamePointer
<1>2. /\ list \in Seq(Channels)
      /\ \A c \in Range(list) :
             c \in Registered \/ (req[t].kind = "add" /\ c \in Range(req[t].chs))
  BY <1>0, <1>1, EditedList DEF Registered
<1>3. handlers' = [ver |-> handlers.ver + 1, list |-> list]
  BY DEF CompareAndSwap
<1>4. /\ late' \in [Channels -> Nat]
      /\ \A c \in Channels : /\ late'[c] = 0 \/ late'[c] = late[c]
                             /\ req[t].kind = "add" /\ c \in Range(req[t].chs) => late'[c] = 0
  BY DEF CompareAndSwap, CallsInv, TypeOK
<1> HIDE DEF list
<1>5. TypeOK'
  <2>1. handlers' \in Slice
    BY <1>0, <1>2, <1>3 DEF Slice
  <2>2. Nil \in Slice
    BY DEF Nil, Slice
  <2> QED
    BY <2>1, <2>2, <1>4 DEF CallsInv, TypeOK, CompareAndSwap, chanVars
<1>6. SentBound'
  BY DEF CallsInv, SentBound, CompareAndSwap, chanVars
<1>7. CasesAreOld'
  <2>1. cases.ver \in Nat
    BY DEF CallsInv, TypeOK, Slice
  <2> QED
    BY <2>1, <1>0, <1>3 DEF CallsInv, CasesAreOld, CompareAndSwap
<1>8. LateIsGone'
  <2> SUFFICES ASSUME NEW c \in Channels
               PROVE  /\ late'[c] <= 1
                      /\ late'[c] # 0 => /\ c \notin Registered'
                                         /\ run' = "select" => c \notin Range(cases'.list)
    BY DEF LateIsGone
  <2>1. late[c] <= 1 /\ (late[c] # 0 => /\ c \notin Registered
                                        /\ run = "select" => c \notin Range(cases.list))
    BY DEF CallsInv, LateIsGone
  <2>2. Registered' = Range(list)
    BY <1>3 DEF Registered
  <2> QED
    BY <2>1, <2>2, <1>2, <1>4 DEF CompareAndSwap
<1>9. RemovesOnce'
  <2>1. pc'[Loop] # "idle" \/ pc'[Loop] = pc[Loop]
    BY <1>t DEF CompareAndSwap, CallsInv, TypeOK
  <2> QED
    BY <2>1, <1>4 DEF CallsInv, RemovesOnce, CompareAndSwap
<1> QED
  BY <1>5, <1>6, <1>7, <1>8, <1>9 DEF CallsInv

\* Every step preserves the second inductive invariant.
LEMMA StepCallsInv == IInv /\ CallsInv /\ [Next]_vars => CallsInv'
<1> SUFFICES ASSUME IInv, CallsInv, [Next]_vars PROVE CallsInv'
  OBVIOUS
<1>t. Loop \in Threads
  BY DEF Threads
<1>n. MaxCalls \in Nat /\ MaxSends \in Nat
  BY BoundsAssumption
<1>1. ASSUME NEW t \in Threads, NEW r \in CallRequests, Call(t, r) PROVE CallsInv'
  <2>1. r \in Requests
    BY DEF Requests
  <2>2. TypeOK'
    BY <1>1, <2>1, <1>n DEF CallsInv, TypeOK, Call, chanVars
  <2>3. LateIsGone'
    BY <1>1, LateUnchanged DEF CallsInv, Call
  <2>4. RemovesOnce'
    BY <1>1, <1>t DEF CallsInv, TypeOK, RemovesOnce, Call
  <2> QED
    BY <1>1, <2>2, <2>3, <2>4 DEF CallsInv, SentBound, CasesAreOld, Call, chanVars
<1>2. ASSUME NEW t \in Threads, Load(t) \/ CasFails(t) PROVE CallsInv'
  <2>1. TypeOK'
    BY <1>2 DEF CallsInv, TypeOK, Load, CasFails, chanVars
  <2>2. LateIsGone'
    BY <1>2, LateUnchanged DEF CallsInv, Load, CasFails
  <2>3. RemovesOnce'
    BY <1>2, <1>t DEF CallsInv, TypeOK, RemovesOnce, Load, CasFails
  <2> QED
    BY <1>2, <2>1, <2>2, <2>3 DEF CallsInv, SentBound, CasesAreOld, Load, CasFails, chanVars
<1>3. ASSUME NEW t \in Threads, CompareAndSwap(t) PROVE CallsInv'
  BY <1>3, CasCallsInv
<1>4. ASSUME NEW t \in Threads, ReturnFromCall(t) PROVE CallsInv'
  <2>1. TypeOK'
    BY <1>4 DEF CallsInv, TypeOK, ReturnFromCall, Wake, chanVars
  <2>2. LateIsGone'
    BY <1>4, LateUnchanged DEF CallsInv, ReturnFromCall
  <2>3. RemovesOnce'
    BY <1>4, <1>t DEF CallsInv, TypeOK, RemovesOnce, ReturnFromCall
  <2> QED
    BY <1>4, <2>1, <2>2, <2>3 DEF CallsInv, SentBound, CasesAreOld, ReturnFromCall, chanVars
<1>5. CASE GetCases
  <2>1. TypeOK'
    BY <1>5 DEF CallsInv, TypeOK, GetCases, Refresh, callVars, chanVars
  <2>2. cases'.list = handlers.list /\ cases'.ver = handlers.ver
    BY <1>5 DEF CallsInv, CasesAreOld, GetCases, Refresh, SamePointer
  <2>3. CasesAreOld'
    BY <1>5, <2>2 DEF CallsInv, TypeOK, Slice, CasesAreOld, GetCases
  <2>4. LateIsGone'
    BY <1>5, <2>2 DEF CallsInv, LateIsGone, Registered, GetCases
  <2> QED
    BY <1>5, <2>1, <2>3, <2>4 DEF CallsInv, SentBound, RemovesOnce, GetCases, chanVars
<1>6. CASE SelectStop \/ SelectWake \/ HandlerReturns
  <2>1. TypeOK'
    BY <1>6 DEF CallsInv, TypeOK, SelectStop, SelectWake, HandlerReturns, callVars, chanVars
  <2>2. LateIsGone'
    BY <1>6 DEF CallsInv, LateIsGone, Registered, SelectStop, SelectWake, HandlerReturns
  <2> QED
    BY <1>6, <2>1, <2>2 DEF CallsInv, SentBound, CasesAreOld, RemovesOnce, SelectStop,
       SelectWake, HandlerReturns, chanVars
<1>7. ASSUME NEW c \in Channels, SelectValue(c) PROVE CallsInv'
  <2>1. late[c] = 0 \/ c \in Registered
    BY <1>7 DEF CallsInv, LateIsGone, SelectValue
  <2>2. late' \in [Channels -> Nat] /\ pend' \in [Channels -> 0 .. MaxSends]
    BY <1>7, <1>n DEF CallsInv, TypeOK, SelectValue, Dispatch
  <2>3. TypeOK'
    BY <1>7, <2>2 DEF CallsInv, TypeOK, SelectValue, Dispatch, callVars
  <2>4. LateIsGone'
    BY <1>7, <2>1 DEF CallsInv, TypeOK, LateIsGone, Registered, SelectValue, Dispatch
  <2>5. SentBound'
    BY <1>7, <1>n DEF CallsInv, TypeOK, SentBound, SelectValue
  <2> QED
    BY <1>7, <2>3, <2>4, <2>5 DEF CallsInv, CasesAreOld, RemovesOnce, SelectValue, Dispatch
<1>8. ASSUME NEW c \in Channels, SelectClosed(c) PROVE CallsInv'
  <2>1. late[c] = 0
    BY <1>8 DEF CallsInv, LateIsGone, SelectClosed
  <2>2. TypeOK'
    BY <1>8, RunRequests DEF CallsInv, TypeOK, SelectClosed, chanVars
  <2>3. LateIsGone'
    BY <1>8 DEF CallsInv, LateIsGone, Registered, SelectClosed
  <2>4. RemovesOnce'
    BY <1>8, <2>1, <1>t DEF CallsInv, TypeOK, RemovesOnce, SelectClosed, RemoveRequest
  <2> QED
    BY <1>8, <2>2, <2>3, <2>4 DEF CallsInv, SentBound, CasesAreOld, SelectClosed, chanVars
<1>9. CASE HandleClosed
  <2>1. run = "remove"
    BY <1>9, <1>t DEF IInv, OnlyRunIsSilent, HandleClosed
  <2>2. PICK c \in Channels : req[Loop].chs = <<c>> /\ late[c] = 0
    BY <2>1 DEF CallsInv, RemovesOnce
  <2>3. Dispatch(c)
    BY <1>9, <2>2 DEF HandleClosed
  <2>4. TypeOK'
    <3>1. late' \in [Channels -> Nat] /\ run' = "handler"
      BY <2>3 DEF CallsInv, TypeOK, Dispatch
    <3>2. /\ pc' \in [Threads -> {"idle", "load", "cas", "wake"}]
          /\ req' \in [Threads -> Requests \cup {NoRequest}]
      BY <1>9 DEF CallsInv, TypeOK, HandleClosed
    <3> QED
      BY <1>9, <3>1, <3>2 DEF CallsInv, TypeOK, HandleClosed, chanVars
  <2>5. LateIsGone'
    BY <1>9, <2>2, <2>3 DEF CallsInv, TypeOK, LateIsGone, Registered, HandleClosed, Dispatch
  <2> QED
    BY <1>9, <2>3, <2>4, <2>5 DEF CallsInv, SentBound, CasesAreOld, RemovesOnce, HandleClosed,
       Dispatch, chanVars
<1>10. ASSUME NEW c \in Channels, Send(c) PROVE CallsInv'
  <2>1. pend[c] <= sent[c] /\ sent[c] < MaxSends /\ sent[c] \in Nat /\ pend[c] \in Nat
    BY <1>10, <1>n DEF CallsInv, TypeOK, SentBound, Send
  <2>2. pend' \in [Channels -> 0 .. MaxSends] /\ sent' \in [Channels -> 0 .. MaxSends]
    BY <1>10, <2>1, <1>n DEF CallsInv, TypeOK, Send
  <2>3. TypeOK'
    BY <1>10, <2>2 DEF CallsInv, TypeOK, Send, callVars
  <2>4. SentBound'
    BY <1>10, <2>1 DEF CallsInv, TypeOK, SentBound, Send
  <2>5. LateIsGone'
    BY <1>10, LateUnchanged DEF CallsInv, Send
  <2> QED
    BY <1>10, <2>3, <2>4, <2>5 DEF CallsInv, CasesAreOld, RemovesOnce, Send, callVars
<1>11. ASSUME NEW c \in Channels, CloseChannel(c) PROVE CallsInv'
  <2>1. TypeOK'
    BY <1>11 DEF CallsInv, TypeOK, CloseChannel, callVars, chanVars
  <2>2. LateIsGone'
    BY <1>11, LateUnchanged DEF CallsInv, CloseChannel
  <2> QED
    BY <1>11, <2>1, <2>2 DEF CallsInv, SentBound, CasesAreOld, RemovesOnce,
       CloseChannel, callVars, chanVars
<1>12. CASE CloseStop \/ UNCHANGED vars
  <2>1. TypeOK'
    BY <1>12 DEF CallsInv, TypeOK, CloseStop, vars, callVars, chanVars
  <2>2. LateIsGone'
    BY <1>12, LateUnchanged DEF CallsInv, CloseStop, vars
  <2> QED
    BY <1>12, <2>1, <2>2 DEF CallsInv, SentBound, CasesAreOld, RemovesOnce, CloseStop,
       vars, callVars, chanVars
<1> QED
  BY <1>1, <1>2, <1>3, <1>4, <1>5, <1>6, <1>7, <1>8, <1>9, <1>10, <1>11, <1>12
     DEF Next, CallStep, RunStep, Environment

\* Every variable keeps its type, and a handler runs at most once after it has
\* been removed, for any number of goroutines, channels and calls: whether it
\* was removed by a caller, by another handler or by Run itself.
THEOREM HandlerCallsHold == Spec => []HandlerCallsInv
<1>1. CallsInv => HandlerCallsInv
  BY DEF CallsInv, HandlerCallsInv, LateIsGone, AtMostOneLateCall
<1> QED
  BY <1>1, InitCallsInv, StepCallsInv, InductiveInvariant, PTL DEF Spec
==============================================================================
