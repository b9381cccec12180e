------------------------------ MODULE EventLoop ------------------------------
(***************************************************************************)
(* The event loop of pkg/eventloop: one goroutine runs Run, which selects  *)
(* over a stop channel, a wake channel of capacity one and the channels of *)
(* the registered handlers; any goroutine, the loop's own handlers         *)
(* included, edits the handler list with a compare-and-swap on a pointer   *)
(* to an immutable slice and then wakes the loop.                          *)
(*                                                                         *)
(* A handler is named by its channel; a channel may have several (every    *)
(* observe request adds one for the end of its connection).  A slice is a  *)
(* record of its identity (the pointer, ver) and its contents (list); ver  *)
(* 0 is the nil pointer.  One action stands for one access to memory.      *)
(***************************************************************************)
EXTENDS Naturals, Sequences, FiniteSets, SequencesExt

CONSTANTS
    Callers,     \* goroutines that call Add and RemoveByChannels
    Loop,        \* the goroutine that executes Run
    Channels,    \* the channels handlers read from
    AddArgs,     \* argument lists of Add, by channel
    RemoveArgs,  \* argument lists of RemoveByChannels
    MaxCalls,    \* bound: calls made by the callers and the handlers
    MaxSends     \* bound: values ever sent on one channel

ASSUME LoopNotCaller == Loop \notin Callers
ASSUME ArgsAssumption == AddArgs \subseteq Seq(Channels) /\ RemoveArgs \subseteq Seq(Channels)
ASSUME BoundsAssumption == MaxCalls \in Nat /\ MaxSends \in Nat

Threads == Callers \cup {Loop}

AddRequest(chs) == [kind |-> "add", chs |-> chs, wake |-> TRUE]
RemoveRequest(chs, wake) == [kind |-> "remove", chs |-> chs, wake |-> wake]
NoRequest == [kind |-> "none", chs |-> <<>>, wake |-> FALSE]

CallRequests ==
    {AddRequest(chs) : chs \in AddArgs} \cup {RemoveRequest(chs, TRUE) : chs \in RemoveArgs}
Requests == CallRequests \cup {RemoveRequest(<<c>>, FALSE) : c \in Channels}

VARIABLES
    handlers,  \* Loop.handlers: the current slice
    wake,      \* Loop.wake holds its one token
    pc,        \* pc[t]: where t is inside Add / removeByChannels / Wake
    req,       \* req[t]: the arguments of t's call
    snap,      \* snap[t]: origHandlers, the slice t loaded
    run,       \* where Run is
    cases,     \* lastHandlers: the slice the select cases were built from
    pend,      \* pend[c]: values waiting in channel c
    closed,    \* channels that have been closed
    stop,      \* the stop channel has been closed
    calls,     \* calls made so far
    sent,      \* sent[c]: values sent so far on c
    late       \* ghost: handler invocations for c since it was last registered
               \* that found c no longer registered

callVars == <<pc, req, snap>>
chanVars == <<pend, closed, sent>>
vars == <<handlers, wake, callVars, run, cases, chanVars, stop, calls, late>>

Slice == [ver : Nat, list : Seq(Channels)]
Nil == [ver |-> 0, list |-> <<>>]
Registered == Range(handlers.list)

Init ==
    /\ handlers = Nil
    /\ wake = FALSE
    /\ pc = [t \in Threads |-> "idle"]
    /\ req = [t \in Threads |-> NoRequest]
    /\ snap = [t \in Threads |-> Nil]
    /\ run = "getCases"
    /\ cases = Nil
    /\ pend = [c \in Channels |-> 0]
    /\ closed = {}
    /\ stop = FALSE
    /\ calls = 0
    /\ sent = [c \in Channels |-> 0]
    /\ late = [c \in Channels |-> 0]

------------------------------------------------------------------------------
(* Add, RemoveByChannels, removeByChannels, Wake                            *)

\* removeByChannels copies the handlers of the other channels one by one:
\* kept[i] is the copy after the first i handlers.
Kept(list, chs) ==
    LET kept[i \in 0 .. Len(list)] ==
            IF i = 0 THEN <<>>
            ELSE IF list[i] \in Range(chs) THEN kept[i - 1]
            ELSE Append(kept[i - 1], list[i])
    IN  kept[Len(list)]

\* The new slice: the arguments are appended in order, or every handler of
\* one of the channels is dropped and the others keep their order.
Edit(list, r) == IF r.kind = "add" THEN list \o r.chs ELSE Kept(list, r.chs)

\* A goroutine enters Add or RemoveByChannels; the loop's goroutine does so
\* from inside a handler.
Call(t, r) ==
    /\ pc[t] = "idle"
    /\ t = Loop => run = "handler"
    /\ calls < MaxCalls
    /\ pc' = [pc EXCEPT ![t] = "load"]
    /\ req' = [req EXCEPT ![t] = r]
    /\ calls' = calls + 1
    /\ UNCHANGED <<handlers, wake, snap, run, cases, chanVars, stop, late>>

Load(t) ==
    /\ pc[t] = "load"
    /\ snap' = [snap EXCEPT ![t] = handlers]
    /\ pc' = [pc EXCEPT ![t] = "cas"]
    /\ UNCHANGED <<handlers, wake, req, run, cases, chanVars, stop, calls, late>>

\* Two slices are the same pointer iff they have the same ver: a slice is
\* installed only over the one it was computed from.
SamePointer(s1, s2) == s1.ver = s2.ver
\* Mutation: the new slice is stored without comparing pointers.
BlindStore(t) ==
    /\ pc[t] = "cas"
    /\ handlers' = [ver |-> handlers.ver + 1, list |-> Edit(snap[t].list, req[t])]
    /\ pc' = [pc EXCEPT ![t] = "wake"]
    /\ snap' = [snap EXCEPT ![t] = Nil]
    /\ UNCHANGED <<wake, req, run, cases, chanVars, stop, calls, late>>

CompareAndSwap(t) ==
    /\ pc[t] = "cas"
    /\ SamePointer(snap[t], handlers)
    /\ handlers' = [ver |-> handlers.ver + 1, list |-> Edit(snap[t].list, req[t])]
    /\ pc' = [pc EXCEPT ![t] = "wake"]
    /\ snap' = [snap EXCEPT ![t] = Nil]
    /\ late' = [c \in Channels |->
                  IF req[t].kind = "add" /\ c \in Range(req[t].chs) THEN 0 ELSE late[c]]
    /\ UNCHANGED <<wake, req, run, cases, chanVars, stop, calls>>

CasFails(t) ==
    /\ pc[t] = "cas"
    /\ ~SamePointer(snap[t], handlers)
    /\ pc' = [pc EXCEPT ![t] = "load"]
    /\ UNCHANGED <<handlers, wake, req, snap, run, cases, chanVars, stop, calls, late>>
\* Mutation: the list is changed and the loop is not woken.
NoWake == wake' = wake

\* The token is sent; when the channel is full it is dropped.
Wake == wake' = TRUE

\* Add and RemoveByChannels wake the loop as they return.
ReturnFromCall(t) ==
    /\ pc[t] = "wake"
    /\ req[t].wake
    /\ Wake
    /\ pc' = [pc EXCEPT ![t] = "idle"]
    /\ req' = [req EXCEPT ![t] = NoRequest]
    /\ UNCHANGED <<handlers, snap, run, cases, chanVars, stop, calls, late>>

CallStep(t) == Load(t) \/ CompareAndSwap(t) \/ CasFails(t) \/ ReturnFromCall(t)

------------------------------------------------------------------------------
(* Run                                                                      *)
\* Mutation: the cases are rebuilt only when handlers were added.
RefreshLonger == IF Len(handlers.list) <= Len(cases.list) THEN cases ELSE handlers

\* getCases: the cases are rebuilt when the pointer has changed.
Refresh == IF SamePointer(handlers, cases) THEN cases ELSE handlers

GetCases ==
    /\ run = "getCases"
    /\ cases' = Refresh
    /\ run' = "select"
    /\ UNCHANGED <<handlers, wake, callVars, chanVars, stop, calls, late>>

SelectStop ==
    /\ run = "select"
    /\ stop
    /\ run' = "stopped"
    /\ UNCHANGED <<handlers, wake, callVars, cases, chanVars, stop, calls, late>>

SelectWake ==
    /\ run = "select"
    /\ wake
    /\ wake' = FALSE
    /\ run' = "getCases"
    /\ UNCHANGED <<handlers, callVars, cases, chanVars, stop, calls, late>>

\* The handler of c starts; the ghost counts the start when c is no longer
\* registered.
Dispatch(c) ==
    /\ run' = "handler"
    /\ late' = IF c \in Registered THEN late ELSE [late EXCEPT ![c] = @ + 1]

SelectValue(c) ==
    /\ run = "select"
    /\ c \in Range(cases.list)
    /\ pend[c] > 0
    /\ pend' = [pend EXCEPT ![c] = @ - 1]
    /\ Dispatch(c)
    /\ UNCHANGED <<handlers, wake, callVars, cases, closed, sent, stop, calls>>

\* A closed and drained channel: Run removes its handlers without a wake ...
SelectClosed(c) ==
    /\ run = "select"
    /\ c \in Range(cases.list)
    /\ pend[c] = 0
    /\ c \in closed
    /\ run' = "remove"
    /\ pc' = [pc EXCEPT ![Loop] = "load"]
    /\ req' = [req EXCEPT ![Loop] = RemoveRequest(<<c>>, FALSE)]
    /\ UNCHANGED <<handlers, wake, snap, cases, chanVars, stop, calls, late>>

\* ... and then, removeByChannels having returned, tells one of them so.
HandleClosed ==
    /\ pc[Loop] = "wake"
    /\ ~req[Loop].wake
    /\ Dispatch(Head(req[Loop].chs))
    /\ pc' = [pc EXCEPT ![Loop] = "idle"]
    /\ req' = [req EXCEPT ![Loop] = NoRequest]
    /\ UNCHANGED <<handlers, wake, snap, cases, chanVars, stop, calls>>

HandlerReturns ==
    /\ run = "handler"
    /\ pc[Loop] = "idle"
    /\ run' = "getCases"
    /\ UNCHANGED <<handlers, wake, callVars, cases, chanVars, stop, calls, late>>

RunStep ==
    \/ GetCases \/ SelectStop \/ SelectWake \/ HandleClosed \/ HandlerReturns
    \/ \E c \in Channels : SelectValue(c) \/ SelectClosed(c)

------------------------------------------------------------------------------
(* The owners of the channels                                               *)

Send(c) ==
    /\ c \notin closed
    /\ sent[c] < MaxSends
    /\ sent' = [sent EXCEPT ![c] = @ + 1]
    /\ pend' = [pend EXCEPT ![c] = @ + 1]
    /\ UNCHANGED <<handlers, wake, callVars, run, cases, closed, stop, calls, late>>

CloseChannel(c) ==
    /\ c \notin closed
    /\ closed' = closed \cup {c}
    /\ UNCHANGED <<handlers, wake, callVars, run, cases, pend, sent, stop, calls, late>>

CloseStop ==
    /\ ~stop
    /\ stop' = TRUE
    /\ UNCHANGED <<handlers, wake, callVars, run, cases, chanVars, calls, late>>

Environment == CloseStop \/ \E c \in Channels : Send(c) \/ CloseChannel(c)

------------------------------------------------------------------------------
Next ==
    \/ \E t \in Threads : CallStep(t) \/ \E r \in CallRequests : Call(t, r)
    \/ RunStep
    \/ Environment

Spec == Init /\ [][Next]_vars

\* Goroutines are scheduled, handlers return, and reflect.Select picks among
\* the ready cases at random: a case that is ready again and again is taken.
Fairness ==
    /\ \A t \in Threads : WF_vars(CallStep(t))
    /\ WF_vars(GetCases) /\ WF_vars(HandleClosed) /\ WF_vars(HandlerReturns)
    /\ SF_vars(SelectStop) /\ SF_vars(SelectWake)
    /\ \A c \in Channels : SF_vars(SelectValue(c)) /\ SF_vars(SelectClosed(c))

FairSpec == Spec /\ Fairness

------------------------------------------------------------------------------
(* Properties                                                               *)

TypeOK ==
    /\ handlers \in Slice
    /\ wake \in BOOLEAN
    /\ pc \in [Threads -> {"idle", "load", "cas", "wake"}]
    /\ req \in [Threads -> Requests \cup {NoRequest}]
    /\ snap \in [Threads -> Slice]
    /\ run \in {"getCases", "select", "remove", "handler", "stopped"}
    /\ cases \in Slice
    /\ pend \in [Channels -> 0 .. MaxSends]
    /\ closed \subseteq Channels
    /\ stop \in BOOLEAN
    /\ calls \in 0 .. MaxCalls
    /\ sent \in [Channels -> 0 .. MaxSends]
    /\ late \in [Channels -> Nat]

\* No wake-up is lost: when Run blocks in its select on cases built from an
\* old slice, the wake token is in the channel or the goroutine that
\* installed the newer slice has yet to put it there (the CAS and the Wake of
\* Add and RemoveByChannels are two steps, and removeByChannels never wakes).
NoLostWakeUp ==
    run = "select" /\ cases.ver # handlers.ver =>
        wake \/ \E t \in Threads : pc[t] = "wake" /\ req[t].wake

\* A handler runs at most once after it has been removed: a select already
\* blocked on the old cases may still take the removed channel, but then the
\* cases are rebuilt, whoever removed it and whether or not it was closed.
AtMostOneLateCall == \A c \in Channels : late[c] <= 1

\* Every variable has its type (no case is taken without a value, say), and no
\* handler runs twice after its removal.
HandlerCallsInv == TypeOK /\ AtMostOneLateCall

\* Every Add and RemoveByChannels edits the handler list exactly once and
\* atomically although it is a loop of load, copy and compare-and-swap: the
\* loop implements HandlerList, so no concurrent edit is lost or repeated and
\* the order of registration is kept.
AbstractStatus == [t \in Threads |->
    CASE pc[t] = "idle" -> "idle"
      [] pc[t] = "wake" -> "applied"
      [] OTHER          -> "called"]

HL == INSTANCE HandlerList WITH list <- handlers.list, status <- AbstractStatus, asked <- req
ImplementsHandlerList == HL!Spec

\* A value sent to, or the closing of, a registered channel is taken from it by
\* the loop, unless its handlers are removed or the loop is stopped first.  When
\* a channel has several handlers it is given to one of them: Run takes one case,
\* and the end of a channel removes the others without a call.
Waiting(c) == c \in Registered /\ (pend[c] > 0 \/ c \in closed) /\ run # "stopped"
EveryEventHandled == \A c \in Channels : Waiting(c) ~> ~Waiting(c)
==============================================================================
