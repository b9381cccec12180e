----------------------------- MODULE HandlerList -----------------------------
(***************************************************************************)
(* What the event loop promises to the callers of Add, Remove and          *)
(* RemoveByChannels: a list of handlers that every call edits exactly      *)
(* once, in one atomic step, at some moment between the call and its       *)
(* return.  Nothing is said of compare-and-swap, snapshots or retries:     *)
(* module EventLoop is shown to implement this specification.              *)
(***************************************************************************)
CONSTANTS
    Threads,       \* the goroutines that call the loop
    Requests,      \* the edits they may ask for
    NoRequest,     \* what a goroutine outside any call asks for
    Edit(_, _)     \* Edit(list, request): the list after the request

VARIABLES
    list,          \* the registered handlers, in order
    status,        \* status[t]: where t is in its call
    asked          \* asked[t]: the request of t's current call

vars == <<list, status, asked>>

Init ==
    /\ list = <<>>
    /\ status = [t \in Threads |-> "idle"]
    /\ asked = [t \in Threads |-> NoRequest]

Invoke(t, r) ==
    /\ status[t] = "idle"
    /\ status' = [status EXCEPT ![t] = "called"]
    /\ asked' = [asked EXCEPT ![t] = r]
    /\ UNCHANGED list

\* The edit takes effect; the call may still have to return.
Apply(t) ==
    /\ status[t] = "called"
    /\ list' = Edit(list, asked[t])
    /\ status' = [status EXCEPT ![t] = "applied"]
    /\ UNCHANGED asked

Return(t) ==
    /\ status[t] = "applied"
    /\ status' = [status EXCEPT ![t] = "idle"]
    /\ asked' = [asked EXCEPT ![t] = NoRequest]
    /\ UNCHANGED list

Next == \E t \in Threads : (\E r \in Requests : Invoke(t, r)) \/ Apply(t) \/ Return(t)

Spec == Init /\ [][Next]_vars
==============================================================================
