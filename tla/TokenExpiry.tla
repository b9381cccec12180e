----------------------------- MODULE TokenExpiry -----------------------------
(***************************************************************************)
(* When the cloud manager refreshes its access token.  A ticker fires      *)
(* every TickInterval into a channel that holds one tick; a tick that      *)
(* comes while one still waits there is dropped.  The loop takes ticks and *)
(* triggers when it is not busy with a handler, for however long that is:  *)
(* a connect dials and makes up to five requests.  connect begins with the *)
(* refresh of the token when isCredsExpiring says so and there is a        *)
(* refresh token; the answer gives a new token with a lifetime of its own, *)
(* and perhaps no refresh token; a refresh that fails ends the connect.    *)
(* Time is counted in whole units.                                         *)
(***************************************************************************)
EXTENDS Integers

CONSTANTS
    TickInterval,  \* Manager.tickInterval
    Lifetimes,     \* the lifetimes (ExpiresIn) the cloud hands out
    Horizon        \* bound: the time at which the model stops

NoTime == -1   \* the zero time.Time of a token that does not expire

ASSUME TickAssumption == TickInterval \in Nat \ {0}
ASSUME LifetimeAssumption == Lifetimes \subseteq Nat \union {-1}
ASSUME HorizonAssumption == Horizon \in Nat

VARIABLES
    now,         \* time.Now()
    validUntil,  \* creds.ValidUntil
    lifetime,    \* the ExpiresIn of the current token
    refreshable, \* creds.RefreshToken # ""
    nextTick,    \* when the ticker fires next
    ticked,      \* a tick waits in t.C
    manager,     \* what the loop does: "select" | "refresh" | "busy"
    dropped,     \* history: the ticker has dropped a tick of this token's time
    failed       \* history: a refresh of this token has failed

vars == <<now, validUntil, lifetime, refreshable, nextTick, ticked, manager, dropped, failed>>

Managing == {"select", "refresh", "busy"}

TypeOK ==
    /\ now \in Nat
    /\ validUntil \in Nat \union {NoTime}
    /\ lifetime \in Lifetimes
    /\ refreshable \in BOOLEAN
    /\ nextTick \in Nat
    /\ ticked \in BOOLEAN
    /\ manager \in Managing
    /\ dropped \in BOOLEAN
    /\ failed \in BOOLEAN

\* validUntil
ValidUntil(expiresIn) == IF expiresIn = -1 THEN NoTime ELSE now + expiresIn

\* The answer of the cloud at hand replaces the credentials.
NewToken ==
    /\ lifetime' \in Lifetimes
    /\ validUntil' = ValidUntil(lifetime')
    /\ refreshable' \in BOOLEAN
    /\ dropped' = FALSE
    /\ failed' = FALSE

\* The device has just signed up, in a handler, at time 0.
Init ==
    /\ now = 0
    /\ lifetime \in Lifetimes
    /\ validUntil = ValidUntil(lifetime)
    /\ refreshable \in BOOLEAN
    /\ nextTick \in 1 .. TickInterval
    /\ ticked \in BOOLEAN
    /\ manager = "busy"
    /\ dropped = FALSE
    /\ failed = FALSE

\* time.Until(creds.ValidUntil)
Diff == validUntil - now

\* Division of durations truncates towards zero.
Quotient(a, b) == IF a >= 0 THEN a \div b ELSE -((-a) \div b)

\* Mutation: a margin of one interval.
ExpiringWithinOneTick == validUntil # NoTime /\ Diff < TickInterval

IsCredsExpiring ==
    /\ validUntil # NoTime
    /\ \/ Diff < TickInterval * 2
       \/ now > validUntil + Quotient(-Diff, 3)

Advance ==
    /\ now < Horizon
    /\ now < nextTick
    /\ now' = now + 1
    /\ UNCHANGED <<validUntil, lifetime, refreshable, nextTick, ticked, manager, dropped, failed>>

\* The ticker fires; its channel holds one tick.
Tick ==
    /\ now = nextTick
    /\ nextTick' = nextTick + TickInterval
    /\ ticked' = TRUE
    /\ dropped' = (dropped \/ ticked)
    /\ UNCHANGED <<now, validUntil, lifetime, refreshable, manager, failed>>

\* connect: whether the functions it runs begin with refreshToken, which does
\* nothing without a refresh token; forced is forceRefreshToken.
Connect(forced) ==
    /\ manager = "select"
    /\ manager' = IF (IsCredsExpiring \/ forced) /\ refreshable THEN "refresh" ELSE "busy"
    /\ UNCHANGED <<now, validUntil, lifetime, refreshable, nextTick, dropped, failed>>

HandleTimer == ticked /\ ticked' = FALSE /\ \E forced \in BOOLEAN : Connect(forced)

HandleTrigger == (\E forced \in BOOLEAN : Connect(forced)) /\ UNCHANGED ticked

\* Another handler of the loop: one of another channel, or a trigger that only
\* closes the connection for a reconnect.
OtherHandler ==
    /\ manager = "select"
    /\ manager' = "busy"
    /\ UNCHANGED <<now, validUntil, lifetime, refreshable, nextTick, ticked, dropped, failed>>

\* The answer of refreshToken; connect goes on with its other functions.
Refreshed ==
    /\ manager = "refresh"
    /\ NewToken
    /\ manager' = "busy"
    /\ UNCHANGED <<now, nextTick, ticked>>

\* The dial or refreshToken fails, and with it connect.
RefreshFails ==
    /\ manager = "refresh"
    /\ manager' = "select"
    /\ failed' = TRUE
    /\ UNCHANGED <<now, validUntil, lifetime, refreshable, nextTick, ticked, dropped>>

\* The handler returns to the loop.
Return ==
    /\ manager = "busy"
    /\ manager' = "select"
    /\ UNCHANGED <<now, validUntil, lifetime, refreshable, nextTick, ticked, dropped, failed>>

Next ==
    \/ Advance \/ Tick
    \/ HandleTimer \/ HandleTrigger \/ OtherHandler
    \/ Refreshed \/ RefreshFails \/ Return

Spec == Init /\ [][Next]_vars

------------------------------------------------------------------------------
(* Properties                                                               *)

Expired == validUntil # NoTime /\ now > validUntil

\* What isCredsExpiring cannot help: a token that lives shorter than its margin,
\* one without a refresh token, one whose refresh has failed, and a loop that
\* was away for so long that the ticker dropped a tick.
BeyondTheMargin == lifetime < 2 * TickInterval \/ ~refreshable \/ failed \/ dropped

\* A token never expires unnoticed: by the time it expires its refresh is under
\* way, however ticks and triggers fall.  The margin of two intervals in
\* isCredsExpiring is what a tick that waits a whole interval for the loop needs.
TokenStaysValid == Expired => manager = "refresh" \/ BeyondTheMargin

------------------------------------------------------------------------------
(* The strengthening of TokenStaysValid that the steps preserve.            *)

\* The tick that waits, or else the next one, is taken while the token is valid.
ValidAtNextTick ==
    validUntil = NoTime \/ manager = "refresh" \/ BeyondTheMargin \/
    (IF ticked THEN nextTick ELSE nextTick + TickInterval) <= validUntil
TickerInv == now <= nextTick /\ nextTick <= now + TickInterval
IInv == TypeOK /\ ValidAtNextTick /\ TickerInv
==============================================================================
