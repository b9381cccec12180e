----------------------------- MODULE CloudManager -----------------------------
(***************************************************************************)
(* The cloud manager of a bridged device (bridge/device/cloud): it keeps   *)
(* the device registered with the cloud named by its configuration.        *)
(*                                                                         *)
(* One goroutine, the event loop, runs handleTrigger, handleTimer and the  *)
(* done handler; each of them runs to its end, blocking in requests to the *)
(* cloud.  Meanwhile other goroutines configure the device (Post,          *)
(* Unregister), change its resources, ask for a reconnect, close it, and   *)
(* the connection's own goroutine runs its OnClose callback.  They meet in *)
(* the mutex-protected struct, in the trigger channel of limited capacity  *)
(* and in the connection.  One action is one critical section of the       *)
(* mutex, or a run of code in which nobody else can observe a difference.  *)
(***************************************************************************)
EXTENDS Naturals, Sequences, FiniteSets

CONSTANTS
    Clouds,          \* the clouds the device may be configured for
    Hrefs,           \* the resources the application may add
    Conns,           \* identities of connections
    NoCloud,         \* no URL configured
    NoConn,          \* the nil client
    NoCreds,         \* no access token
    TriggerCap,      \* capacity of the trigger channel
    UnpublishBatch,  \* resources in one unpublish request
    ManagedCAs,      \* cloud CAs are credentials the manager may remove
    MayClose,        \* Close may be called
    Faults,          \* what may go wrong in this instance
    MaxPosts,        \* bound: configuration requests
    MaxReconnects,   \* bound: calls of Reconnect
    MaxCrashes       \* bound: restarts of the process

AllFaults == {"lose", "dial", "timeout", "error", "unauthorized", "expire"}

ASSUME NullsAssumption == NoCloud \notin Clouds /\ NoConn \notin Conns
ASSUME CapsAssumption == TriggerCap \in Nat \ {0} /\ UnpublishBatch \in Nat \ {0}
ASSUME BoundsAssumption == MaxPosts \in Nat /\ MaxReconnects \in Nat /\ MaxCrashes \in Nat
ASSUME FaultsAssumption == Faults \subseteq AllFaults /\ ManagedCAs \in BOOLEAN /\ MayClose \in BOOLEAN
ASSUME CredsAssumption ==
    NoCreds \notin [cloud : Clouds, refresh : BOOLEAN, expiring : BOOLEAN]

VARIABLES
    \* Manager.private, under the mutex
    cfg,                 \* cloud (URL and id), authorization code, provisioning status
    previousCloudIDs,
    ready,               \* resources ready to publish and to unpublish
    creds,               \* what sign up returned
    client,              \* the current connection
    signedIn,
    \* the rest of Manager
    resourcesPublished,
    forceRefreshToken,
    reconnect,
    trigger,             \* the trigger channel: TRUE asks for a reset
    stopped,             \* Close was called
    \* the loop goroutine
    pc,                  \* the function the loop is in
    wantRefresh,         \* connect decided to refresh the token
    target,              \* the cloud being dialled
    call,                \* the request client.Do waits for
    \* the rest of the device and the world
    conn,                \* the connections, by identity
    res,                 \* the device's resources with the PublishToCloud policy
    adding,              \* stored, PublishResources not called yet
    deleting,            \* deleted, UnpublishResources not called yet
    trusted,             \* clouds whose CA is in the pool
    rd,                  \* rd[c]: the resources published in cloud c
    saved,               \* the configuration last saved
    \* bounds and ghosts
    posting,             \* configuration requests between their two steps
    posts, reconnects, crashes,
    lostReset            \* ghost: a reset was dropped and none was done since

privateVars == <<cfg, previousCloudIDs, ready, creds, client, signedIn>>
flagVars == <<resourcesPublished, forceRefreshToken, reconnect>>
loopVars == <<pc, wantRefresh, target, call>>
queueVars == <<trigger, lostReset>>
deviceVars == <<res, adding, deleting>>
worldVars == <<trusted, rd, saved>>
boundVars == <<posting, posts, reconnects, crashes>>
vars == <<privateVars, flagVars, loopVars, queueVars, stopped, conn, deviceVars,
          worldVars, boundVars>>

------------------------------------------------------------------------------
(* Types                                                                    *)

Statuses == {"uninitialized", "readytoregister", "registering", "registered", "deregistering"}
Config == [cloud : Clouds \cup {NoCloud}, code : BOOLEAN, status : Statuses]
Creds == [cloud : Clouds, refresh : BOOLEAN, expiring : BOOLEAN]
Connection == [cloud : Clouds \cup {NoCloud}, open : BOOLEAN, hook : BOOLEAN, session : BOOLEAN]
Requests == {"signOff", "refreshToken", "signUp", "signIn", "publish", "unpublish"}
Replies == {"ok", "unauthorized", "error"}
PendingCall == [op : Requests, conn : Conns, hrefs : SUBSET Hrefs, reply : Replies \cup {"sent"}]
Steps == Requests \cup {"idle", "reset", "check", "connect", "dial", "finish", "closed"}
Persisted == [cloud : Clouds \cup {NoCloud}, creds : Creds \cup {NoCreds}]

NoCall == [op |-> "none", conn |-> NoConn, hrefs |-> {}, reply |-> "none"]
NoConfig == [cloud |-> NoCloud, code |-> FALSE, status |-> "uninitialized"]
NothingReady == [pub |-> {}, unpub |-> {}]
UnusedConn == [cloud |-> NoCloud, open |-> FALSE, hook |-> FALSE, session |-> FALSE]

ConfigTypes ==
    /\ cfg \in Config
    /\ previousCloudIDs \subseteq Clouds
    /\ ready \in [pub : SUBSET Hrefs, unpub : SUBSET Hrefs]
CredsTypes == creds \in Creds \cup {NoCreds}
ClientTypes ==
    /\ client \in Conns \cup {NoConn}
    /\ signedIn \in BOOLEAN
    /\ conn \in [Conns -> Connection]
FlagTypes ==
    /\ resourcesPublished \in BOOLEAN
    /\ forceRefreshToken \in BOOLEAN
    /\ reconnect \in BOOLEAN
    /\ stopped \in BOOLEAN
QueueTypes ==
    /\ trigger \in Seq(BOOLEAN) /\ Len(trigger) <= TriggerCap
    /\ lostReset \in BOOLEAN
LoopTypes ==
    /\ pc \in Steps
    /\ wantRefresh \in BOOLEAN
    /\ target \in Clouds \cup {NoCloud}
    /\ call \in PendingCall \cup {NoCall}
DeviceTypes == res \subseteq Hrefs /\ adding \subseteq Hrefs /\ deleting \subseteq Hrefs
WorldTypes ==
    /\ trusted \subseteq Clouds
    /\ rd \in [Clouds -> SUBSET Hrefs]
    /\ saved \in Persisted
BoundTypes ==
    /\ posting \in Nat /\ posts \in 0 .. MaxPosts
    /\ reconnects \in 0 .. MaxReconnects /\ crashes \in 0 .. MaxCrashes

TypeOK ==
    /\ ConfigTypes /\ CredsTypes /\ ClientTypes /\ FlagTypes /\ QueueTypes
    /\ LoopTypes /\ DeviceTypes /\ WorldTypes /\ BoundTypes

------------------------------------------------------------------------------
(* New and Init of a device that has never been configured; Crash, below,   *)
(* starts it again from what was saved.                                     *)

\* importConfig: the authorization code is not part of what is saved.
ImportConfig(s) ==
    [cloud |-> s.cloud, code |-> FALSE,
     status |-> IF s.cloud = NoCloud THEN "uninitialized" ELSE "readytoregister"]

\* Init triggers the loop when a cloud is configured.
InitialTrigger(s) == IF s.cloud = NoCloud THEN <<>> ELSE <<FALSE>>

Init ==
    /\ saved = [cloud |-> NoCloud, creds |-> NoCreds]
    /\ cfg = ImportConfig(saved)
    /\ previousCloudIDs = {}
    /\ ready = NothingReady
    /\ creds = saved.creds
    /\ client = NoConn
    /\ signedIn = FALSE
    /\ resourcesPublished = FALSE
    /\ forceRefreshToken = FALSE
    /\ reconnect = FALSE
    /\ trigger = InitialTrigger(saved)
    /\ stopped = FALSE
    /\ pc = "idle"
    /\ wantRefresh = FALSE
    /\ target = NoCloud
    /\ call = NoCall
    /\ conn = [k \in Conns |-> UnusedConn]
    /\ res \in SUBSET Hrefs
    /\ adding = {}
    /\ deleting = {}
    /\ trusted = IF ManagedCAs THEN {} ELSE Clouds
    /\ rd = [c \in Clouds |-> {}]
    /\ posting = 0 /\ posts = 0 /\ reconnects = 0 /\ crashes = 0
    /\ lostReset = FALSE

------------------------------------------------------------------------------
(* Helpers                                                                  *)

\* triggerRunner: the value is dropped when the channel is full.
QueueFull == Len(trigger) >= TriggerCap
Enqueue(reset) == trigger' = IF QueueFull THEN trigger ELSE Append(trigger, reset)
TriggerRunner(reset) ==
    /\ Enqueue(reset)
    /\ lostReset' = (lostReset \/ (reset /\ QueueFull))

\* setCloudConfiguration: an empty URL also forgets what was to be published.
SetCloudConfiguration(c, code) ==
    /\ previousCloudIDs' = previousCloudIDs \cup ({cfg.cloud} \ {NoCloud})
    /\ cfg' = [cloud |-> c, code |-> code,
               status |-> IF c = NoCloud THEN "uninitialized" ELSE "readytoregister"]
    /\ ready' = IF c = NoCloud THEN NothingReady ELSE ready

SetProvisioningStatus(s) == cfg' = [cfg EXCEPT !.status = s]
\* Mutation: signedIn survives the replacement of the client.
ReplaceClientOnly(k) ==
    /\ client' = k
    /\ UNCHANGED signedIn

\* replaceClient: whoever takes the client's place starts signed out.
ReplaceClient(k) ==
    /\ client' = k
    /\ signedIn' = FALSE

\* close: the client is replaced by nil and its connection is closed.
CloseClient ==
    /\ ReplaceClient(NoConn)
    /\ conn' = IF client = NoConn THEN conn ELSE [conn EXCEPT ![client].open = FALSE]

\* removeCloudCAs, the credential manager's RemoveCredentialsBySubjects.
RemoveCloudCAs(ids) == trusted' = IF ManagedCAs THEN trusted \ ids ELSE trusted

Save(c, cr) == saved' = [cloud |-> c, creds |-> cr]

\* A step of connect failed: connect closes the connection and gives up.
Fail ==
    /\ CloseClient
    /\ pc' = "idle"
    /\ call' = NoCall

\* The function returns nil and connect calls the next one.
Proceed(step) ==
    /\ pc' = step
    /\ call' = NoCall

SendRequest(op, hrefs) ==
    /\ client # NoConn
    /\ call' = [op |-> op, conn |-> client, hrefs |-> hrefs, reply |-> "sent"]

\* The loop is about to start the request of step op, or Do has returned r.
Entering(op) == pc = op /\ call = NoCall
Returned(op, r) == pc = op /\ call.op = op /\ call.reply = r

------------------------------------------------------------------------------
(* The API: calls from other goroutines                                     *)

\* Post and Unregister first set the configuration ...
Configure(c, code) ==
    /\ posts < MaxPosts
    /\ posts' = posts + 1
    /\ posting' = posting + 1
    /\ SetCloudConfiguration(c, code)
    /\ trusted' = trusted \cup ({c} \ {NoCloud})   \* onboarding installs the CA first
    /\ UNCHANGED <<creds, client, signedIn, flagVars, loopVars, queueVars, stopped, conn,
                   deviceVars, rd, saved, reconnects, crashes>>

Post(c) == Configure(c, TRUE)
Unregister == Configure(NoCloud, FALSE)
\* Mutation: the loop is triggered without asking for a reset.
TriggerWithoutReset ==
    /\ posting > 0
    /\ posting' = posting - 1
    /\ TriggerRunner(FALSE)
    /\ UNCHANGED <<privateVars, flagVars, loopVars, stopped, conn, deviceVars, worldVars,
                   posts, reconnects, crashes>>

\* ... and then ask the loop for a reset.
TriggerReset ==
    /\ posting > 0
    /\ posting' = posting - 1
    /\ TriggerRunner(TRUE)
    /\ UNCHANGED <<privateVars, flagVars, loopVars, stopped, conn, deviceVars, worldVars,
                   posts, reconnects, crashes>>

Reconnect ==
    /\ reconnects < MaxReconnects
    /\ reconnects' = reconnects + 1
    /\ reconnect' = TRUE
    /\ TriggerRunner(FALSE)
    /\ UNCHANGED <<privateVars, resourcesPublished, forceRefreshToken, loopVars, stopped, conn,
                   deviceVars, worldVars, posting, posts, crashes>>

Close ==
    /\ MayClose
    /\ ~stopped
    /\ stopped' = TRUE
    /\ UNCHANGED <<privateVars, flagVars, loopVars, queueVars, conn, deviceVars, worldVars,
                   boundVars>>

\* Device.AddResources stores the resource, then calls PublishResources.  The
\* application does not add and delete the same resource concurrently.
AddResource(h) ==
    /\ h \notin res \cup adding \cup deleting
    /\ res' = res \cup {h}
    /\ adding' = adding \cup {h}
    /\ UNCHANGED <<privateVars, flagVars, loopVars, queueVars, stopped, conn, deleting,
                   worldVars, boundVars>>

PublishResources(h) ==
    /\ h \in adding
    /\ adding' = adding \ {h}
    /\ ready' = [pub |-> ready.pub \cup {h}, unpub |-> ready.unpub \ {h}]
    /\ TriggerRunner(FALSE)
    /\ UNCHANGED <<cfg, previousCloudIDs, creds, client, signedIn, flagVars, loopVars, stopped,
                   conn, res, deleting, worldVars, boundVars>>

\* Device.CloseAndDeleteResource removes it, then calls UnpublishResources.
DeleteResource(h) ==
    /\ h \in res \ adding
    /\ res' = res \ {h}
    /\ deleting' = deleting \cup {h}
    /\ UNCHANGED <<privateVars, flagVars, loopVars, queueVars, stopped, conn, adding,
                   worldVars, boundVars>>

UnpublishResources(h) ==
    /\ h \in deleting
    /\ deleting' = deleting \ {h}
    /\ ready' = [pub |-> ready.pub \ {h}, unpub |-> ready.unpub \cup {h}]
    /\ TriggerRunner(FALSE)
    /\ UNCHANGED <<cfg, previousCloudIDs, creds, client, signedIn, flagVars, loopVars, stopped,
                   conn, res, adding, worldVars, boundVars>>

API ==
    \/ Unregister \/ TriggerReset \/ Reconnect \/ Close
    \/ \E c \in Clouds : Post(c)
    \/ \E h \in Hrefs : AddResource(h) \/ PublishResources(h)
                        \/ DeleteResource(h) \/ UnpublishResources(h)

------------------------------------------------------------------------------
(* The loop: handleTrigger, handleTimer, the done handler                   *)
\* Mutation: a reset is honoured only by a device that is signed in.
TriggerResetsSignedIn ==
    /\ pc = "idle"
    /\ trigger # <<>>
    /\ trigger' = Tail(trigger)
    /\ pc' = IF Head(trigger) /\ signedIn THEN "signOff" ELSE "check"
    /\ UNCHANGED <<privateVars, flagVars, wantRefresh, target, call, lostReset, stopped, conn,
                   deviceVars, worldVars, boundVars>>

HandleTrigger ==
    /\ pc = "idle"
    /\ trigger # <<>>
    /\ trigger' = Tail(trigger)
    /\ pc' = IF Head(trigger) THEN "signOff" ELSE "check"
    /\ UNCHANGED <<privateVars, flagVars, wantRefresh, target, call, lostReset, stopped, conn,
                   deviceVars, worldVars, boundVars>>
\* Mutation: the timer only looks after the token.
TimerOnlyRefreshes ==
    /\ pc = "idle"
    /\ cfg.cloud # NoCloud
    /\ creds # NoCreds /\ creds.expiring
    /\ pc' = "connect"
    /\ UNCHANGED <<privateVars, flagVars, wantRefresh, target, call, queueVars, stopped, conn,
                   deviceVars, worldVars, boundVars>>

HandleTimer ==
    /\ pc = "idle"
    /\ cfg.cloud # NoCloud
    /\ pc' = "connect"
    /\ UNCHANGED <<privateVars, flagVars, wantRefresh, target, call, queueVars, stopped, conn,
                   deviceVars, worldVars, boundVars>>

HandleDone ==
    /\ pc = "idle"
    /\ stopped
    /\ CloseClient
    /\ pc' = "closed"
    /\ UNCHANGED <<cfg, previousCloudIDs, ready, creds, flagVars, wantRefresh, target, call,
                   queueVars, stopped, deviceVars, worldVars, boundVars>>

\* signOff, which without a connection returns before it touches the status.
SignOffSkip ==
    /\ Entering("signOff")
    /\ client = NoConn
    /\ Proceed("reset")
    /\ UNCHANGED <<privateVars, flagVars, wantRefresh, target, queueVars, stopped, conn,
                   deviceVars, worldVars, boundVars>>

SignOff ==
    /\ Entering("signOff")
    /\ SendRequest("signOff", {})
    /\ SetProvisioningStatus("deregistering")
    /\ UNCHANGED <<previousCloudIDs, ready, creds, client, signedIn, flagVars, pc, wantRefresh,
                   target, queueVars, stopped, conn, deviceVars, worldVars, boundVars>>
\* Mutation: the status stays at deregistering.
SignOffKeepsStatus ==
    /\ \E r \in Replies : Returned("signOff", r)
    /\ Proceed("reset")
    /\ UNCHANGED <<privateVars, flagVars, wantRefresh,
                   target, queueVars, stopped, conn, deviceVars, worldVars, boundVars>>

SignOffDone ==
    /\ \E r \in Replies : Returned("signOff", r)
    /\ Proceed("reset")
    /\ SetProvisioningStatus("uninitialized")
    /\ UNCHANGED <<previousCloudIDs, ready, creds, client, signedIn, flagVars, wantRefresh,
                   target, queueVars, stopped, conn, deviceVars, worldVars, boundVars>>
\* Mutation: the next cloud is taken to know the resources already.
ResetKeepsPublished ==
    /\ pc = "reset"
    /\ creds' = NoCreds
    /\ forceRefreshToken' = FALSE
    /\ reconnect' = FALSE
    /\ CloseClient
    /\ Save(cfg.cloud, NoCreds)
    /\ RemoveCloudCAs(previousCloudIDs)
    /\ previousCloudIDs' = {}
    /\ lostReset' = FALSE
    /\ pc' = "check"
    /\ UNCHANGED <<cfg, ready, resourcesPublished, wantRefresh, target, call, trigger, stopped,
                   deviceVars, rd, boundVars>>

\* resetCredentials after signOff.
ResetCredentials ==
    /\ pc = "reset"
    /\ creds' = NoCreds
    /\ resourcesPublished' = FALSE
    /\ forceRefreshToken' = FALSE
    /\ reconnect' = FALSE
    /\ CloseClient
    /\ Save(cfg.cloud, NoCreds)
    /\ RemoveCloudCAs(previousCloudIDs)
    /\ previousCloudIDs' = {}
    /\ lostReset' = FALSE
    /\ pc' = "check"
    /\ UNCHANGED <<cfg, ready, wantRefresh, target, call, trigger, stopped, deviceVars, rd,
                   boundVars>>

\* The rest of handleTrigger up to connect.
CheckReconnect ==
    /\ pc = "check"
    /\ reconnect
    /\ reconnect' = FALSE
    /\ CloseClient
    /\ pc' = "idle"
    /\ UNCHANGED <<cfg, previousCloudIDs, ready, creds, resourcesPublished, forceRefreshToken,
                   wantRefresh, target, call, queueVars, stopped, deviceVars, worldVars,
                   boundVars>>

ResetPublishing == ready' = NothingReady

CheckInitialized ==
    /\ pc = "check"
    /\ ~reconnect
    /\ cfg.cloud = NoCloud
    /\ ResetPublishing
    /\ pc' = "idle"
    /\ UNCHANGED <<cfg, previousCloudIDs, creds, client, signedIn, flagVars, wantRefresh, target,
                   call, queueVars, stopped, conn, deviceVars, worldVars, boundVars>>

CheckSignedIn ==
    /\ pc = "check"
    /\ ~reconnect
    /\ cfg.cloud # NoCloud
    /\ IF signedIn THEN UNCHANGED ready ELSE ResetPublishing
    /\ pc' = "connect"
    /\ UNCHANGED <<cfg, previousCloudIDs, creds, client, signedIn, flagVars, wantRefresh, target,
                   call, queueVars, stopped, conn, deviceVars, worldVars, boundVars>>

------------------------------------------------------------------------------
(* connect and dial                                                         *)

IsCredsExpiring == creds # NoCreds /\ creds.expiring
FirstStep(refresh) == IF refresh THEN "refreshToken" ELSE "signUp"

DecidesRefresh == IsCredsExpiring \/ forceRefreshToken

Alive == client # NoConn /\ conn[client].open

\* An open connection is kept, whatever cloud is configured now.
UseConnection ==
    /\ pc = "connect"
    /\ Alive
    /\ pc' = FirstStep(DecidesRefresh)
    /\ forceRefreshToken' = FALSE
    /\ UNCHANGED <<privateVars, resourcesPublished, reconnect, wantRefresh, target, call, queueVars, stopped,
                   conn, deviceVars, worldVars, boundVars>>

\* Otherwise what is left of the old one is closed and the cloud is dialled;
\* without a URL there is no address to dial.
StartDial ==
    /\ pc = "connect"
    /\ ~Alive
    /\ forceRefreshToken' = FALSE
    /\ CloseClient
    /\ target' = cfg.cloud
    /\ wantRefresh' = (cfg.cloud # NoCloud /\ DecidesRefresh)
    /\ pc' = IF cfg.cloud = NoCloud THEN "idle" ELSE "dial"
    /\ UNCHANGED <<cfg, previousCloudIDs, ready, creds, resourcesPublished, reconnect, call,
                   queueVars, stopped, deviceVars, worldVars, boundVars>>

\* Nothing refers to connection k any more: its identity can be reused.
Free(k) == ~conn[k].open /\ ~conn[k].hook /\ client # k /\ call.conn # k

\* The cloud's certificate is verified against the CA pool only: that its id is
\* not the one configured by now is found and ignored (NewVerifyPeerCertificate
\* returns another error, which is nil).  A connection that is lost before
\* AddOnClose is called has no callback to run.
Dialled(k, alive) ==
    /\ pc = "dial"
    /\ Free(k)
    /\ target \in trusted
    /\ conn' = [conn EXCEPT ![k] = [cloud |-> target, open |-> alive, hook |-> alive,
                                    session |-> FALSE]]
    /\ ReplaceClient(k)
    /\ target' = NoCloud
    /\ wantRefresh' = FALSE
    /\ pc' = FirstStep(wantRefresh)
    /\ UNCHANGED <<cfg, previousCloudIDs, ready, creds, flagVars, call, queueVars,
                   stopped, deviceVars, worldVars, boundVars>>

Dial(k) == Dialled(k, TRUE)
DialLost(k) == "lose" \in Faults /\ Dialled(k, FALSE)

DialFails ==
    /\ pc = "dial"
    /\ "dial" \in Faults \/ target \notin trusted
    /\ target' = NoCloud
    /\ wantRefresh' = FALSE
    /\ pc' = "idle"
    /\ UNCHANGED <<privateVars, flagVars, call, queueVars, stopped, conn,
                   deviceVars, worldVars, boundVars>>

------------------------------------------------------------------------------
(* refreshToken, signUp, signIn, publishResources, unpublishResources       *)

FailUnchanged == <<cfg, previousCloudIDs, creds, resourcesPublished, reconnect, wantRefresh,
                   target, queueVars, stopped, deviceVars, worldVars, boundVars>>

\* refreshToken or signIn was refused for good: cleanup forgets the cloud,
\* and connect then fails.
Cleanup ==
    /\ cfg' = NoConfig
    /\ ready' = NothingReady
    /\ creds' = NoCreds
    /\ resourcesPublished' = FALSE
    /\ forceRefreshToken' = FALSE
    /\ reconnect' = FALSE
    /\ Save(NoCloud, NoCreds)
    /\ RemoveCloudCAs(previousCloudIDs \cup ({cfg.cloud} \ {NoCloud}))
    /\ previousCloudIDs' = {}
    /\ Enqueue(FALSE)
    /\ lostReset' = FALSE
    /\ Fail
    /\ UNCHANGED <<wantRefresh, target, stopped, deviceVars, rd, boundVars>>

NeedsRefresh == creds # NoCreds /\ creds.refresh

RefreshTokenSkip ==
    /\ Entering("refreshToken")
    /\ ~NeedsRefresh
    /\ Proceed("signUp")
    /\ UNCHANGED <<privateVars, flagVars, wantRefresh, target, queueVars, stopped, conn,
                   deviceVars, worldVars, boundVars>>

RefreshToken ==
    /\ Entering("refreshToken")
    /\ NeedsRefresh
    /\ SendRequest("refreshToken", {})
    /\ SetProvisioningStatus("registering")
    /\ UNCHANGED <<previousCloudIDs, ready, creds, client, signedIn, flagVars, pc, wantRefresh,
                   target, queueVars, stopped, conn, deviceVars, worldVars, boundVars>>

\* The answer's refresh token is stored, and may be empty.
RefreshTokenDone ==
    /\ Returned("refreshToken", "ok")
    /\ \E refresh \in BOOLEAN : creds' = [creds EXCEPT !.expiring = FALSE, !.refresh = refresh]
    /\ signedIn' = FALSE
    /\ Save(cfg.cloud, creds')
    /\ Proceed("signUp")
    /\ UNCHANGED <<cfg, previousCloudIDs, ready, client, flagVars, wantRefresh, target,
                   queueVars, stopped, conn, deviceVars, trusted, rd, boundVars>>

RefreshTokenRefused ==
    /\ Returned("refreshToken", "unauthorized")
    /\ Cleanup

SignUpSkip ==
    /\ Entering("signUp")
    /\ creds # NoCreds
    /\ Proceed("signIn")
    /\ UNCHANGED <<privateVars, flagVars, wantRefresh, target, queueVars, stopped, conn,
                   deviceVars, worldVars, boundVars>>

SignUp ==
    /\ Entering("signUp")
    /\ creds = NoCreds
    /\ cfg.code
    /\ SendRequest("signUp", {})
    /\ SetProvisioningStatus("registering")
    /\ UNCHANGED <<previousCloudIDs, ready, creds, client, signedIn, flagVars, pc, wantRefresh,
                   target, queueVars, stopped, conn, deviceVars, worldVars, boundVars>>

\* The credentials belong to the cloud at the other end of the connection.
SignUpDone ==
    /\ Returned("signUp", "ok")
    /\ \E refresh \in BOOLEAN :
          creds' = [cloud |-> conn[call.conn].cloud, refresh |-> refresh, expiring |-> FALSE]
    /\ signedIn' = FALSE
    /\ Save(cfg.cloud, creds')
    /\ Proceed("signIn")
    /\ UNCHANGED <<cfg, previousCloudIDs, ready, client, flagVars, wantRefresh, target,
                   queueVars, stopped, conn, deviceVars, trusted, rd, boundVars>>
\* Mutation: credentials are taken for a session.
SignInSkipsAlways ==
    /\ Entering("signIn")
    /\ client # NoConn
    /\ Proceed("publish")
    /\ UNCHANGED <<privateVars, flagVars, wantRefresh, target, queueVars, stopped, conn,
                   deviceVars, worldVars, boundVars>>

SignInSkip ==
    /\ Entering("signIn")
    /\ client # NoConn
    /\ signedIn
    /\ Proceed("publish")
    /\ UNCHANGED <<privateVars, flagVars, wantRefresh, target, queueVars, stopped, conn,
                   deviceVars, worldVars, boundVars>>

SignIn ==
    /\ Entering("signIn")
    /\ ~signedIn
    /\ SendRequest("signIn", {})
    /\ SetProvisioningStatus("registering")
    /\ UNCHANGED <<previousCloudIDs, ready, creds, client, signedIn, flagVars, pc, wantRefresh,
                   target, queueVars, stopped, conn, deviceVars, worldVars, boundVars>>

SignInDone ==
    /\ Returned("signIn", "ok")
    /\ creds' = [creds EXCEPT !.expiring = FALSE]
    /\ signedIn' = TRUE
    /\ Save(cfg.cloud, creds')
    /\ Proceed("publish")
    /\ UNCHANGED <<cfg, previousCloudIDs, ready, client, flagVars, wantRefresh, target,
                   queueVars, stopped, conn, deviceVars, trusted, rd, boundVars>>

\* Refused: with a refresh token the next connect refreshes the token first,
\* without one the registration is given up.
SignInRefused ==
    /\ Returned("signIn", "unauthorized")
    /\ \/ /\ creds.refresh
          /\ forceRefreshToken' = TRUE
          /\ Fail
          /\ UNCHANGED <<ready, FailUnchanged>>
       \/ /\ ~creds.refresh
          /\ Cleanup

LinksToPublish == IF resourcesPublished THEN ready.pub \cap res ELSE res
PopReadyToPublish == ready' = [ready EXCEPT !.pub = {}]

PublishSkip ==
    /\ Entering("publish")
    /\ LinksToPublish = {}
    /\ PopReadyToPublish
    /\ Proceed("unpublish")
    /\ UNCHANGED <<cfg, previousCloudIDs, creds, client, signedIn, flagVars, wantRefresh, target,
                   queueVars, stopped, conn, deviceVars, worldVars, boundVars>>

Publish ==
    /\ Entering("publish")
    /\ LinksToPublish # {}
    /\ PopReadyToPublish
    /\ SendRequest("publish", LinksToPublish)
    /\ UNCHANGED <<cfg, previousCloudIDs, creds, client, signedIn, flagVars, pc, wantRefresh,
                   target, queueVars, stopped, conn, deviceVars, worldVars, boundVars>>

PublishDone ==
    /\ Returned("publish", "ok")
    /\ resourcesPublished' = TRUE
    /\ Proceed("unpublish")
    /\ UNCHANGED <<privateVars, forceRefreshToken, reconnect, wantRefresh, target, queueVars,
                   stopped, conn, deviceVars, worldVars, boundVars>>

\* popReadyToUnpublishResources takes any UnpublishBatch of them.
Batches == {b \in SUBSET ready.unpub :
              \/ Cardinality(b) = UnpublishBatch
              \/ b = ready.unpub /\ Cardinality(b) < UnpublishBatch}
PopReadyToUnpublish(b) == ready' = [ready EXCEPT !.unpub = @ \ b]

UnpublishSkip ==
    /\ Entering("unpublish")
    /\ ready.unpub = {}
    /\ Proceed("finish")
    /\ UNCHANGED <<privateVars, flagVars, wantRefresh, target, queueVars, stopped, conn,
                   deviceVars, worldVars, boundVars>>

Unpublish ==
    /\ Entering("unpublish")
    /\ ready.unpub # {}
    /\ \E b \in Batches : PopReadyToUnpublish(b) /\ SendRequest("unpublish", b)
    /\ UNCHANGED <<cfg, previousCloudIDs, creds, client, signedIn, flagVars, pc, wantRefresh,
                   target, queueVars, stopped, conn, deviceVars, worldVars, boundVars>>

UnpublishDone ==
    /\ Returned("unpublish", "ok")
    /\ Proceed("unpublish")
    /\ UNCHANGED <<privateVars, flagVars, wantRefresh, target, queueVars, stopped, conn,
                   deviceVars, worldVars, boundVars>>

\* A step that finds no connection, or signUp without an authorization code,
\* fails; what publish and unpublish had already taken is gone.
StepImpossible ==
    /\ \/ Entering("refreshToken") /\ NeedsRefresh /\ client = NoConn /\ UNCHANGED ready
       \/ Entering("signUp") /\ creds = NoCreds /\ (~cfg.code \/ client = NoConn)
          /\ UNCHANGED ready
       \/ Entering("signIn") /\ client = NoConn /\ UNCHANGED ready
       \/ Entering("publish") /\ LinksToPublish # {} /\ client = NoConn /\ PopReadyToPublish
       \/ Entering("unpublish") /\ ready.unpub # {} /\ client = NoConn
          /\ \E b \in Batches : PopReadyToUnpublish(b)
    /\ Fail
    /\ UNCHANGED <<forceRefreshToken, FailUnchanged>>

\* Do returned an error or an unexpected code.
StepRefused ==
    /\ \/ \E op \in Requests \ {"signOff"} : Returned(op, "error")
       \/ \E op \in {"signUp", "publish", "unpublish"} : Returned(op, "unauthorized")
    /\ Fail
    /\ UNCHANGED <<ready, forceRefreshToken, FailUnchanged>>

\* connect succeeded.
Finish ==
    /\ pc = "finish"
    /\ SetProvisioningStatus("registered")
    /\ pc' = "idle"
    /\ UNCHANGED <<previousCloudIDs, ready, creds, client, signedIn, flagVars, wantRefresh,
                   target, call, queueVars, stopped, conn, deviceVars, worldVars, boundVars>>

LoopStep ==
    \/ HandleTrigger \/ HandleTimer \/ HandleDone
    \/ SignOffSkip \/ SignOff \/ SignOffDone \/ ResetCredentials
    \/ CheckReconnect \/ CheckInitialized \/ CheckSignedIn
    \/ UseConnection \/ StartDial \/ (\E k \in Conns : Dial(k) \/ DialLost(k)) \/ DialFails
    \/ RefreshTokenSkip \/ RefreshToken \/ RefreshTokenDone \/ RefreshTokenRefused
    \/ SignUpSkip \/ SignUp \/ SignUpDone
    \/ SignInSkip \/ SignIn \/ SignInDone \/ SignInRefused
    \/ PublishSkip \/ Publish \/ PublishDone
    \/ UnpublishSkip \/ Unpublish \/ UnpublishDone
    \/ StepImpossible \/ StepRefused \/ Finish

------------------------------------------------------------------------------
(* The connection and the cloud                                             *)

\* The peer, the network or the keepalive closes the connection.
LoseConnection(k) ==
    /\ "lose" \in Faults
    /\ conn[k].open
    /\ conn' = [conn EXCEPT ![k].open = FALSE]
    /\ UNCHANGED <<privateVars, flagVars, loopVars, queueVars, stopped, deviceVars, worldVars,
                   boundVars>>

\* The callback dial registered runs, some time after the connection closed,
\* and looks whether the connection is still the client.
OwnsClient(k) == client = k
OnClose(k) ==
    /\ ~conn[k].open
    /\ conn[k].hook
    /\ IF OwnsClient(k) THEN ReplaceClient(NoConn) ELSE UNCHANGED <<client, signedIn>>
    /\ conn' = [conn EXCEPT ![k].hook = FALSE, ![k].session = FALSE]
    /\ UNCHANGED <<cfg, previousCloudIDs, ready, creds, flagVars, loopVars, queueVars, stopped,
                   deviceVars, worldVars, boundVars>>

\* The cloud carries out a request and answers.
CloudAccepts ==
    /\ call.reply = "sent"
    /\ conn[call.conn].open
    /\ call' = [call EXCEPT !.reply = "ok"]
    /\ conn' = IF call.op = "signIn" THEN [conn EXCEPT ![call.conn].session = TRUE] ELSE conn
    /\ rd' = [rd EXCEPT ![conn[call.conn].cloud] =
                CASE call.op = "signOff"   -> {}
                  [] call.op = "publish"   -> @ \cup call.hrefs
                  [] call.op = "unpublish" -> @ \ call.hrefs
                  [] OTHER                 -> @]
    /\ UNCHANGED <<privateVars, flagVars, pc, wantRefresh, target, queueVars, stopped,
                   deviceVars, trusted, saved, boundVars>>

\* The cloud refuses it.
CloudRefuses(r) ==
    /\ r \in Faults \cap {"error", "unauthorized"}
    /\ call.reply = "sent"
    /\ conn[call.conn].open
    /\ call' = [call EXCEPT !.reply = r]
    /\ UNCHANGED <<privateVars, flagVars, pc, wantRefresh, target, queueVars, stopped, conn,
                   deviceVars, worldVars, boundVars>>

\* Do gives up, before or after the cloud answered: its context expires or
\* the connection is closed.
CallFails ==
    /\ call.reply \in {"sent", "ok"}
    /\ "timeout" \in Faults \/ ~conn[call.conn].open
    /\ call' = [call EXCEPT !.reply = "error"]
    /\ UNCHANGED <<privateVars, flagVars, pc, wantRefresh, target, queueVars, stopped, conn,
                   deviceVars, worldVars, boundVars>>

\* Time passes: the token comes close to its end.
Expire ==
    /\ "expire" \in Faults
    /\ creds # NoCreds /\ ~creds.expiring
    /\ creds' = [creds EXCEPT !.expiring = TRUE]
    /\ UNCHANGED <<cfg, previousCloudIDs, ready, client, signedIn, flagVars, loopVars, queueVars,
                   stopped, conn, deviceVars, worldVars, boundVars>>

\* The process stops anywhere and New and Init run again on what was saved.
Crash ==
    /\ crashes < MaxCrashes
    /\ crashes' = crashes + 1
    /\ cfg' = ImportConfig(saved)
    /\ creds' = saved.creds
    /\ previousCloudIDs' = {}
    /\ ready' = NothingReady
    /\ client' = NoConn
    /\ signedIn' = FALSE
    /\ resourcesPublished' = FALSE
    /\ forceRefreshToken' = FALSE
    /\ reconnect' = FALSE
    /\ trigger' = InitialTrigger(saved)
    /\ lostReset' = FALSE
    /\ stopped' = FALSE
    /\ pc' = "idle"
    /\ wantRefresh' = FALSE
    /\ target' = NoCloud
    /\ call' = NoCall
    /\ conn' = [k \in Conns |-> UnusedConn]
    /\ adding' = {}
    /\ deleting' = {}
    /\ posting' = 0
    /\ UNCHANGED <<res, worldVars, posts, reconnects>>

World ==
    \/ \E k \in Conns : LoseConnection(k) \/ OnClose(k)
    \/ CloudAccepts \/ (\E r \in Replies : CloudRefuses(r)) \/ CallFails
    \/ Expire \/ Crash

------------------------------------------------------------------------------
Next == API \/ LoopStep \/ World

Spec == Init /\ [][Next]_vars

\* The loop's handlers run whenever they can, requests are answered or fail,
\* a connection's callback runs, and the API calls finish.  reflect.Select
\* chooses at random, so no ready channel is passed over for ever.
Fairness ==
    /\ WF_vars(LoopStep)
    /\ SF_vars(HandleTrigger) /\ SF_vars(HandleTimer)
    /\ WF_vars(CloudAccepts \/ CallFails)
    /\ \A k \in Conns : WF_vars(OnClose(k))
    /\ WF_vars(TriggerReset)
    /\ \A h \in Hrefs : WF_vars(PublishResources(h)) /\ WF_vars(UnpublishResources(h))

FairSpec == Spec /\ Fairness

------------------------------------------------------------------------------
(* Properties                                                               *)

\* signedIn is about the connection the manager uses now: it is never carried
\* over to another connection, although sign-in responses, reconnects, resets
\* and the callback of an older connection all write client and signedIn.
SessionOnOwnConnection ==
    signedIn /\ client # NoConn => conn[client].session

\* Publishing, unpublishing and the calls that follow sign in are only sent
\* over a connection on which this device has signed in.
PublishOnlyInSession ==
    call.op \in {"publish", "unpublish"} => conn[call.conn].session \/ ~conn[call.conn].open

\* After the configuration has changed, credentials and connections of another
\* cloud are kept only while the reset that drops them is on its way, unless
\* the trigger channel was full when the reset was asked for.
ResetOnItsWay ==
    \/ posting > 0
    \/ \E i \in 1 .. Len(trigger) : trigger[i]
    \/ pc \in {"signOff", "reset"}
StaleRegistration ==
    \/ creds # NoCreds /\ creds.cloud # cfg.cloud
    \/ client # NoConn /\ conn[client].cloud # cfg.cloud
StaleRegistrationIsReset == StaleRegistration /\ ~lostReset => ResetOnItsWay

\* Nothing is in progress and nothing is asked for.
Quiet == pc = "idle" /\ trigger = <<>> /\ posting = 0 /\ adding = {} /\ deleting = {}

\* Once quiet, the resource directory of the cloud the device is signed in to
\* lists exactly the device's resources, however the additions, deletions and
\* changes of cloud raced with the publishing, and a cloud that the device has
\* left lists none of them.
DirectoryMatchesDevice ==
    Quiet /\ ~lostReset =>
        /\ signedIn => rd[cfg.cloud] = res
        /\ \A c \in Clouds \ {cfg.cloud} : rd[c] = {}

\* Unregistered and quiet, the manager has no credentials and no connection,
\* and says so.
UnregisteredIsClean ==
    Quiet /\ cfg.cloud = NoCloud /\ ~lostReset =>
        creds = NoCreds /\ client = NoConn /\ cfg.status = "uninitialized"

\* A device that can register with the configured cloud ends up signed in
\* there, also after a restart.  It cannot when its CA is not in the pool, or
\* about to be removed: a second Post for the same cloud makes that cloud its
\* own predecessor, whose CA the reset removes.
Trusted(c) == c \in trusted /\ (ManagedCAs => c \notin previousCloudIDs)
CanRegister(c) ==
    /\ cfg.cloud = c
    /\ Trusted(c)
    /\ pc # "closed" /\ ~stopped /\ ~lostReset
    /\ cfg.code \/ (creds # NoCreds /\ creds.cloud = c)
SignedInAt(c) == signedIn /\ client # NoConn /\ conn[client].cloud = c
RegistersWithCloud == \A c \in Clouds : CanRegister(c) ~> SignedInAt(c) \/ ~CanRegister(c)

\* A device whose configuration was removed drops its credentials and its
\* connection, whatever the cloud answers.
Unregistered == creds = NoCreds /\ client = NoConn
UnregisterCompletes ==
    cfg.cloud = NoCloud ~> Unregistered \/ cfg.cloud # NoCloud \/ lostReset \/ stopped
==============================================================================
