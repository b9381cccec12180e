-------------------------- MODULE CloudManagerProofs --------------------------
(***************************************************************************)
(* Proofs about CloudManager for every set of clouds, resources and        *)
(* connections, every capacity of the trigger channel and every set of     *)
(* faults: type correctness, that signedIn always speaks of the connection *)
(* in use, that resources are published in a session only, and, until the  *)
(* first restart, that a registration with a cloud that is not configured  *)
(* any more is being reset and that nothing of it is left in the end.      *)
(* When no request fails, the resource directory of the cloud matches the  *)
(* device's resources once nothing is in progress.                         *)
(***************************************************************************)
EXTENDS CloudManager, TLAPS

\* The loop waits for at most one request, the one of the step it is in.
CallInStep == call # NoCall => call \in PendingCall /\ call.op = pc

\* While the loop waits, only the OnClose callback touches the client.
CallOnClient == call # NoCall => client \in {call.conn, NoConn}

\* The steps after signUp have credentials, and so has a refresh in progress.
CredsInStep ==
    /\ pc = "signIn" => creds # NoCreds
    /\ call.op = "refreshToken" => creds # NoCreds

\* A connection somebody refers to leads to a cloud.
ConnHasCloud ==
    /\ client # NoConn => conn[client].cloud \in Clouds
    /\ call # NoCall => conn[call.conn].cloud \in Clouds

\* An accepted sign-in has opened a session on the connection it was sent over.
AcceptedSignIn ==
    call.op = "signIn" /\ call.reply = "ok" /\ client = call.conn => conn[client].session

ControlInv ==
    /\ CallInStep
    /\ CallOnClient
    /\ CredsInStep
    /\ ConnHasCloud
    /\ AcceptedSignIn
    /\ SessionOnOwnConnection

IInv == TypeOK /\ ControlInv

(* Facts about the helpers *)

\* A sequence stays one of its elements' type when one is appended.
LEMMA AppendType ==
    ASSUME NEW S, NEW s \in Seq(S), NEW x \in S
    PROVE  Append(s, x) \in Seq(S) /\ Len(Append(s, x)) = Len(s) + 1
  OBVIOUS

\* triggerRunner never exceeds the channel's capacity.
LEMMA EnqueueType ==
    ASSUME QueueTypes, NEW b \in BOOLEAN, Enqueue(b)
    PROVE  trigger' \in Seq(BOOLEAN) /\ Len(trigger') <= TriggerCap
<1>1. Len(trigger) \in Nat /\ Len(trigger) <= TriggerCap
  BY DEF QueueTypes
<1>2. CASE QueueFull
  BY <1>2 DEF QueueTypes, Enqueue
<1>3. CASE ~QueueFull
  <2>1. Append(trigger, b) \in Seq(BOOLEAN) /\ Len(Append(trigger, b)) = Len(trigger) + 1
    BY AppendType DEF QueueTypes
  <2>2. trigger' = Append(trigger, b)
    BY <1>3 DEF Enqueue
  <2>3. Len(trigger) + 1 <= TriggerCap
    BY <1>1, <1>3, CapsAssumption DEF QueueFull
  <2> QED
    BY <2>1, <2>2, <2>3
<1> QED
  BY <1>2, <1>3

\* Receiving a trigger leaves a shorter queue of the same type.
LEMMA DequeueType ==
    ASSUME QueueTypes, trigger # <<>>
    PROVE  /\ Tail(trigger) \in Seq(BOOLEAN) /\ Len(Tail(trigger)) <= TriggerCap
           /\ Head(trigger) \in BOOLEAN
  BY CapsAssumption DEF QueueTypes

\* close leaves a well-typed client and connections.
LEMMA CloseClientType ==
    ASSUME ClientTypes, CloseClient
    PROVE  ClientTypes'
  BY DEF ClientTypes, CloseClient, ReplaceClient, Connection

\* A request that is sent is a pending call on the client's connection.
LEMMA SendRequestType ==
    ASSUME ClientTypes, NEW op \in Requests, NEW hrefs \in SUBSET Hrefs, SendRequest(op, hrefs)
    PROVE  call' \in PendingCall /\ call'.op = op /\ call'.conn = client
  BY DEF ClientTypes, SendRequest, PendingCall

\* No pending call is mistaken for none.
LEMMA NoCallIsNot == NoCall \notin PendingCall
  BY DEF NoCall, PendingCall, Requests

\* What is saved is a configuration with its credentials.
LEMMA SaveType ==
    ASSUME NEW c \in Clouds \cup {NoCloud}, NEW cr \in Creds \cup {NoCreds}, Save(c, cr)
    PROVE  saved' \in Persisted
  BY DEF Save, Persisted

\* Changing expiring leaves credentials, of the same cloud.
LEMMA CredsFields ==
    ASSUME NEW cr \in Creds
    PROVE  /\ [cr EXCEPT !.expiring = FALSE] \in Creds
           /\ [cr EXCEPT !.expiring = TRUE] \in Creds
           /\ cr.refresh \in BOOLEAN
  BY DEF Creds

\* So does a refreshed token, with or without another refresh token.
LEMMA RefreshedFields ==
    ASSUME NEW cr \in Creds, NEW refresh \in BOOLEAN
    PROVE  /\ [cr EXCEPT !.expiring = FALSE, !.refresh = refresh] \in Creds
           /\ [cr EXCEPT !.expiring = FALSE, !.refresh = refresh].cloud = cr.cloud
  BY DEF Creds

LEMMA RefreshedCreds ==
    ASSUME CredsTypes, creds # NoCreds, RefreshTokenDone
    PROVE  creds' \in Creds /\ creds' # NoCreds /\ creds'.cloud = creds.cloud
<1>1. creds \in Creds
  BY DEF CredsTypes
<1>2. PICK refresh \in BOOLEAN : creds' = [creds EXCEPT !.expiring = FALSE, !.refresh = refresh]
  BY DEF RefreshTokenDone
<1>3. creds' \in Creds /\ creds'.cloud = creds.cloud
  BY <1>1, <1>2, RefreshedFields
<1>4. NoCreds \notin Creds
  BY CredsAssumption DEF Creds
<1> QED
  BY <1>3, <1>4

\* A sequence of one element.
LEMMA SingletonType == ASSUME NEW S, NEW x \in S PROVE <<x>> \in Seq(S) /\ Len(<<x>>) = 1
  OBVIOUS

\* What Init puts into the trigger channel fits.
LEMMA InitialTriggerType ==
    ASSUME NEW s PROVE InitialTrigger(s) \in Seq(BOOLEAN) /\ Len(InitialTrigger(s)) <= TriggerCap
<1>1. <<FALSE>> \in Seq(BOOLEAN) /\ Len(<<FALSE>>) = 1
  BY SingletonType
<1>2. <<>> \in Seq(BOOLEAN) /\ Len(<<>>) = 0
  OBVIOUS
<1>3. CASE s.cloud = NoCloud
  BY <1>2, <1>3, CapsAssumption DEF InitialTrigger
<1>4. CASE s.cloud # NoCloud
  BY <1>1, <1>4, CapsAssumption DEF InitialTrigger
<1> QED
  BY <1>3, <1>4

\* cleanup, after an answer that refuses the credentials, preserves it.
LEMMA CleanupStep == ASSUME IInv, call # NoCall, Cleanup PROVE IInv'
<1> USE NullsAssumption DEF Statuses, Config, Creds, Connection, Requests, Replies, PendingCall, Steps, Persisted, NoCall, NoConfig, NothingReady, UnusedConn, privateVars, flagVars, loopVars, queueVars, deviceVars, worldVars, boundVars
<1>1. ClientTypes'
  BY CloseClientType DEF IInv, TypeOK, Cleanup, Fail
<1>2. QueueTypes'
  BY EnqueueType DEF IInv, TypeOK, QueueTypes, Cleanup
<1>3. WorldTypes'
  BY SaveType DEF IInv, TypeOK, WorldTypes, Cleanup, RemoveCloudCAs
<1>4. ConfigTypes' /\ CredsTypes' /\ FlagTypes' /\ LoopTypes'
  BY DEF IInv, TypeOK, ConfigTypes, CredsTypes, FlagTypes, LoopTypes, Cleanup, Fail
<1>5. DeviceTypes' /\ BoundTypes'
  BY DEF IInv, TypeOK, DeviceTypes, BoundTypes, Cleanup
<1>6. ControlInv'
  BY <1>1, <1>4 DEF ControlInv, CallInStep, CallOnClient, CredsInStep, ConnHasCloud, AcceptedSignIn,
     SessionOnOwnConnection, Cleanup, Fail, CloseClient, ReplaceClient
<1> QED
  BY <1>1, <1>2, <1>3, <1>4, <1>5, <1>6 DEF IInv, TypeOK

\* Calls from other goroutines preserve the invariant.
LEMMA APIStep == IInv /\ API => IInv'
<1> SUFFICES ASSUME IInv PROVE API => IInv'
  OBVIOUS
<1> USE NullsAssumption, CapsAssumption, BoundsAssumption, NoCallIsNot
        DEF Statuses, Config, Creds, Connection, Requests, Replies, PendingCall, Steps,
           Persisted, NoCall, NoConfig, NothingReady, UnusedConn, privateVars, flagVars,
           loopVars, queueVars, deviceVars, worldVars, boundVars
<1> USE DEF CallInStep, CallOnClient, CredsInStep, ConnHasCloud, AcceptedSignIn,
   SessionOnOwnConnection
<1>1. ASSUME Unregister PROVE IInv'
  <2>1. ConfigTypes' /\ CredsTypes' /\ ClientTypes' /\ FlagTypes' /\ QueueTypes' /\ LoopTypes'
     /\ DeviceTypes' /\ WorldTypes' /\ BoundTypes'
    BY <1>1 DEF IInv, TypeOK, ConfigTypes, CredsTypes, ClientTypes, FlagTypes, QueueTypes,
       LoopTypes, DeviceTypes, WorldTypes, BoundTypes, Unregister, Configure,
       SetCloudConfiguration
  <2>2. ControlInv'
    BY <1>1, <2>1 DEF IInv, ControlInv, TypeOK, ClientTypes, CredsTypes, LoopTypes, Unregister,
       Configure, SetCloudConfiguration
  <2> QED
    BY <2>1, <2>2 DEF IInv, TypeOK
<1>2. ASSUME TriggerReset PROVE IInv'
  <2>1. QueueTypes'
    BY <1>2, EnqueueType DEF IInv, ControlInv, TypeOK, QueueTypes, TriggerReset, TriggerRunner,
       Enqueue, QueueFull
  <2>2. ConfigTypes' /\ CredsTypes' /\ ClientTypes' /\ FlagTypes' /\ LoopTypes' /\ DeviceTypes'
     /\ WorldTypes' /\ BoundTypes'
    BY <1>2 DEF IInv, TypeOK, ConfigTypes, CredsTypes, ClientTypes, FlagTypes, LoopTypes,
       DeviceTypes, WorldTypes, BoundTypes, TriggerReset, TriggerRunner, Enqueue, QueueFull
  <2>3. ControlInv'
    BY <1>2, <2>1, <2>2 DEF IInv, ControlInv, TypeOK, ClientTypes, CredsTypes, LoopTypes,
       TriggerReset, TriggerRunner, Enqueue, QueueFull
  <2> QED
    BY <2>1, <2>2, <2>3 DEF IInv, TypeOK
<1>3. ASSUME Reconnect PROVE IInv'
  <2>1. QueueTypes'
    BY <1>3, EnqueueType DEF IInv, ControlInv, TypeOK, QueueTypes, Reconnect, TriggerRunner,
       Enqueue, QueueFull
  <2>2. ConfigTypes' /\ CredsTypes' /\ ClientTypes' /\ FlagTypes' /\ LoopTypes' /\ DeviceTypes'
     /\ WorldTypes' /\ BoundTypes'
    BY <1>3 DEF IInv, TypeOK, ConfigTypes, CredsTypes, ClientTypes, FlagTypes, LoopTypes,
       DeviceTypes, WorldTypes, BoundTypes, Reconnect, TriggerRunner, Enqueue, QueueFull
  <2>3. ControlInv'
    BY <1>3, <2>1, <2>2 DEF IInv, ControlInv, TypeOK, ClientTypes, CredsTypes, LoopTypes,
       Reconnect, TriggerRunner, Enqueue, QueueFull
  <2> QED
    BY <2>1, <2>2, <2>3 DEF IInv, TypeOK
<1>4. ASSUME Close PROVE IInv'
  <2>1. ConfigTypes' /\ CredsTypes' /\ ClientTypes' /\ FlagTypes' /\ QueueTypes' /\ LoopTypes'
     /\ DeviceTypes' /\ WorldTypes' /\ BoundTypes'
    BY <1>4 DEF IInv, TypeOK, ConfigTypes, CredsTypes, ClientTypes, FlagTypes, QueueTypes,
       LoopTypes, DeviceTypes, WorldTypes, BoundTypes, Close
  <2>2. ControlInv'
    BY <1>4, <2>1 DEF IInv, ControlInv, TypeOK, ClientTypes, CredsTypes, LoopTypes, Close
  <2> QED
    BY <2>1, <2>2 DEF IInv, TypeOK
<1>5. ASSUME NEW c \in Clouds, Post(c) PROVE IInv'
  <2>1. ConfigTypes' /\ CredsTypes' /\ ClientTypes' /\ FlagTypes' /\ QueueTypes' /\ LoopTypes'
     /\ DeviceTypes' /\ WorldTypes' /\ BoundTypes'
    BY <1>5 DEF IInv, TypeOK, ConfigTypes, CredsTypes, ClientTypes, FlagTypes, QueueTypes,
       LoopTypes, DeviceTypes, WorldTypes, BoundTypes, Post, Configure, SetCloudConfiguration
  <2>2. ControlInv'
    BY <1>5, <2>1 DEF IInv, ControlInv, TypeOK, ClientTypes, CredsTypes, LoopTypes, Post,
       Configure, SetCloudConfiguration
  <2> QED
    BY <2>1, <2>2 DEF IInv, TypeOK
<1>6. ASSUME NEW h \in Hrefs, AddResource(h) PROVE IInv'
  <2>1. ConfigTypes' /\ CredsTypes' /\ ClientTypes' /\ FlagTypes' /\ QueueTypes' /\ LoopTypes'
     /\ DeviceTypes' /\ WorldTypes' /\ BoundTypes'
    BY <1>6 DEF IInv, TypeOK, ConfigTypes, CredsTypes, ClientTypes, FlagTypes, QueueTypes,
       LoopTypes, DeviceTypes, WorldTypes, BoundTypes, AddResource
  <2>2. ControlInv'
    BY <1>6, <2>1 DEF IInv, ControlInv, TypeOK, ClientTypes, CredsTypes, LoopTypes, AddResource
  <2> QED
    BY <2>1, <2>2 DEF IInv, TypeOK
<1>7. ASSUME NEW h \in Hrefs, PublishResources(h) PROVE IInv'
  <2>1. QueueTypes'
    BY <1>7, EnqueueType DEF IInv, ControlInv, TypeOK, QueueTypes, PublishResources,
       TriggerRunner, Enqueue, QueueFull
  <2>2. ConfigTypes' /\ CredsTypes' /\ ClientTypes' /\ FlagTypes' /\ LoopTypes' /\ DeviceTypes'
     /\ WorldTypes' /\ BoundTypes'
    BY <1>7 DEF IInv, TypeOK, ConfigTypes, CredsTypes, ClientTypes, FlagTypes, LoopTypes,
       DeviceTypes, WorldTypes, BoundTypes, PublishResources, TriggerRunner, Enqueue, QueueFull
  <2>3. ControlInv'
    BY <1>7, <2>1, <2>2 DEF IInv, ControlInv, TypeOK, ClientTypes, CredsTypes, LoopTypes,
       PublishResources, TriggerRunner, Enqueue, QueueFull
  <2> QED
    BY <2>1, <2>2, <2>3 DEF IInv, TypeOK
<1>8. ASSUME NEW h \in Hrefs, DeleteResource(h) PROVE IInv'
  <2>1. ConfigTypes' /\ CredsTypes' /\ ClientTypes' /\ FlagTypes' /\ QueueTypes' /\ LoopTypes'
     /\ DeviceTypes' /\ WorldTypes' /\ BoundTypes'
    BY <1>8 DEF IInv, TypeOK, ConfigTypes, CredsTypes, ClientTypes, FlagTypes, QueueTypes,
       LoopTypes, DeviceTypes, WorldTypes, BoundTypes, DeleteResource
  <2>2. ControlInv'
    BY <1>8, <2>1 DEF IInv, ControlInv, TypeOK, ClientTypes, CredsTypes, LoopTypes,
       DeleteResource
  <2> QED
    BY <2>1, <2>2 DEF IInv, TypeOK
<1>9. ASSUME NEW h \in Hrefs, UnpublishResources(h) PROVE IInv'
  <2>1. QueueTypes'
    BY <1>9, EnqueueType DEF IInv, ControlInv, TypeOK, QueueTypes, UnpublishResources,
       TriggerRunner, Enqueue, QueueFull
  <2>2. ConfigTypes' /\ CredsTypes' /\ ClientTypes' /\ FlagTypes' /\ LoopTypes' /\ DeviceTypes'
     /\ WorldTypes' /\ BoundTypes'
    BY <1>9 DEF IInv, TypeOK, ConfigTypes, CredsTypes, ClientTypes, FlagTypes, LoopTypes,
       DeviceTypes, WorldTypes, BoundTypes, UnpublishResources, TriggerRunner, Enqueue,
       QueueFull
  <2>3. ControlInv'
    BY <1>9, <2>1, <2>2 DEF IInv, ControlInv, TypeOK, ClientTypes, CredsTypes, LoopTypes,
       UnpublishResources, TriggerRunner, Enqueue, QueueFull
  <2> QED
    BY <2>1, <2>2, <2>3 DEF IInv, TypeOK
<1> QED
  BY <1>1, <1>2, <1>3, <1>4, <1>5, <1>6, <1>7, <1>8, <1>9 DEF API

\* The event loop's handlers up to connect preserve it.
LEMMA HandlerStep ==
    IInv /\ (HandleTrigger \/ HandleTimer \/ HandleDone \/ SignOffSkip \/ SignOff \/ SignOffDone \/ ResetCredentials \/ CheckReconnect \/ CheckInitialized \/ CheckSignedIn) => IInv'
<1> USE NullsAssumption, CapsAssumption, BoundsAssumption, NoCallIsNot
        DEF Statuses, Config, Creds, Connection, Requests, Replies, PendingCall, Steps,
           Persisted, NoCall, NoConfig, NothingReady, UnusedConn, privateVars, flagVars,
           loopVars, queueVars, deviceVars, worldVars, boundVars
<1> USE DEF CallInStep, CallOnClient, CredsInStep, ConnHasCloud, AcceptedSignIn,
   SessionOnOwnConnection
<1>1. ASSUME IInv, HandleTrigger PROVE IInv'
  <2>1. QueueTypes'
    BY <1>1, DequeueType DEF IInv, ControlInv, TypeOK, QueueTypes, HandleTrigger
  <2>2. LoopTypes'
    BY <1>1 DEF IInv, ControlInv, TypeOK, LoopTypes, HandleTrigger
  <2>3. ConfigTypes' /\ CredsTypes' /\ ClientTypes' /\ DeviceTypes' /\ WorldTypes'
    BY <1>1 DEF IInv, TypeOK, ConfigTypes, CredsTypes, ClientTypes, DeviceTypes, WorldTypes,
       HandleTrigger
  <2>4. FlagTypes' /\ BoundTypes'
    BY <1>1 DEF IInv, TypeOK, FlagTypes, BoundTypes, HandleTrigger
  <2>5. ControlInv'
    BY <1>1, <2>1, <2>2, <2>3, <2>4 DEF IInv, ControlInv, TypeOK, ClientTypes, CredsTypes,
       LoopTypes, HandleTrigger
  <2> QED
    BY <2>1, <2>2, <2>3, <2>4, <2>5 DEF IInv, TypeOK
<1>2. ASSUME IInv, HandleTimer PROVE IInv'
  <2>1. LoopTypes'
    BY <1>2 DEF IInv, ControlInv, TypeOK, LoopTypes, HandleTimer
  <2>2. ConfigTypes' /\ CredsTypes' /\ ClientTypes' /\ FlagTypes' /\ QueueTypes' /\ DeviceTypes'
     /\ WorldTypes' /\ BoundTypes'
    BY <1>2 DEF IInv, TypeOK, ConfigTypes, CredsTypes, ClientTypes, FlagTypes, QueueTypes,
       DeviceTypes, WorldTypes, BoundTypes, HandleTimer
  <2>3. ControlInv'
    BY <1>2, <2>1, <2>2 DEF IInv, ControlInv, TypeOK, ClientTypes, CredsTypes, LoopTypes,
       HandleTimer
  <2> QED
    BY <2>1, <2>2, <2>3 DEF IInv, TypeOK
<1>3. ASSUME IInv, HandleDone PROVE IInv'
  <2>1. ClientTypes'
    BY <1>3, CloseClientType DEF IInv, ControlInv, TypeOK, ClientTypes, HandleDone, CloseClient,
       ReplaceClient
  <2>2. LoopTypes'
    BY <1>3 DEF IInv, ControlInv, TypeOK, LoopTypes, HandleDone, CloseClient, ReplaceClient
  <2>3. ConfigTypes' /\ CredsTypes' /\ FlagTypes' /\ QueueTypes' /\ DeviceTypes' /\ WorldTypes'
     /\ BoundTypes'
    BY <1>3 DEF IInv, TypeOK, ConfigTypes, CredsTypes, FlagTypes, QueueTypes, DeviceTypes,
       WorldTypes, BoundTypes, HandleDone, CloseClient, ReplaceClient
  <2>4. ControlInv'
    BY <1>3, <2>1, <2>2, <2>3 DEF IInv, ControlInv, TypeOK, ClientTypes, CredsTypes, LoopTypes,
       HandleDone, CloseClient, ReplaceClient
  <2> QED
    BY <2>1, <2>2, <2>3, <2>4 DEF IInv, TypeOK
<1>4. ASSUME IInv, SignOffSkip PROVE IInv'
  <2>1. LoopTypes'
    BY <1>4 DEF IInv, ControlInv, TypeOK, LoopTypes, SignOffSkip, Entering, Proceed
  <2>2. ConfigTypes' /\ CredsTypes' /\ ClientTypes' /\ FlagTypes' /\ QueueTypes' /\ DeviceTypes'
     /\ WorldTypes' /\ BoundTypes'
    BY <1>4 DEF IInv, TypeOK, ConfigTypes, CredsTypes, ClientTypes, FlagTypes, QueueTypes,
       DeviceTypes, WorldTypes, BoundTypes, SignOffSkip, Entering, Proceed
  <2>3. ControlInv'
    BY <1>4, <2>1, <2>2 DEF IInv, ControlInv, TypeOK, ClientTypes, CredsTypes, LoopTypes,
       SignOffSkip, Entering, Proceed
  <2> QED
    BY <2>1, <2>2, <2>3 DEF IInv, TypeOK
<1>5. ASSUME IInv, SignOff PROVE IInv'
  <2>1. LoopTypes'
    BY <1>5, SendRequestType DEF IInv, ControlInv, TypeOK, LoopTypes, ClientTypes, SignOff,
       Entering, SendRequest, SetProvisioningStatus
  <2>2. ConfigTypes' /\ CredsTypes' /\ ClientTypes' /\ FlagTypes' /\ QueueTypes' /\ DeviceTypes'
     /\ WorldTypes' /\ BoundTypes'
    BY <1>5 DEF IInv, TypeOK, ConfigTypes, CredsTypes, ClientTypes, FlagTypes, QueueTypes,
       DeviceTypes, WorldTypes, BoundTypes, SignOff, Entering, SendRequest,
       SetProvisioningStatus
  <2>3. ControlInv'
    BY <1>5, <2>1, <2>2 DEF IInv, ControlInv, TypeOK, ClientTypes, CredsTypes, LoopTypes,
       SignOff, Entering, SendRequest, SetProvisioningStatus
  <2> QED
    BY <2>1, <2>2, <2>3 DEF IInv, TypeOK
<1>6. ASSUME IInv, SignOffDone PROVE IInv'
  <2>1. LoopTypes'
    BY <1>6 DEF IInv, ControlInv, TypeOK, LoopTypes, SignOffDone, Returned, Proceed,
       SetProvisioningStatus
  <2>2. ConfigTypes' /\ CredsTypes' /\ ClientTypes' /\ FlagTypes' /\ QueueTypes' /\ DeviceTypes'
     /\ WorldTypes' /\ BoundTypes'
    BY <1>6 DEF IInv, TypeOK, ConfigTypes, CredsTypes, ClientTypes, FlagTypes, QueueTypes,
       DeviceTypes, WorldTypes, BoundTypes, SignOffDone, Returned, Proceed,
       SetProvisioningStatus
  <2>3. ControlInv'
    BY <1>6, <2>1, <2>2 DEF IInv, ControlInv, TypeOK, ClientTypes, CredsTypes, LoopTypes,
       SignOffDone, Returned, Proceed, SetProvisioningStatus
  <2> QED
    BY <2>1, <2>2, <2>3 DEF IInv, TypeOK
<1>7. ASSUME IInv, ResetCredentials PROVE IInv'
  <2>1. ClientTypes'
    BY <1>7, CloseClientType DEF IInv, ControlInv, TypeOK, ClientTypes, ResetCredentials,
       CloseClient, ReplaceClient, Save, RemoveCloudCAs
  <2>2. WorldTypes'
    BY <1>7, SaveType DEF IInv, ControlInv, TypeOK, WorldTypes, ConfigTypes, ResetCredentials,
       CloseClient, ReplaceClient, Save, RemoveCloudCAs
  <2>3. LoopTypes'
    BY <1>7 DEF IInv, ControlInv, TypeOK, LoopTypes, ResetCredentials, CloseClient,
       ReplaceClient, Save, RemoveCloudCAs
  <2>4. ConfigTypes' /\ CredsTypes' /\ FlagTypes' /\ QueueTypes' /\ DeviceTypes' /\ BoundTypes'
    BY <1>7 DEF IInv, TypeOK, ConfigTypes, CredsTypes, FlagTypes, QueueTypes, DeviceTypes,
       BoundTypes, ResetCredentials, CloseClient, ReplaceClient, Save, RemoveCloudCAs
  <2>5. ControlInv'
    BY <1>7, <2>1, <2>2, <2>3, <2>4 DEF IInv, ControlInv, TypeOK, ClientTypes, CredsTypes,
       LoopTypes, ResetCredentials, CloseClient, ReplaceClient, Save, RemoveCloudCAs
  <2> QED
    BY <2>1, <2>2, <2>3, <2>4, <2>5 DEF IInv, TypeOK
<1>8. ASSUME IInv, CheckReconnect PROVE IInv'
  <2>1. ClientTypes'
    BY <1>8, CloseClientType DEF IInv, ControlInv, TypeOK, ClientTypes, CheckReconnect,
       CloseClient, ReplaceClient
  <2>2. LoopTypes'
    BY <1>8 DEF IInv, ControlInv, TypeOK, LoopTypes, CheckReconnect, CloseClient, ReplaceClient
  <2>3. ConfigTypes' /\ CredsTypes' /\ QueueTypes' /\ DeviceTypes' /\ WorldTypes'
    BY <1>8 DEF IInv, TypeOK, ConfigTypes, CredsTypes, QueueTypes, DeviceTypes, WorldTypes,
       CheckReconnect, CloseClient, ReplaceClient
  <2>4. FlagTypes' /\ BoundTypes'
    BY <1>8 DEF IInv, TypeOK, FlagTypes, BoundTypes, CheckReconnect, CloseClient, ReplaceClient
  <2>5. ControlInv'
    BY <1>8, <2>1, <2>2, <2>3, <2>4 DEF IInv, ControlInv, TypeOK, ClientTypes, CredsTypes,
       LoopTypes, CheckReconnect, CloseClient, ReplaceClient
  <2> QED
    BY <2>1, <2>2, <2>3, <2>4, <2>5 DEF IInv, TypeOK
<1>9. ASSUME IInv, CheckInitialized PROVE IInv'
  <2>1. LoopTypes'
    BY <1>9 DEF IInv, ControlInv, TypeOK, LoopTypes, CheckInitialized, ResetPublishing
  <2>2. ConfigTypes' /\ CredsTypes' /\ ClientTypes' /\ FlagTypes' /\ QueueTypes' /\ DeviceTypes'
     /\ WorldTypes' /\ BoundTypes'
    BY <1>9 DEF IInv, TypeOK, ConfigTypes, CredsTypes, ClientTypes, FlagTypes, QueueTypes,
       DeviceTypes, WorldTypes, BoundTypes, CheckInitialized, ResetPublishing
  <2>3. ControlInv'
    BY <1>9, <2>1, <2>2 DEF IInv, ControlInv, TypeOK, ClientTypes, CredsTypes, LoopTypes,
       CheckInitialized, ResetPublishing
  <2> QED
    BY <2>1, <2>2, <2>3 DEF IInv, TypeOK
<1>10. ASSUME IInv, CheckSignedIn PROVE IInv'
  <2>1. LoopTypes'
    BY <1>10 DEF IInv, ControlInv, TypeOK, LoopTypes, CheckSignedIn, ResetPublishing
  <2>2. ConfigTypes' /\ CredsTypes' /\ ClientTypes' /\ FlagTypes' /\ QueueTypes' /\ DeviceTypes'
     /\ WorldTypes' /\ BoundTypes'
    BY <1>10 DEF IInv, TypeOK, ConfigTypes, CredsTypes, ClientTypes, FlagTypes, QueueTypes,
       DeviceTypes, WorldTypes, BoundTypes, CheckSignedIn, ResetPublishing
  <2>3. ControlInv'
    BY <1>10, <2>1, <2>2 DEF IInv, ControlInv, TypeOK, ClientTypes, CredsTypes, LoopTypes,
       CheckSignedIn, ResetPublishing
  <2> QED
    BY <2>1, <2>2, <2>3 DEF IInv, TypeOK
<1> QED
  BY <1>1, <1>2, <1>3, <1>4, <1>5, <1>6, <1>7, <1>8, <1>9, <1>10

\* connect and dial preserve it.
LEMMA DialStep ==
    IInv /\ (UseConnection \/ StartDial \/ (\E k \in Conns : Dial(k)) \/ (\E k \in Conns : DialLost(k)) \/ DialFails) => IInv'
<1> USE NullsAssumption, CapsAssumption, BoundsAssumption, NoCallIsNot
        DEF Statuses, Config, Creds, Connection, Requests, Replies, PendingCall, Steps,
           Persisted, NoCall, NoConfig, NothingReady, UnusedConn, privateVars, flagVars,
           loopVars, queueVars, deviceVars, worldVars, boundVars
<1> USE DEF CallInStep, CallOnClient, CredsInStep, ConnHasCloud, AcceptedSignIn,
   SessionOnOwnConnection
<1>1. ASSUME IInv, UseConnection PROVE IInv'
  <2>1. LoopTypes'
    BY <1>1 DEF IInv, ControlInv, TypeOK, LoopTypes, UseConnection, Alive, FirstStep,
       DecidesRefresh, IsCredsExpiring
  <2>2. ConfigTypes' /\ CredsTypes' /\ ClientTypes' /\ QueueTypes' /\ DeviceTypes' /\
     WorldTypes'
    BY <1>1 DEF IInv, TypeOK, ConfigTypes, CredsTypes, ClientTypes, QueueTypes, DeviceTypes,
       WorldTypes, UseConnection, Alive, FirstStep, DecidesRefresh, IsCredsExpiring
  <2>3. FlagTypes' /\ BoundTypes'
    BY <1>1 DEF IInv, TypeOK, FlagTypes, BoundTypes, UseConnection, Alive, FirstStep,
       DecidesRefresh, IsCredsExpiring
  <2>4. ControlInv'
    BY <1>1, <2>1, <2>2, <2>3 DEF IInv, ControlInv, TypeOK, ClientTypes, CredsTypes, LoopTypes,
       UseConnection, Alive, FirstStep, DecidesRefresh, IsCredsExpiring
  <2> QED
    BY <2>1, <2>2, <2>3, <2>4 DEF IInv, TypeOK
<1>2. ASSUME IInv, StartDial PROVE IInv'
  <2>1. ClientTypes'
    BY <1>2, CloseClientType DEF IInv, ControlInv, TypeOK, ClientTypes, StartDial, Alive,
       CloseClient, ReplaceClient, DecidesRefresh, IsCredsExpiring
  <2>2. LoopTypes'
    BY <1>2 DEF IInv, ControlInv, TypeOK, LoopTypes, ConfigTypes, StartDial, Alive, CloseClient,
       ReplaceClient, DecidesRefresh, IsCredsExpiring
  <2>3. ConfigTypes' /\ CredsTypes' /\ QueueTypes' /\ DeviceTypes' /\ WorldTypes'
    BY <1>2 DEF IInv, TypeOK, ConfigTypes, CredsTypes, QueueTypes, DeviceTypes, WorldTypes,
       StartDial, Alive, CloseClient, ReplaceClient, DecidesRefresh, IsCredsExpiring
  <2>4. FlagTypes' /\ BoundTypes'
    BY <1>2 DEF IInv, TypeOK, FlagTypes, BoundTypes, StartDial, Alive, CloseClient,
       ReplaceClient, DecidesRefresh, IsCredsExpiring
  <2>5. ControlInv'
    BY <1>2, <2>1, <2>2, <2>3, <2>4 DEF IInv, ControlInv, TypeOK, ClientTypes, CredsTypes,
       LoopTypes, StartDial, Alive, CloseClient, ReplaceClient, DecidesRefresh, IsCredsExpiring
  <2> QED
    BY <2>1, <2>2, <2>3, <2>4, <2>5 DEF IInv, TypeOK
<1>3. ASSUME IInv, NEW k \in Conns, Dial(k) PROVE IInv'
  <2>1. ClientTypes'
    BY <1>3 DEF IInv, ControlInv, TypeOK, ClientTypes, WorldTypes, Dial, Dialled, Free,
       ReplaceClient, FirstStep
  <2>2. LoopTypes'
    BY <1>3 DEF IInv, ControlInv, TypeOK, LoopTypes, Dial, Dialled, Free, ReplaceClient,
       FirstStep
  <2>3. ConfigTypes' /\ CredsTypes' /\ FlagTypes' /\ QueueTypes' /\ DeviceTypes' /\ WorldTypes'
     /\ BoundTypes'
    BY <1>3 DEF IInv, TypeOK, ConfigTypes, CredsTypes, FlagTypes, QueueTypes, DeviceTypes,
       WorldTypes, BoundTypes, Dial, Dialled, Free, ReplaceClient, FirstStep
  <2>4. ControlInv'
    BY <1>3, <2>1, <2>2, <2>3 DEF IInv, ControlInv, TypeOK, ClientTypes, CredsTypes, LoopTypes,
       WorldTypes, Dial, Dialled, Free, ReplaceClient, FirstStep
  <2> QED
    BY <2>1, <2>2, <2>3, <2>4 DEF IInv, TypeOK
<1>4. ASSUME IInv, NEW k \in Conns, DialLost(k) PROVE IInv'
  <2>1. ClientTypes'
    BY <1>4 DEF IInv, ControlInv, TypeOK, ClientTypes, WorldTypes, DialLost, Dialled, Free,
       ReplaceClient, FirstStep
  <2>2. LoopTypes'
    BY <1>4 DEF IInv, ControlInv, TypeOK, LoopTypes, DialLost, Dialled, Free, ReplaceClient,
       FirstStep
  <2>3. ConfigTypes' /\ CredsTypes' /\ FlagTypes' /\ QueueTypes' /\ DeviceTypes' /\ WorldTypes'
     /\ BoundTypes'
    BY <1>4 DEF IInv, TypeOK, ConfigTypes, CredsTypes, FlagTypes, QueueTypes, DeviceTypes,
       WorldTypes, BoundTypes, DialLost, Dialled, Free, ReplaceClient, FirstStep
  <2>4. ControlInv'
    BY <1>4, <2>1, <2>2, <2>3 DEF IInv, ControlInv, TypeOK, ClientTypes, CredsTypes, LoopTypes,
       WorldTypes, DialLost, Dialled, Free, ReplaceClient, FirstStep
  <2> QED
    BY <2>1, <2>2, <2>3, <2>4 DEF IInv, TypeOK
<1>5. ASSUME IInv, DialFails PROVE IInv'
  <2>1. LoopTypes'
    BY <1>5 DEF IInv, ControlInv, TypeOK, LoopTypes, DialFails
  <2>2. ConfigTypes' /\ CredsTypes' /\ ClientTypes' /\ FlagTypes' /\ QueueTypes' /\ DeviceTypes'
     /\ WorldTypes' /\ BoundTypes'
    BY <1>5 DEF IInv, TypeOK, ConfigTypes, CredsTypes, ClientTypes, FlagTypes, QueueTypes,
       DeviceTypes, WorldTypes, BoundTypes, DialFails
  <2>3. ControlInv'
    BY <1>5, <2>1, <2>2 DEF IInv, ControlInv, TypeOK, ClientTypes, CredsTypes, LoopTypes,
       DialFails
  <2> QED
    BY <2>1, <2>2, <2>3 DEF IInv, TypeOK
<1> QED
  BY <1>1, <1>2, <1>3, <1>4, <1>5

\* The requests of connect preserve it.
LEMMA RequestStep ==
    IInv /\ (RefreshTokenSkip \/ RefreshToken \/ RefreshTokenDone \/ RefreshTokenRefused \/ SignUpSkip \/ SignUp \/ SignUpDone \/ SignInSkip \/ SignIn \/ SignInDone \/ SignInRefused \/ PublishSkip \/ Publish \/ PublishDone \/ UnpublishSkip \/ Unpublish \/ UnpublishDone \/ StepImpossible \/ StepRefused \/ Finish) => IInv'
<1> USE NullsAssumption, CapsAssumption, BoundsAssumption, NoCallIsNot
        DEF Statuses, Config, Creds, Connection, Requests, Replies, PendingCall, Steps,
           Persisted, NoCall, NoConfig, NothingReady, UnusedConn, privateVars, flagVars,
           loopVars, queueVars, deviceVars, worldVars, boundVars
<1> USE DEF CallInStep, CallOnClient, CredsInStep, ConnHasCloud, AcceptedSignIn,
   SessionOnOwnConnection
<1>1. ASSUME IInv, RefreshTokenSkip PROVE IInv'
  <2>1. LoopTypes'
    BY <1>1 DEF IInv, ControlInv, TypeOK, LoopTypes, RefreshTokenSkip, Entering, NeedsRefresh,
       Proceed
  <2>2. ConfigTypes' /\ CredsTypes' /\ ClientTypes' /\ FlagTypes' /\ QueueTypes' /\ DeviceTypes'
     /\ WorldTypes' /\ BoundTypes'
    BY <1>1 DEF IInv, TypeOK, ConfigTypes, CredsTypes, ClientTypes, FlagTypes, QueueTypes,
       DeviceTypes, WorldTypes, BoundTypes, RefreshTokenSkip, Entering, NeedsRefresh, Proceed
  <2>3. ControlInv'
    BY <1>1, <2>1, <2>2 DEF IInv, ControlInv, TypeOK, ClientTypes, CredsTypes, LoopTypes,
       RefreshTokenSkip, Entering, NeedsRefresh, Proceed
  <2> QED
    BY <2>1, <2>2, <2>3 DEF IInv, TypeOK
<1>2. ASSUME IInv, RefreshToken PROVE IInv'
  <2>1. LoopTypes'
    BY <1>2, SendRequestType DEF IInv, ControlInv, TypeOK, LoopTypes, ClientTypes, RefreshToken,
       Entering, NeedsRefresh, SendRequest, SetProvisioningStatus
  <2>2. ConfigTypes' /\ CredsTypes' /\ ClientTypes' /\ FlagTypes' /\ QueueTypes' /\ DeviceTypes'
     /\ WorldTypes' /\ BoundTypes'
    BY <1>2 DEF IInv, TypeOK, ConfigTypes, CredsTypes, ClientTypes, FlagTypes, QueueTypes,
       DeviceTypes, WorldTypes, BoundTypes, RefreshToken, Entering, NeedsRefresh, SendRequest,
       SetProvisioningStatus
  <2>3. ControlInv'
    BY <1>2, <2>1, <2>2 DEF IInv, ControlInv, TypeOK, ClientTypes, CredsTypes, LoopTypes,
       RefreshToken, Entering, NeedsRefresh, SendRequest, SetProvisioningStatus
  <2> QED
    BY <2>1, <2>2, <2>3 DEF IInv, TypeOK
<1>3. ASSUME IInv, RefreshTokenDone PROVE IInv'
  <2>c. creds # NoCreds
    BY <1>3 DEF IInv, ControlInv, CredsInStep, RefreshTokenDone, Returned
  <2>d. creds' \in Creds /\ creds' # NoCreds
    BY <1>3, <2>c, RefreshedCreds DEF IInv, TypeOK
  <2>1. CredsTypes'
    BY <1>3, <2>d DEF CredsTypes
  <2>2. WorldTypes'
    BY <1>3, <2>d, SaveType DEF IInv, ControlInv, TypeOK, WorldTypes, ConfigTypes,
       RefreshTokenDone, Returned, Save, Proceed
  <2>3. LoopTypes'
    BY <1>3 DEF IInv, ControlInv, TypeOK, LoopTypes, RefreshTokenDone, Returned, Save, Proceed
  <2>4. ConfigTypes' /\ ClientTypes' /\ FlagTypes' /\ QueueTypes' /\ DeviceTypes' /\ BoundTypes'
    BY <1>3 DEF IInv, TypeOK, ConfigTypes, ClientTypes, FlagTypes, QueueTypes, DeviceTypes,
       BoundTypes, RefreshTokenDone, Returned, Save, Proceed
  <2>5. ControlInv'
    BY <1>3, <2>d, <2>1, <2>2, <2>3, <2>4 DEF IInv, ControlInv, TypeOK, ClientTypes, CredsTypes,
       LoopTypes, RefreshTokenDone, Returned, Save, Proceed
  <2> QED
    BY <2>1, <2>2, <2>3, <2>4, <2>5 DEF IInv, TypeOK
<1>4. ASSUME IInv, RefreshTokenRefused PROVE IInv'
  BY <1>4, CleanupStep DEF RefreshTokenRefused, Returned
<1>5. ASSUME IInv, SignUpSkip PROVE IInv'
  <2>1. LoopTypes'
    BY <1>5 DEF IInv, ControlInv, TypeOK, LoopTypes, SignUpSkip, Entering, Proceed
  <2>2. ConfigTypes' /\ CredsTypes' /\ ClientTypes' /\ FlagTypes' /\ QueueTypes' /\ DeviceTypes'
     /\ WorldTypes' /\ BoundTypes'
    BY <1>5 DEF IInv, TypeOK, ConfigTypes, CredsTypes, ClientTypes, FlagTypes, QueueTypes,
       DeviceTypes, WorldTypes, BoundTypes, SignUpSkip, Entering, Proceed
  <2>3. ControlInv'
    BY <1>5, <2>1, <2>2 DEF IInv, ControlInv, TypeOK, ClientTypes, CredsTypes, LoopTypes,
       SignUpSkip, Entering, Proceed
  <2> QED
    BY <2>1, <2>2, <2>3 DEF IInv, TypeOK
<1>6. ASSUME IInv, SignUp PROVE IInv'
  <2>1. LoopTypes'
    BY <1>6, SendRequestType DEF IInv, ControlInv, TypeOK, LoopTypes, ClientTypes, SignUp,
       Entering, SendRequest, SetProvisioningStatus
  <2>2. ConfigTypes' /\ CredsTypes' /\ ClientTypes' /\ FlagTypes' /\ QueueTypes' /\ DeviceTypes'
     /\ WorldTypes' /\ BoundTypes'
    BY <1>6 DEF IInv, TypeOK, ConfigTypes, CredsTypes, ClientTypes, FlagTypes, QueueTypes,
       DeviceTypes, WorldTypes, BoundTypes, SignUp, Entering, SendRequest, SetProvisioningStatus
  <2>3. ControlInv'
    BY <1>6, <2>1, <2>2 DEF IInv, ControlInv, TypeOK, ClientTypes, CredsTypes, LoopTypes,
       SignUp, Entering, SendRequest, SetProvisioningStatus
  <2> QED
    BY <2>1, <2>2, <2>3 DEF IInv, TypeOK
<1>7. ASSUME IInv, SignUpDone PROVE IInv'
  <2>0. creds' \in Creds
    BY <1>7 DEF IInv, ControlInv, TypeOK, CredsTypes, ClientTypes, LoopTypes, SignUpDone, Returned
  <2>n. creds' # NoCreds
    BY <2>0, CredsAssumption
  <2>1. CredsTypes'
    BY <2>0 DEF CredsTypes
  <2>2. WorldTypes'
    BY <1>7, SaveType, <2>1 DEF IInv, ControlInv, TypeOK, WorldTypes, ConfigTypes, CredsTypes,
       SignUpDone, Returned, Save, Proceed
  <2>3. LoopTypes'
    BY <1>7 DEF IInv, ControlInv, TypeOK, LoopTypes, SignUpDone, Returned, Save, Proceed
  <2>4. ConfigTypes' /\ ClientTypes' /\ FlagTypes' /\ QueueTypes' /\ DeviceTypes' /\ BoundTypes'
    BY <1>7 DEF IInv, TypeOK, ConfigTypes, ClientTypes, FlagTypes, QueueTypes, DeviceTypes,
       BoundTypes, SignUpDone, Returned, Save, Proceed
  <2>5. ControlInv'
    BY <1>7, <2>n, <2>3, <2>4 DEF IInv, ControlInv, TypeOK, ClientTypes, LoopTypes, SignUpDone,
       Returned, Proceed
  <2> QED
    BY <2>1, <2>2, <2>3, <2>4, <2>5 DEF IInv, TypeOK
<1>8. ASSUME IInv, SignInSkip PROVE IInv'
  <2>1. LoopTypes'
    BY <1>8 DEF IInv, ControlInv, TypeOK, LoopTypes, SignInSkip, Entering, Proceed
  <2>2. ConfigTypes' /\ CredsTypes' /\ ClientTypes' /\ FlagTypes' /\ QueueTypes' /\ DeviceTypes'
     /\ WorldTypes' /\ BoundTypes'
    BY <1>8 DEF IInv, TypeOK, ConfigTypes, CredsTypes, ClientTypes, FlagTypes, QueueTypes,
       DeviceTypes, WorldTypes, BoundTypes, SignInSkip, Entering, Proceed
  <2>3. ControlInv'
    BY <1>8, <2>1, <2>2 DEF IInv, ControlInv, TypeOK, ClientTypes, CredsTypes, LoopTypes,
       SignInSkip, Entering, Proceed
  <2> QED
    BY <2>1, <2>2, <2>3 DEF IInv, TypeOK
<1>9. ASSUME IInv, SignIn PROVE IInv'
  <2>1. LoopTypes'
    BY <1>9, SendRequestType DEF IInv, ControlInv, TypeOK, LoopTypes, ClientTypes, SignIn,
       Entering, SendRequest, SetProvisioningStatus
  <2>2. ConfigTypes' /\ CredsTypes' /\ ClientTypes' /\ FlagTypes' /\ QueueTypes' /\ DeviceTypes'
     /\ WorldTypes' /\ BoundTypes'
    BY <1>9 DEF IInv, TypeOK, ConfigTypes, CredsTypes, ClientTypes, FlagTypes, QueueTypes,
       DeviceTypes, WorldTypes, BoundTypes, SignIn, Entering, SendRequest, SetProvisioningStatus
  <2>3. ControlInv'
    BY <1>9, <2>1, <2>2 DEF IInv, ControlInv, TypeOK, ClientTypes, CredsTypes, LoopTypes,
       SignIn, Entering, SendRequest, SetProvisioningStatus
  <2> QED
    BY <2>1, <2>2, <2>3 DEF IInv, TypeOK
<1>10. ASSUME IInv, SignInDone PROVE IInv'
  <2>1. CredsTypes'
    BY <1>10, CredsFields DEF IInv, ControlInv, TypeOK, CredsTypes, SignInDone, Returned, Save,
       Proceed
  <2>2. WorldTypes'
    BY <1>10, SaveType, CredsFields DEF IInv, ControlInv, TypeOK, WorldTypes, ConfigTypes,
       CredsTypes, SignInDone, Returned, Save, Proceed
  <2>3. LoopTypes'
    BY <1>10 DEF IInv, ControlInv, TypeOK, LoopTypes, SignInDone, Returned, Save, Proceed
  <2>4. ConfigTypes' /\ ClientTypes' /\ FlagTypes' /\ QueueTypes' /\ DeviceTypes' /\ BoundTypes'
    BY <1>10 DEF IInv, TypeOK, ConfigTypes, ClientTypes, FlagTypes, QueueTypes, DeviceTypes,
       BoundTypes, SignInDone, Returned, Save, Proceed
  <2>5. ControlInv'
    BY <1>10, <2>1, <2>2, <2>3, <2>4 DEF IInv, ControlInv, TypeOK, ClientTypes, CredsTypes,
       LoopTypes, SignInDone, Returned, Save, Proceed
  <2> QED
    BY <2>1, <2>2, <2>3, <2>4, <2>5 DEF IInv, TypeOK
<1>11. ASSUME IInv, SignInRefused PROVE IInv'
  <2>1. CASE Cleanup
    BY <1>11, <2>1, CleanupStep DEF SignInRefused, Returned
  <2>2. CASE forceRefreshToken' = TRUE /\ Fail /\ UNCHANGED <<ready, FailUnchanged>>
    <3>1. ClientTypes'
      BY <1>11, <2>2, CloseClientType DEF IInv, TypeOK, Fail
    <3>f. FlagTypes'
      BY <1>11, <2>2 DEF IInv, TypeOK, FlagTypes, FailUnchanged
    <3>l. LoopTypes'
      BY <1>11, <2>2 DEF IInv, TypeOK, LoopTypes, Fail, FailUnchanged
    <3>2. ConfigTypes' /\ CredsTypes' /\ QueueTypes' /\ DeviceTypes' /\ WorldTypes' /\ BoundTypes'
      BY <1>11, <2>2 DEF IInv, TypeOK, ConfigTypes, CredsTypes, QueueTypes, DeviceTypes, WorldTypes,
         BoundTypes, FailUnchanged
    <3>3. ControlInv'
      BY <1>11, <2>2 DEF ControlInv, Fail, CloseClient, ReplaceClient
    <3> QED
      BY <3>1, <3>f, <3>l, <3>2, <3>3 DEF IInv, TypeOK
  <2> QED
    BY <1>11, <2>1, <2>2 DEF SignInRefused
<1>12. ASSUME IInv, PublishSkip PROVE IInv'
  <2>1. LoopTypes'
    BY <1>12 DEF IInv, ControlInv, TypeOK, LoopTypes, PublishSkip, Entering, LinksToPublish,
       PopReadyToPublish, Proceed
  <2>2. ConfigTypes' /\ CredsTypes' /\ ClientTypes' /\ FlagTypes' /\ QueueTypes' /\ DeviceTypes'
     /\ WorldTypes' /\ BoundTypes'
    <3>1. ConfigTypes'
      BY <1>12 DEF IInv, TypeOK, ConfigTypes, PublishSkip, PopReadyToPublish
    <3>2. CredsTypes' /\ ClientTypes' /\ FlagTypes'
      BY <1>12 DEF IInv, TypeOK, CredsTypes, ClientTypes, FlagTypes, PublishSkip
    <3>3. QueueTypes' /\ DeviceTypes' /\ WorldTypes' /\ BoundTypes'
      BY <1>12 DEF IInv, TypeOK, QueueTypes, DeviceTypes, WorldTypes, BoundTypes, PublishSkip
    <3> QED
      BY <3>1, <3>2, <3>3
  <2>3. ControlInv'
    BY <1>12, <2>1, <2>2 DEF IInv, ControlInv, TypeOK, ClientTypes, CredsTypes, LoopTypes,
       PublishSkip, Entering, LinksToPublish, PopReadyToPublish, Proceed
  <2> QED
    BY <2>1, <2>2, <2>3 DEF IInv, TypeOK
<1>13. ASSUME IInv, Publish PROVE IInv'
  <2>1. LoopTypes'
    BY <1>13, SendRequestType DEF IInv, ControlInv, TypeOK, LoopTypes, ClientTypes, ConfigTypes,
       DeviceTypes, Publish, Entering, LinksToPublish, PopReadyToPublish, SendRequest
  <2>2. ConfigTypes' /\ CredsTypes' /\ ClientTypes' /\ FlagTypes' /\ QueueTypes' /\ DeviceTypes'
     /\ WorldTypes' /\ BoundTypes'
    BY <1>13 DEF IInv, TypeOK, ConfigTypes, CredsTypes, ClientTypes, FlagTypes, QueueTypes,
       DeviceTypes, WorldTypes, BoundTypes, Publish, Entering, LinksToPublish,
       PopReadyToPublish, SendRequest
  <2>3. ControlInv'
    BY <1>13, <2>1, <2>2 DEF IInv, ControlInv, TypeOK, ClientTypes, CredsTypes, LoopTypes,
       Publish, Entering, LinksToPublish, PopReadyToPublish, SendRequest
  <2> QED
    BY <2>1, <2>2, <2>3 DEF IInv, TypeOK
<1>14. ASSUME IInv, PublishDone PROVE IInv'
  <2>1. LoopTypes'
    BY <1>14 DEF IInv, ControlInv, TypeOK, LoopTypes, PublishDone, Returned, Proceed
  <2>2. ConfigTypes' /\ CredsTypes' /\ ClientTypes' /\ FlagTypes' /\ QueueTypes' /\ DeviceTypes'
     /\ WorldTypes' /\ BoundTypes'
    BY <1>14 DEF IInv, TypeOK, ConfigTypes, CredsTypes, ClientTypes, FlagTypes, QueueTypes,
       DeviceTypes, WorldTypes, BoundTypes, PublishDone, Returned, Proceed
  <2>3. ControlInv'
    BY <1>14, <2>1, <2>2 DEF IInv, ControlInv, TypeOK, ClientTypes, CredsTypes, LoopTypes,
       PublishDone, Returned, Proceed
  <2> QED
    BY <2>1, <2>2, <2>3 DEF IInv, TypeOK
<1>15. ASSUME IInv, UnpublishSkip PROVE IInv'
  <2>1. LoopTypes'
    BY <1>15 DEF IInv, ControlInv, TypeOK, LoopTypes, UnpublishSkip, Entering, Proceed
  <2>2. ConfigTypes' /\ CredsTypes' /\ ClientTypes' /\ FlagTypes' /\ QueueTypes' /\ DeviceTypes'
     /\ WorldTypes' /\ BoundTypes'
    BY <1>15 DEF IInv, TypeOK, ConfigTypes, CredsTypes, ClientTypes, FlagTypes, QueueTypes,
       DeviceTypes, WorldTypes, BoundTypes, UnpublishSkip, Entering, Proceed
  <2>3. ControlInv'
    BY <1>15, <2>1, <2>2 DEF IInv, ControlInv, TypeOK, ClientTypes, CredsTypes, LoopTypes,
       UnpublishSkip, Entering, Proceed
  <2> QED
    BY <2>1, <2>2, <2>3 DEF IInv, TypeOK
<1>16. ASSUME IInv, Unpublish PROVE IInv'
  <2>1. LoopTypes'
    BY <1>16, SendRequestType DEF IInv, ControlInv, TypeOK, LoopTypes, ClientTypes, ConfigTypes,
       DeviceTypes, Unpublish, Entering, Batches, PopReadyToUnpublish, SendRequest
  <2>p. PICK b \in Batches : PopReadyToUnpublish(b)
    BY <1>16 DEF Unpublish
  <2>c. ConfigTypes'
    BY <1>16, <2>p DEF IInv, TypeOK, ConfigTypes, Unpublish, PopReadyToUnpublish
  <2>2. CredsTypes' /\ ClientTypes' /\ QueueTypes' /\ DeviceTypes' /\ WorldTypes'
    BY <1>16 DEF IInv, TypeOK, CredsTypes, ClientTypes, QueueTypes, DeviceTypes,
       WorldTypes, Unpublish
  <2>3. FlagTypes' /\ BoundTypes'
    BY <1>16 DEF IInv, TypeOK, FlagTypes, BoundTypes, Unpublish, Entering, Batches,
       PopReadyToUnpublish, SendRequest
  <2>4. ControlInv'
    BY <1>16, <2>1, <2>2, <2>3 DEF IInv, ControlInv, TypeOK, ClientTypes, CredsTypes, LoopTypes,
       Unpublish, Entering, Batches, PopReadyToUnpublish, SendRequest
  <2> QED
    BY <2>1, <2>c, <2>2, <2>3, <2>4 DEF IInv, TypeOK
<1>17. ASSUME IInv, UnpublishDone PROVE IInv'
  <2>1. LoopTypes'
    BY <1>17 DEF IInv, ControlInv, TypeOK, LoopTypes, UnpublishDone, Returned, Proceed
  <2>2. ConfigTypes' /\ CredsTypes' /\ ClientTypes' /\ FlagTypes' /\ QueueTypes' /\ DeviceTypes'
     /\ WorldTypes' /\ BoundTypes'
    BY <1>17 DEF IInv, TypeOK, ConfigTypes, CredsTypes, ClientTypes, FlagTypes, QueueTypes,
       DeviceTypes, WorldTypes, BoundTypes, UnpublishDone, Returned, Proceed
  <2>3. ControlInv'
    BY <1>17, <2>1, <2>2 DEF IInv, ControlInv, TypeOK, ClientTypes, CredsTypes, LoopTypes,
       UnpublishDone, Returned, Proceed
  <2> QED
    BY <2>1, <2>2, <2>3 DEF IInv, TypeOK
<1>18. ASSUME IInv, StepImpossible PROVE IInv'
  <2>1. ClientTypes'
    BY <1>18, CloseClientType DEF IInv, ControlInv, TypeOK, ClientTypes, StepImpossible,
       Entering, NeedsRefresh, LinksToPublish, PopReadyToPublish, Batches, PopReadyToUnpublish,
       Fail, CloseClient, ReplaceClient, FailUnchanged
  <2>2. ConfigTypes'
    BY <1>18 DEF IInv, ControlInv, TypeOK, ConfigTypes, StepImpossible, Entering, NeedsRefresh,
       LinksToPublish, PopReadyToPublish, Batches, PopReadyToUnpublish, Fail, CloseClient,
       ReplaceClient, FailUnchanged
  <2>3. LoopTypes'
    BY <1>18 DEF IInv, ControlInv, TypeOK, LoopTypes, StepImpossible, Entering, NeedsRefresh,
       LinksToPublish, PopReadyToPublish, Batches, PopReadyToUnpublish, Fail, CloseClient,
       ReplaceClient, FailUnchanged
  <2>4. CredsTypes' /\ FlagTypes' /\ QueueTypes' /\ DeviceTypes' /\ WorldTypes' /\ BoundTypes'
    BY <1>18 DEF IInv, TypeOK, CredsTypes, FlagTypes, QueueTypes, DeviceTypes, WorldTypes,
       BoundTypes, StepImpossible, Entering, NeedsRefresh, LinksToPublish, PopReadyToPublish,
       Batches, PopReadyToUnpublish, Fail, CloseClient, ReplaceClient, FailUnchanged
  <2>5. ControlInv'
    BY <1>18, <2>1, <2>2, <2>3, <2>4 DEF IInv, ControlInv, TypeOK, ClientTypes, CredsTypes,
       LoopTypes, StepImpossible, Entering, NeedsRefresh, LinksToPublish, PopReadyToPublish,
       Batches, PopReadyToUnpublish, Fail, CloseClient, ReplaceClient, FailUnchanged
  <2> QED
    BY <2>1, <2>2, <2>3, <2>4, <2>5 DEF IInv, TypeOK
<1>19. ASSUME IInv, StepRefused PROVE IInv'
  <2>1. ClientTypes'
    BY <1>19, CloseClientType DEF IInv, ControlInv, TypeOK, ClientTypes, StepRefused, Returned,
       Fail, CloseClient, ReplaceClient, FailUnchanged
  <2>2. LoopTypes'
    BY <1>19 DEF IInv, ControlInv, TypeOK, LoopTypes, StepRefused, Returned, Fail, CloseClient,
       ReplaceClient, FailUnchanged
  <2>3. ConfigTypes' /\ CredsTypes' /\ FlagTypes' /\ QueueTypes' /\ DeviceTypes' /\ WorldTypes'
     /\ BoundTypes'
    BY <1>19 DEF IInv, TypeOK, ConfigTypes, CredsTypes, FlagTypes, QueueTypes, DeviceTypes,
       WorldTypes, BoundTypes, StepRefused, Returned, Fail, CloseClient, ReplaceClient,
       FailUnchanged
  <2>4. ControlInv'
    BY <1>19, <2>1, <2>2, <2>3 DEF IInv, ControlInv, TypeOK, ClientTypes, CredsTypes, LoopTypes,
       StepRefused, Returned, Fail, CloseClient, ReplaceClient, FailUnchanged
  <2> QED
    BY <2>1, <2>2, <2>3, <2>4 DEF IInv, TypeOK
<1>20. ASSUME IInv, Finish PROVE IInv'
  <2>1. LoopTypes'
    BY <1>20 DEF IInv, ControlInv, TypeOK, LoopTypes, Finish, SetProvisioningStatus
  <2>2. ConfigTypes' /\ CredsTypes' /\ ClientTypes' /\ FlagTypes' /\ QueueTypes' /\ DeviceTypes'
     /\ WorldTypes' /\ BoundTypes'
    BY <1>20 DEF IInv, TypeOK, ConfigTypes, CredsTypes, ClientTypes, FlagTypes, QueueTypes,
       DeviceTypes, WorldTypes, BoundTypes, Finish, SetProvisioningStatus
  <2>3. ControlInv'
    BY <1>20, <2>1, <2>2 DEF IInv, ControlInv, TypeOK, ClientTypes, CredsTypes, LoopTypes,
       Finish, SetProvisioningStatus
  <2> QED
    BY <2>1, <2>2, <2>3 DEF IInv, TypeOK
<1> QED
  BY <1>1, <1>2, <1>3, <1>4, <1>5, <1>6, <1>7, <1>8, <1>9, <1>10, <1>11, <1>12, <1>13, <1>14,
     <1>15, <1>16, <1>17, <1>18, <1>19, <1>20

\* The connection, the cloud, time and restarts preserve it.
LEMMA WorldStep == IInv /\ World => IInv'
<1> SUFFICES ASSUME IInv PROVE World => IInv'
  OBVIOUS
<1> USE NullsAssumption, CapsAssumption, BoundsAssumption, NoCallIsNot
        DEF Statuses, Config, Creds, Connection, Requests, Replies, PendingCall, Steps,
           Persisted, NoCall, NoConfig, NothingReady, UnusedConn, privateVars, flagVars,
           loopVars, queueVars, deviceVars, worldVars, boundVars
<1> USE DEF CallInStep, CallOnClient, CredsInStep, ConnHasCloud, AcceptedSignIn,
   SessionOnOwnConnection
<1>1. ASSUME NEW k \in Conns, LoseConnection(k) PROVE IInv'
  <2>1. ClientTypes'
    BY <1>1 DEF IInv, ControlInv, TypeOK, ClientTypes, LoseConnection
  <2>2. LoopTypes'
    BY <1>1 DEF IInv, ControlInv, TypeOK, LoopTypes, LoseConnection
  <2>3. ConfigTypes' /\ CredsTypes' /\ FlagTypes' /\ QueueTypes' /\ DeviceTypes' /\ WorldTypes'
     /\ BoundTypes'
    BY <1>1 DEF IInv, TypeOK, ConfigTypes, CredsTypes, FlagTypes, QueueTypes, DeviceTypes,
       WorldTypes, BoundTypes, LoseConnection
  <2>4. ControlInv'
    BY <1>1, <2>1, <2>2, <2>3 DEF IInv, ControlInv, TypeOK, ClientTypes, CredsTypes, LoopTypes,
       LoseConnection
  <2> QED
    BY <2>1, <2>2, <2>3, <2>4 DEF IInv, TypeOK
<1>2. ASSUME NEW k \in Conns, OnClose(k) PROVE IInv'
  <2>1. ClientTypes'
    BY <1>2 DEF IInv, ControlInv, TypeOK, ClientTypes, OnClose, OwnsClient, ReplaceClient
  <2>2. LoopTypes'
    BY <1>2 DEF IInv, ControlInv, TypeOK, LoopTypes, OnClose, OwnsClient, ReplaceClient
  <2>3. ConfigTypes' /\ CredsTypes' /\ FlagTypes' /\ QueueTypes' /\ DeviceTypes' /\ WorldTypes'
     /\ BoundTypes'
    BY <1>2 DEF IInv, TypeOK, ConfigTypes, CredsTypes, FlagTypes, QueueTypes, DeviceTypes,
       WorldTypes, BoundTypes, OnClose, OwnsClient, ReplaceClient
  <2>4. ControlInv'
    BY <1>2, <2>1, <2>2, <2>3 DEF IInv, ControlInv, TypeOK, ClientTypes, CredsTypes, LoopTypes,
       OnClose, OwnsClient, ReplaceClient
  <2> QED
    BY <2>1, <2>2, <2>3, <2>4 DEF IInv, TypeOK
<1>3. ASSUME CloudAccepts PROVE IInv'
  <2>1. WorldTypes'
    BY <1>3 DEF IInv, ControlInv, TypeOK, WorldTypes, LoopTypes, CloudAccepts
  <2>2. ClientTypes'
    <3>1. call.conn \in Conns
      BY <1>3 DEF IInv, TypeOK, LoopTypes, PendingCall, NoCall, CloudAccepts
    <3>2. conn \in [Conns -> Connection]
      BY DEF IInv, TypeOK, ClientTypes
    <3>3. [conn EXCEPT ![call.conn].session = TRUE] \in [Conns -> Connection]
      BY <3>1, <3>2 DEF Connection
    <3>4. conn' \in [Conns -> Connection]
      BY <1>3, <3>2, <3>3 DEF CloudAccepts
    <3> QED
      BY <1>3, <3>4 DEF IInv, TypeOK, ClientTypes, CloudAccepts, privateVars
  <2>3. LoopTypes'
    BY <1>3 DEF IInv, ControlInv, TypeOK, LoopTypes, ClientTypes, CallInStep, CloudAccepts
  <2>4. ConfigTypes' /\ CredsTypes' /\ FlagTypes' /\ QueueTypes' /\ DeviceTypes' /\ BoundTypes'
    BY <1>3 DEF IInv, TypeOK, ConfigTypes, CredsTypes, FlagTypes, QueueTypes, DeviceTypes,
       BoundTypes, CloudAccepts
  <2>5. ControlInv'
    BY <1>3, <2>1, <2>2, <2>3, <2>4 DEF IInv, ControlInv, TypeOK, ClientTypes, CredsTypes,
       LoopTypes, CloudAccepts
  <2> QED
    BY <2>1, <2>2, <2>3, <2>4, <2>5 DEF IInv, TypeOK
<1>4. ASSUME NEW r \in Replies, CloudRefuses(r) PROVE IInv'
  <2>1. LoopTypes'
    BY <1>4 DEF IInv, ControlInv, TypeOK, LoopTypes, ClientTypes, CallInStep, CloudRefuses
  <2>2. ConfigTypes' /\ CredsTypes' /\ ClientTypes' /\ FlagTypes' /\ QueueTypes' /\ DeviceTypes'
     /\ WorldTypes' /\ BoundTypes'
    BY <1>4 DEF IInv, TypeOK, ConfigTypes, CredsTypes, ClientTypes, FlagTypes, QueueTypes,
       DeviceTypes, WorldTypes, BoundTypes, CloudRefuses
  <2>3. ControlInv'
    BY <1>4, <2>1, <2>2 DEF IInv, ControlInv, TypeOK, ClientTypes, CredsTypes, LoopTypes,
       CloudRefuses
  <2> QED
    BY <2>1, <2>2, <2>3 DEF IInv, TypeOK
<1>5. ASSUME CallFails PROVE IInv'
  <2>1. LoopTypes'
    BY <1>5 DEF IInv, ControlInv, TypeOK, LoopTypes, ClientTypes, CallInStep, CallFails
  <2>2. ConfigTypes' /\ CredsTypes' /\ ClientTypes' /\ FlagTypes' /\ QueueTypes' /\ DeviceTypes'
     /\ WorldTypes' /\ BoundTypes'
    BY <1>5 DEF IInv, TypeOK, ConfigTypes, CredsTypes, ClientTypes, FlagTypes, QueueTypes,
       DeviceTypes, WorldTypes, BoundTypes, CallFails
  <2>3. ControlInv'
    BY <1>5, <2>1, <2>2 DEF IInv, ControlInv, TypeOK, ClientTypes, CredsTypes, LoopTypes,
       CallFails
  <2> QED
    BY <2>1, <2>2, <2>3 DEF IInv, TypeOK
<1>6. ASSUME Expire PROVE IInv'
  <2>1. CredsTypes'
    BY <1>6, CredsFields DEF IInv, ControlInv, TypeOK, CredsTypes, Expire
  <2>2. LoopTypes'
    BY <1>6 DEF IInv, ControlInv, TypeOK, LoopTypes, Expire
  <2>3. ConfigTypes' /\ ClientTypes' /\ FlagTypes' /\ QueueTypes' /\ DeviceTypes' /\ WorldTypes'
     /\ BoundTypes'
    BY <1>6 DEF IInv, TypeOK, ConfigTypes, ClientTypes, FlagTypes, QueueTypes, DeviceTypes,
       WorldTypes, BoundTypes, Expire
  <2>4. ControlInv'
    BY <1>6, <2>1, <2>2, <2>3, CredsAssumption DEF IInv, ControlInv, TypeOK, ClientTypes,
       CredsTypes, LoopTypes, Expire
  <2> QED
    BY <2>1, <2>2, <2>3, <2>4 DEF IInv, TypeOK
<1>7. ASSUME Crash PROVE IInv'
  <2>1. ConfigTypes'
    BY <1>7 DEF IInv, ControlInv, TypeOK, ConfigTypes, WorldTypes, Crash, ImportConfig,
       InitialTrigger
  <2>2. CredsTypes'
    BY <1>7 DEF IInv, ControlInv, TypeOK, CredsTypes, WorldTypes, Crash, ImportConfig,
       InitialTrigger
  <2>3. QueueTypes'
    BY <1>7, InitialTriggerType DEF IInv, ControlInv, TypeOK, QueueTypes, Crash, ImportConfig,
       InitialTrigger
  <2>4. LoopTypes'
    BY <1>7 DEF IInv, ControlInv, TypeOK, LoopTypes, Crash, ImportConfig, InitialTrigger
  <2>5. ClientTypes' /\ DeviceTypes'
    BY <1>7 DEF IInv, TypeOK, ClientTypes, DeviceTypes, Crash, ImportConfig, InitialTrigger
  <2>6. FlagTypes'
    BY <1>7 DEF FlagTypes, Crash
  <2>w. WorldTypes'
    BY <1>7 DEF IInv, TypeOK, WorldTypes, Crash
  <2>b. BoundTypes'
    BY <1>7 DEF IInv, TypeOK, BoundTypes, Crash
  <2>7. ControlInv'
    BY <1>7, <2>1, <2>2, <2>3, <2>4, <2>5, <2>6 DEF IInv, ControlInv, TypeOK, ClientTypes,
       CredsTypes, LoopTypes, Crash, ImportConfig, InitialTrigger
  <2> QED
    BY <2>1, <2>2, <2>3, <2>4, <2>5, <2>6, <2>w, <2>b, <2>7 DEF IInv, TypeOK
<1> QED
  BY <1>1, <1>2, <1>3, <1>4, <1>5, <1>6, <1>7 DEF World

\* The initial state satisfies it.
LEMMA InitIInv == Init => IInv
<1> SUFFICES ASSUME Init PROVE IInv
  OBVIOUS
<1> USE NullsAssumption, CapsAssumption, BoundsAssumption
    DEF Init, Statuses, Config, Connection, Steps, Persisted, NoCall, NothingReady, UnusedConn
<1>1. QueueTypes
  BY InitialTriggerType DEF QueueTypes
<1>2. ConfigTypes /\ CredsTypes
  BY DEF ConfigTypes, CredsTypes, ImportConfig
<1>3. ClientTypes /\ LoopTypes /\ DeviceTypes
  BY DEF ClientTypes, LoopTypes, DeviceTypes
<1>4. FlagTypes
  BY DEF FlagTypes
<1>5. WorldTypes /\ BoundTypes
  BY DEF WorldTypes, BoundTypes
<1>6. ControlInv
  BY DEF ControlInv, CallInStep, CallOnClient, CredsInStep, ConnHasCloud, AcceptedSignIn,
         SessionOnOwnConnection
<1> QED
  BY <1>1, <1>2, <1>3, <1>4, <1>5, <1>6 DEF IInv, TypeOK

\* A step that changes nothing preserves it.
LEMMA StutterIInv == IInv /\ UNCHANGED vars => IInv'
<1> SUFFICES ASSUME IInv, UNCHANGED vars PROVE IInv'
  OBVIOUS
<1> USE DEF vars, privateVars, flagVars, loopVars, queueVars, deviceVars, worldVars, boundVars
<1>1. TypeOK'
  BY DEF IInv, TypeOK, ConfigTypes, CredsTypes, ClientTypes, FlagTypes, QueueTypes, LoopTypes,
         DeviceTypes, WorldTypes, BoundTypes
<1>2. ControlInv'
  BY DEF IInv, ControlInv, CallInStep, CallOnClient, CredsInStep, ConnHasCloud, AcceptedSignIn,
         SessionOnOwnConnection
<1> QED
  BY <1>1, <1>2 DEF IInv

\* The invariant holds throughout.
LEMMA InductiveInvariant == Spec => []IInv
<1>1. IInv /\ Next => IInv'
  BY APIStep, HandlerStep, DialStep, RequestStep, WorldStep DEF Next, LoopStep
<1> QED
  BY <1>1, InitIInv, StutterIInv, PTL DEF Spec

\* The manager's variables keep their types, in particular the trigger channel
\* never holds more than its capacity and a request is only ever waited for
\* over an existing connection.
THEOREM TypeCorrect == Spec => []TypeOK
<1>1. IInv => TypeOK
  BY DEF IInv
<1> QED
  BY <1>1, InductiveInvariant, PTL

\* signedIn and client together never claim a session the current connection
\* does not have, whatever is lost, late, refused, reset or restarted, for
\* every number of clouds, connections and resources.
THEOREM SessionOnOwnConnectionHolds == Spec => []SessionOnOwnConnection
<1>1. IInv => SessionOnOwnConnection
  BY DEF IInv, ControlInv
<1> QED
  BY <1>1, InductiveInvariant, PTL

------------------------------------------------------------------------------
(* Publishing happens in a session                                          *)

\* Whoever publishes or unpublishes has signed in on the client, unless the
\* connection was lost since.
SignedInToPublish == pc \in {"publish", "unpublish"} => signedIn \/ client = NoConn

PubInv == SignedInToPublish /\ PublishOnlyInSession

\* Calls of the API leave the connection and the loop where they are.
LEMMA APIKeeps == API => UNCHANGED <<client, signedIn, creds, conn, pc, call, target>>
  BY DEF API, Unregister, Post, Configure, TriggerReset, Reconnect, Close, AddResource,
     PublishResources, DeleteResource, UnpublishResources, privateVars, loopVars

\* A step that leaves the call and the connections alone, and does not come to
\* publish or lose the session on the way, preserves PubInv.
LEMMA PubUnchanged ==
    ASSUME PubInv, call' = call, conn' = conn, pc' = pc, UNCHANGED <<client, signedIn>>
    PROVE  PubInv'
  BY DEF PubInv, SignedInToPublish, PublishOnlyInSession

\* When no call is pending and the loop is elsewhere there is nothing to show.
LEMMA PubElsewhere ==
    ASSUME call' = NoCall, pc' \notin {"publish", "unpublish"}
    PROVE  PubInv'
  BY DEF PubInv, SignedInToPublish, PublishOnlyInSession, NoCall

\* The loop publishes and unpublishes only in a session.
LEMMA PubStep == IInv /\ PubInv /\ [Next]_vars => PubInv'
<1> SUFFICES ASSUME IInv, PubInv, [Next]_vars PROVE PubInv'
  OBVIOUS
<1>c. pc \notin Requests => call = NoCall
  BY DEF IInv, ControlInv, CallInStep, PendingCall
<1>1. CASE API \/ Expire \/ UNCHANGED vars
  BY <1>1, APIKeeps, PubUnchanged DEF Expire, vars, privateVars, loopVars
<1>2. CASE HandleTrigger \/ HandleTimer \/ HandleDone \/ CheckReconnect \/ CheckInitialized
           \/ CheckSignedIn \/ StartDial \/ DialFails \/ Finish \/ ResetCredentials
  <2>1. pc \notin Requests
    BY <1>2 DEF HandleTrigger, HandleTimer, HandleDone, CheckReconnect, CheckInitialized,
       CheckSignedIn, StartDial, DialFails, Finish, ResetCredentials, Requests
  <2>2. call' = call /\ pc' \notin {"publish", "unpublish"}
    BY <1>2 DEF HandleTrigger, HandleTimer, HandleDone, CheckReconnect, CheckInitialized,
       CheckSignedIn, StartDial, DialFails, Finish, ResetCredentials
  <2> QED
    BY <1>c, <2>1, <2>2, PubElsewhere
<1>3. CASE UseConnection \/ \E k \in Conns : Dial(k) \/ DialLost(k)
  <2>1. pc \notin Requests
    BY <1>3 DEF UseConnection, Dial, DialLost, Dialled, Requests
  <2>2. call' = call /\ pc' \notin {"publish", "unpublish"}
    BY <1>3 DEF UseConnection, Dial, DialLost, Dialled, FirstStep
  <2> QED
    BY <1>c, <2>1, <2>2, PubElsewhere
<1>4. CASE SignOffSkip \/ SignOffDone \/ RefreshTokenSkip \/ RefreshTokenDone \/ SignUpSkip \/ SignUpDone
  BY <1>4, PubElsewhere DEF SignOffSkip, SignOffDone, RefreshTokenSkip, RefreshTokenDone,
     SignUpSkip, SignUpDone, Proceed
<1>5. CASE RefreshTokenRefused \/ SignInRefused \/ StepImpossible \/ StepRefused
  BY <1>5, PubElsewhere DEF RefreshTokenRefused, SignInRefused, StepImpossible, StepRefused,
     Cleanup, Fail
<1>6. CASE SignOff \/ RefreshToken \/ SignUp \/ SignIn
  <2>1. /\ pc' \notin {"publish", "unpublish"} /\ call'.op \notin {"publish", "unpublish"}
    BY <1>6 DEF SignOff, RefreshToken, SignUp, SignIn, SendRequest, Entering
  <2> QED
    BY <2>1 DEF PubInv, SignedInToPublish, PublishOnlyInSession
<1>7. CASE SignInSkip \/ SignInDone
  BY <1>7 DEF SignInSkip, SignInDone, Proceed, NoCall, PubInv, SignedInToPublish,
     PublishOnlyInSession, privateVars
<1>8. CASE PublishSkip \/ PublishDone \/ UnpublishDone
  BY <1>8 DEF PublishSkip, PublishDone, UnpublishDone, Entering, Returned, Proceed, NoCall,
     PubInv, SignedInToPublish, PublishOnlyInSession, privateVars
<1>9. CASE UnpublishSkip
  BY <1>9, PubElsewhere DEF UnpublishSkip, Proceed
<1>10. CASE Publish \/ Unpublish
  <2>1. /\ client # NoConn /\ call'.conn = client
        /\ pc \in {"publish", "unpublish"}
        /\ UNCHANGED <<client, signedIn, conn, pc>>
    BY <1>10 DEF Publish, Unpublish, Entering, SendRequest
  <2> QED
    BY <2>1 DEF IInv, ControlInv, SessionOnOwnConnection, PubInv, SignedInToPublish,
       PublishOnlyInSession
<1>11. ASSUME NEW k \in Conns, LoseConnection(k) PROVE PubInv'
  <2>1. /\ conn' = [conn EXCEPT ![k].open = FALSE]
        /\ UNCHANGED <<client, signedIn, pc, call>>
    BY <1>11 DEF LoseConnection, privateVars, loopVars
  <2>2. \A x \in Conns : conn'[x].session = conn[x].session /\ (~conn[x].open => ~conn'[x].open)
    BY <2>1 DEF IInv, TypeOK, ClientTypes, Connection
  <2>3. call.op \in {"publish", "unpublish"} => call.conn \in Conns
    BY DEF IInv, TypeOK, LoopTypes, PendingCall, NoCall
  <2> QED
    BY <2>1, <2>2, <2>3 DEF PubInv, SignedInToPublish, PublishOnlyInSession
<1>12. ASSUME NEW k \in Conns, OnClose(k) PROVE PubInv'
  <2>1. /\ ~conn[k].open
        /\ conn' = [conn EXCEPT ![k].hook = FALSE, ![k].session = FALSE]
        /\ UNCHANGED <<pc, call>>
    BY <1>12 DEF OnClose, loopVars
  <2>2. \A x \in Conns : (x # k => conn'[x] = conn[x]) /\ conn'[k].open = conn[k].open
    BY <2>1 DEF IInv, TypeOK, ClientTypes, Connection
  <2>3. call.op \in {"publish", "unpublish"} => call.conn \in Conns
    BY DEF IInv, TypeOK, LoopTypes, PendingCall, NoCall
  <2>4. PublishOnlyInSession'
    BY <2>1, <2>2, <2>3 DEF PubInv, PublishOnlyInSession
  <2>5. CASE client = k
    BY <1>12, <2>4, <2>5 DEF OnClose, OwnsClient, ReplaceClient, PubInv, SignedInToPublish
  <2>6. CASE client # k
    <3>1. UNCHANGED <<client, signedIn>>
      BY <1>12, <2>6 DEF OnClose, OwnsClient
    <3> QED
      BY <2>1, <2>4, <3>1 DEF PubInv, SignedInToPublish
  <2> QED
    BY <2>5, <2>6
<1>13. CASE CloudAccepts \/ (\E r \in Replies : CloudRefuses(r)) \/ CallFails
  <2>0. call.reply \in {"sent", "ok"}
    BY <1>13 DEF CloudAccepts, CloudRefuses, CallFails
  <2>1. call \in PendingCall /\ call.conn \in Conns
    BY <2>0 DEF IInv, TypeOK, LoopTypes, PendingCall, NoCall
  <2>2. call'.op = call.op /\ call'.conn = call.conn
    BY <1>13, <2>1 DEF CloudAccepts, CloudRefuses, CallFails, PendingCall
  <2>3. UNCHANGED <<client, signedIn, pc>>
    BY <1>13 DEF CloudAccepts, CloudRefuses, CallFails, privateVars
  <2>4. call.op \in {"publish", "unpublish"} => conn' = conn
    BY <1>13 DEF CloudAccepts, CloudRefuses, CallFails
  <2> QED
    BY <2>2, <2>3, <2>4 DEF PubInv, SignedInToPublish, PublishOnlyInSession
<1>14. CASE Crash
  BY <1>14, PubElsewhere DEF Crash
<1> QED
  BY <1>1, <1>2, <1>3, <1>4, <1>5, <1>6, <1>7, <1>8, <1>9, <1>10, <1>11, <1>12, <1>13, <1>14
     DEF Next, LoopStep, World

\* The device publishes and unpublishes its resources only over a connection
\* on which it has signed in, whatever is lost, late, refused or restarted.
THEOREM PublishOnlyInSessionHolds == Spec => []PublishOnlyInSession
<1>1. Init => PubInv
  BY DEF Init, NoCall, PubInv, SignedInToPublish, PublishOnlyInSession
<1>2. PubInv => PublishOnlyInSession
  BY DEF PubInv
<1> QED
  BY <1>1, <1>2, PubStep, InductiveInvariant, PTL DEF Spec

------------------------------------------------------------------------------
(* What is left of another cloud is reset                                   *)

\* The credentials, the client, the call or the dial under way are of another
\* cloud.
OfAnotherCloud ==
    \/ StaleRegistration
    \/ call # NoCall /\ conn[call.conn].cloud # cfg.cloud
    \/ pc = "dial" /\ target # cfg.cloud

\* Before the first restart: it loads a configuration and credentials that may
\* have been saved between the two steps of a Post.
StaleInv == crashes = 0 /\ ~lostReset /\ OfAnotherCloud => ResetOnItsWay

ResetQueued == \E i \in 1 .. Len(trigger) : trigger[i]
Resetting == pc \in {"signOff", "reset"}

\* A value added to the trigger channel leaves the resets that wait there.
LEMMA EnqueueKeepsReset ==
    ASSUME QueueTypes, NEW b \in BOOLEAN, Enqueue(b)
    PROVE  /\ ResetQueued => ResetQueued'
           /\ b /\ ~QueueFull => ResetQueued'
<1>1. CASE QueueFull
  BY <1>1 DEF Enqueue, ResetQueued
<1>2. CASE ~QueueFull
  <2>1. trigger' = Append(trigger, b) /\ trigger \in Seq(BOOLEAN)
    BY <1>2 DEF Enqueue, QueueTypes
  <2>2. /\ Len(trigger') = Len(trigger) + 1 /\ Len(trigger) \in Nat
        /\ \A i \in 1 .. Len(trigger) : trigger'[i] = trigger[i]
    BY <2>1
  <2>5. trigger'[Len(trigger) + 1] = b
    BY <2>1
  <2>3. ResetQueued => ResetQueued'
    <3> SUFFICES ASSUME NEW i \in 1 .. Len(trigger), trigger[i] PROVE ResetQueued'
      BY DEF ResetQueued
    <3>1. i \in 1 .. Len(trigger') /\ trigger'[i]
      BY <2>2
    <3> QED
      BY <3>1 DEF ResetQueued
  <2>4. b => ResetQueued'
    <3> SUFFICES ASSUME b PROVE ResetQueued'
      OBVIOUS
    <3>1. Len(trigger) + 1 \in 1 .. Len(trigger')
      BY <2>2
    <3>2. trigger'[Len(trigger) + 1]
      BY <2>5
    <3> QED
      BY <3>1, <3>2 DEF ResetQueued
  <2> QED
    BY <2>3, <2>4
<1> QED
  BY <1>1, <1>2

\* The elements of a sequence without its first.
LEMMA TailElements ==
    ASSUME NEW S, NEW s \in Seq(S), s # <<>>
    PROVE  /\ Len(s) \in Nat /\ Len(s) > 0 /\ Len(Tail(s)) = Len(s) - 1
           /\ Head(s) = s[1]
           /\ \A i \in 1 .. Len(Tail(s)) : Tail(s)[i] = s[i + 1]
  OBVIOUS

\* The reset that is received is carried out, the others stay in the channel.
LEMMA DequeueKeepsReset ==
    ASSUME QueueTypes, HandleTrigger, ResetQueued
    PROVE  ResetQueued' \/ Resetting'
<1>1. /\ trigger # <<>> /\ trigger \in Seq(BOOLEAN) /\ trigger' = Tail(trigger)
      /\ Head(trigger) => pc' = "signOff"
  BY DEF HandleTrigger, QueueTypes
<1>2. /\ Len(trigger) \in Nat /\ Len(trigger) > 0 /\ Len(trigger') = Len(trigger) - 1
      /\ Head(trigger) = trigger[1]
      /\ \A i \in 1 .. Len(trigger') : trigger'[i] = trigger[i + 1]
  BY <1>1, TailElements
<1>3. PICK i \in 1 .. Len(trigger) : trigger[i]
  BY DEF ResetQueued
<1>4. CASE i = 1
  BY <1>1, <1>2, <1>3, <1>4 DEF Resetting
<1>5. CASE i # 1
  <2>1. i - 1 \in 1 .. Len(trigger') /\ (i - 1) + 1 = i
    BY <1>2, <1>5
  <2>2. trigger'[i - 1]
    BY <1>2, <1>3, <2>1
  <2> QED
    BY <2>1, <2>2 DEF ResetQueued
<1> QED
  BY <1>4, <1>5

\* A step that keeps the clouds of the configuration, the credentials and the
\* connections, and calls only over the client, adds nothing of another cloud.
LEMMA NothingOfAnotherCloud ==
    ASSUME IInv, cfg'.cloud = cfg.cloud,
           creds' # NoCreds => creds # NoCreds /\ creds'.cloud = creds.cloud,
           client' # NoConn => client' = client,
           call' # NoCall => \/ call # NoCall /\ call'.conn = call.conn
                             \/ client # NoConn /\ call'.conn = client,
           \A k \in Conns : conn'[k].cloud = conn[k].cloud,
           pc' = "dial" => target' = cfg'.cloud \/ (pc = "dial" /\ target' = target)
    PROVE  OfAnotherCloud' => OfAnotherCloud
<1>1. client # NoConn => client \in Conns
  BY DEF IInv, TypeOK, ClientTypes
<1>2. call # NoCall => call.conn \in Conns
  BY DEF IInv, TypeOK, LoopTypes, PendingCall
<1>3. ASSUME client' # NoConn, conn'[client'].cloud # cfg'.cloud PROVE OfAnotherCloud
  BY <1>1, <1>3 DEF OfAnotherCloud, StaleRegistration
<1>4. ASSUME creds' # NoCreds, creds'.cloud # cfg'.cloud PROVE OfAnotherCloud
  BY <1>4 DEF OfAnotherCloud, StaleRegistration
<1>5. ASSUME call' # NoCall, conn'[call'.conn].cloud # cfg'.cloud PROVE OfAnotherCloud
  BY <1>1, <1>2, <1>5 DEF OfAnotherCloud, StaleRegistration
<1>6. ASSUME pc' = "dial", target' # cfg'.cloud PROVE OfAnotherCloud
  BY <1>6 DEF OfAnotherCloud
<1> QED
  BY <1>3, <1>4, <1>5, <1>6 DEF OfAnotherCloud, StaleRegistration

\* Such a step preserves StaleInv when the reset stays on its way.
LEMMA StaleKept ==
    ASSUME StaleInv, crashes' = crashes, lostReset' = lostReset, posting' = posting,
           ResetQueued => ResetQueued' \/ Resetting', Resetting => Resetting',
           OfAnotherCloud' => OfAnotherCloud
    PROVE  StaleInv'
<1>1. ResetOnItsWay <=> posting > 0 \/ ResetQueued \/ Resetting
  BY DEF ResetOnItsWay, ResetQueued, Resetting
<1>2. ResetOnItsWay' <=> posting' > 0 \/ ResetQueued' \/ Resetting'
  BY DEF ResetOnItsWay, ResetQueued, Resetting
<1> QED
  BY <1>1, <1>2 DEF StaleInv

\* A step that leaves nothing of another cloud preserves StaleInv.
LEMMA StaleGone == ASSUME ~OfAnotherCloud' PROVE StaleInv'
  BY DEF StaleInv

\* close changes no connection's cloud.
LEMMA CloseKeepsClouds ==
    ASSUME ClientTypes, CloseClient
    PROVE  client' = NoConn /\ \A k \in Conns : conn'[k].cloud = conn[k].cloud
  BY DEF ClientTypes, CloseClient, ReplaceClient, Connection

\* Steps of the loop that only move on: the credentials, the connections and
\* the queue stay, and nobody leaves a reset.
MovesOn ==
    \/ HandleTimer \/ SignOffSkip \/ SignOffDone \/ CheckInitialized \/ CheckSignedIn \/ UseConnection
    \/ DialFails \/ RefreshTokenSkip \/ SignUpSkip \/ SignInSkip \/ PublishSkip \/ PublishDone
    \/ UnpublishSkip \/ UnpublishDone \/ Finish

Requesting == SignOff \/ RefreshToken \/ SignUp \/ SignIn \/ Publish \/ Unpublish

\* Steps that close the connection and nothing else that matters here.
Closing ==
    HandleDone \/ CheckReconnect \/ StartDial \/ StepImpossible \/ StepRefused

\* Steps of the API leave nothing of another cloud without a reset to come.
LEMMA StaleAPI == IInv /\ StaleInv /\ API => StaleInv'
<1> SUFFICES ASSUME IInv, StaleInv, API PROVE StaleInv'
  OBVIOUS
<1>q. QueueTypes /\ posting \in Nat /\ lostReset \in BOOLEAN
  BY DEF IInv, TypeOK, QueueTypes, BoundTypes
<1>k. UNCHANGED <<client, signedIn, creds, conn, pc, call, target>>
  BY APIKeeps
<1>1. CASE Unregister \/ \E c \in Clouds : Post(c)
  <2>1. posting' = posting + 1
    BY <1>1 DEF Unregister, Post, Configure
  <2> QED
    BY <1>q, <2>1 DEF StaleInv, ResetOnItsWay
<1>o. ASSUME cfg' = cfg PROVE (OfAnotherCloud' => OfAnotherCloud) /\ (Resetting => Resetting')
  BY <1>k, <1>o DEF OfAnotherCloud, StaleRegistration, Resetting
<1>2. CASE TriggerReset
  <2>1. /\ cfg' = cfg /\ Enqueue(TRUE) /\ lostReset' = (lostReset \/ QueueFull)
        /\ crashes' = crashes
    BY <1>2 DEF TriggerReset, TriggerRunner, privateVars
  <2>2. CASE QueueFull
    BY <2>1, <2>2 DEF StaleInv
  <2>3. CASE ~QueueFull
    <3>1. ResetQueued'
      BY <1>q, <2>1, <2>3, EnqueueKeepsReset
    <3> QED
      BY <3>1 DEF StaleInv, ResetOnItsWay, ResetQueued
  <2> QED
    BY <2>2, <2>3
<1>3. CASE Reconnect \/ \E h \in Hrefs : PublishResources(h) \/ UnpublishResources(h)
  <2>1. /\ cfg' = cfg /\ Enqueue(FALSE) /\ posting' = posting /\ crashes' = crashes
    BY <1>3 DEF Reconnect, PublishResources, UnpublishResources, TriggerRunner, privateVars,
       boundVars
  <2>2. lostReset' = (lostReset \/ (FALSE /\ QueueFull))
    BY <1>3 DEF Reconnect, PublishResources, UnpublishResources, TriggerRunner
  <2>3. lostReset' = lostReset
    BY <1>q, <2>2
  <2>4. ResetQueued => ResetQueued'
    BY <1>q, <2>1, EnqueueKeepsReset
  <2> QED
    BY <1>o, <2>1, <2>3, <2>4, StaleKept
<1>4. CASE Close \/ \E h \in Hrefs : AddResource(h) \/ DeleteResource(h)
  <2>1. UNCHANGED <<cfg, trigger, lostReset, posting, crashes>>
    BY <1>4 DEF Close, AddResource, DeleteResource, privateVars, queueVars, boundVars
  <2>2. ResetQueued => ResetQueued'
    BY <2>1 DEF ResetQueued
  <2> QED
    BY <1>o, <2>1, <2>2, StaleKept
<1> QED
  BY <1>1, <1>2, <1>3, <1>4 DEF API

\* So do the steps of the loop that only move on.
LEMMA StaleMovesOn == IInv /\ StaleInv /\ MovesOn => StaleInv'
<1> SUFFICES ASSUME IInv, StaleInv, MovesOn PROVE StaleInv'
  OBVIOUS
<1>1. UNCHANGED <<creds, client, conn, trigger, lostReset, posting, crashes>>
  BY DEF MovesOn, HandleTimer, SignOffSkip, SignOffDone, CheckInitialized, CheckSignedIn,
     UseConnection, DialFails, RefreshTokenSkip, SignUpSkip, SignInSkip, PublishSkip,
     PublishDone, UnpublishSkip, UnpublishDone, Finish, privateVars, queueVars, boundVars
<1>2. call' \in {call, NoCall}
  BY DEF MovesOn, HandleTimer, SignOffSkip, SignOffDone, CheckInitialized, CheckSignedIn,
     UseConnection, DialFails, RefreshTokenSkip, SignUpSkip, SignInSkip, PublishSkip,
     PublishDone, UnpublishSkip, UnpublishDone, Finish, Proceed
<1>3. Resetting => Resetting'
  BY DEF MovesOn, HandleTimer, SignOffSkip, SignOffDone, CheckInitialized, CheckSignedIn,
     UseConnection, DialFails, RefreshTokenSkip, SignUpSkip, SignInSkip, PublishSkip,
     PublishDone, UnpublishSkip, UnpublishDone, Finish, Proceed, Entering, Returned, Resetting
<1>4. cfg' \in {cfg, [cfg EXCEPT !.status = "uninitialized"], [cfg EXCEPT !.status = "registered"]}
  BY DEF MovesOn, HandleTimer, SignOffSkip, SignOffDone, CheckInitialized, CheckSignedIn,
     UseConnection, DialFails, RefreshTokenSkip, SignUpSkip, SignInSkip, PublishSkip,
     PublishDone, UnpublishSkip, UnpublishDone, Finish, SetProvisioningStatus, privateVars
<1>5. cfg'.cloud = cfg.cloud
  BY <1>4 DEF IInv, TypeOK, ConfigTypes, Config
<1>8. pc' # "dial"
  BY DEF MovesOn, HandleTimer, SignOffSkip, SignOffDone, CheckInitialized, CheckSignedIn,
     UseConnection, DialFails, RefreshTokenSkip, SignUpSkip, SignInSkip, PublishSkip,
     PublishDone, UnpublishSkip, UnpublishDone, Finish, Proceed, FirstStep, Entering, Returned
<1>6. OfAnotherCloud' => OfAnotherCloud
  BY <1>1, <1>2, <1>5, <1>8, NothingOfAnotherCloud
<1>7. ResetQueued => ResetQueued'
  BY <1>1 DEF ResetQueued
<1> QED
  BY <1>1, <1>3, <1>6, <1>7, StaleKept

\* Requests go over the client.
LEMMA StaleRequesting == IInv /\ StaleInv /\ Requesting => StaleInv'
<1> SUFFICES ASSUME IInv, StaleInv, Requesting PROVE StaleInv'
  OBVIOUS
<1>1. UNCHANGED <<creds, client, conn, trigger, lostReset, posting, crashes, pc>>
  BY DEF Requesting, SignOff, RefreshToken, SignUp, SignIn, Publish, Unpublish, queueVars,
     boundVars
<1>2. client # NoConn /\ call'.conn = client
  BY DEF Requesting, SignOff, RefreshToken, SignUp, SignIn, Publish, Unpublish, SendRequest
<1>4. cfg' \in {cfg, [cfg EXCEPT !.status = "deregistering"], [cfg EXCEPT !.status = "registering"]}
  BY DEF Requesting, SignOff, RefreshToken, SignUp, SignIn, Publish, Unpublish,
     SetProvisioningStatus
<1>5. cfg'.cloud = cfg.cloud
  BY <1>4 DEF IInv, TypeOK, ConfigTypes, Config
<1>8. pc' # "dial"
  BY DEF Requesting, SignOff, RefreshToken, SignUp, SignIn, Publish, Unpublish, Entering
<1>6. OfAnotherCloud' => OfAnotherCloud
  BY <1>1, <1>2, <1>5, <1>8, NothingOfAnotherCloud
<1>7. (ResetQueued => ResetQueued') /\ (Resetting => Resetting')
  BY <1>1 DEF ResetQueued, Resetting
<1> QED
  BY <1>1, <1>6, <1>7, StaleKept

\* Closing the connection drops it, whatever its cloud.
LEMMA StaleClosing == IInv /\ StaleInv /\ Closing => StaleInv'
<1> SUFFICES ASSUME IInv, StaleInv, Closing PROVE StaleInv'
  OBVIOUS
<1>0. CloseClient /\ UNCHANGED <<cfg, creds, trigger, lostReset, posting, crashes>>
  BY DEF Closing, HandleDone, CheckReconnect, StartDial, StepImpossible, StepRefused, Fail,
     FailUnchanged, queueVars, boundVars
<1>1. client' = NoConn /\ \A k \in Conns : conn'[k].cloud = conn[k].cloud
  BY <1>0, CloseKeepsClouds DEF IInv, TypeOK
<1>2. call' \in {call, NoCall}
  BY DEF Closing, HandleDone, CheckReconnect, StartDial, StepImpossible, StepRefused, Fail
<1>3. ~Resetting
  BY DEF Closing, HandleDone, CheckReconnect, StartDial, StepImpossible, StepRefused, Entering,
     Returned, Resetting, Requests
<1>8. pc' = "dial" => target' = cfg.cloud
  BY DEF Closing, HandleDone, CheckReconnect, StartDial, StepImpossible, StepRefused, Fail
<1>6. OfAnotherCloud' => OfAnotherCloud
  BY <1>0, <1>1, <1>2, <1>8, NothingOfAnotherCloud
<1>7. ResetQueued => ResetQueued'
  BY <1>0 DEF ResetQueued
<1> QED
  BY <1>0, <1>3, <1>6, <1>7, StaleKept

\* A reset and a cleanup leave nothing; sign up over a connection to another
\* cloud yields credentials of that cloud only while the reset is on its way.
LEMMA StaleLoop == IInv /\ StaleInv /\ LoopStep => StaleInv'
<1> SUFFICES ASSUME IInv, StaleInv, LoopStep PROVE StaleInv'
  OBVIOUS
<1>1. CASE MovesOn \/ Requesting \/ Closing
  BY <1>1, StaleMovesOn, StaleRequesting, StaleClosing
<1>2. CASE HandleTrigger
  <2>1. /\ UNCHANGED <<cfg, creds, client, conn, call, lostReset, posting, crashes>>
        /\ ~Resetting /\ pc' # "dial"
    BY <1>2 DEF HandleTrigger, privateVars, boundVars, Resetting
  <2>2. ResetQueued => ResetQueued' \/ Resetting'
    BY <1>2, DequeueKeepsReset DEF IInv, TypeOK
  <2>3. OfAnotherCloud' => OfAnotherCloud
    BY <2>1 DEF OfAnotherCloud, StaleRegistration
  <2> QED
    BY <2>1, <2>2, <2>3, StaleKept
<1>3. CASE ResetCredentials
  <2>1. creds' = NoCreds /\ client' = NoConn /\ call' = call /\ pc = "reset" /\ pc' # "dial"
    BY <1>3 DEF ResetCredentials, CloseClient, ReplaceClient
  <2>2. call = NoCall
    BY <2>1 DEF IInv, ControlInv, CallInStep, PendingCall, Requests
  <2> QED
    BY <2>1, <2>2, StaleGone DEF OfAnotherCloud, StaleRegistration
<1>c. ASSUME Cleanup PROVE StaleInv'
  BY <1>c, StaleGone DEF Cleanup, Fail, CloseClient, ReplaceClient, OfAnotherCloud,
     StaleRegistration
<1>4. CASE RefreshTokenRefused
  BY <1>4, <1>c DEF RefreshTokenRefused
<1>5. CASE SignInRefused /\ ~Cleanup
  <2>0. CloseClient /\ UNCHANGED <<cfg, creds, trigger, lostReset, posting, crashes>>
        /\ call' = NoCall /\ ~Resetting /\ pc' # "dial"
    BY <1>5 DEF SignInRefused, Fail, FailUnchanged, queueVars, boundVars, Returned, Resetting
  <2>1. client' = NoConn /\ \A k \in Conns : conn'[k].cloud = conn[k].cloud
    BY <2>0, CloseKeepsClouds DEF IInv, TypeOK
  <2>2. OfAnotherCloud' => OfAnotherCloud
    BY <2>0, <2>1, NothingOfAnotherCloud
  <2>3. ResetQueued => ResetQueued'
    BY <2>0 DEF ResetQueued
  <2> QED
    BY <2>0, <2>2, <2>3, StaleKept
<1>6. CASE RefreshTokenDone \/ SignInDone
  <2>1. /\ UNCHANGED <<cfg, client, conn, trigger, lostReset, posting, crashes>>
        /\ call' = NoCall /\ ~Resetting /\ pc' # "dial"
    BY <1>6 DEF RefreshTokenDone, SignInDone, Proceed, Returned, Resetting, queueVars, boundVars
  <2>2. creds # NoCreds
    BY <1>6 DEF RefreshTokenDone, SignInDone, Returned, IInv, ControlInv, CredsInStep
  <2>3. creds'.cloud = creds.cloud
    <3>1. CASE RefreshTokenDone
      BY <2>2, <3>1, RefreshedCreds DEF IInv, TypeOK
    <3>2. CASE SignInDone
      BY <2>2, <3>2 DEF SignInDone, IInv, TypeOK, CredsTypes, Creds
    <3> QED
      BY <1>6, <3>1, <3>2
  <2>4. OfAnotherCloud' => OfAnotherCloud
    BY <2>1, <2>2, <2>3, NothingOfAnotherCloud
  <2>5. ResetQueued => ResetQueued'
    BY <2>1 DEF ResetQueued
  <2> QED
    BY <2>1, <2>4, <2>5, StaleKept
<1>7. CASE SignUpDone
  <2>1. /\ UNCHANGED <<cfg, client, conn, trigger, lostReset, posting, crashes>>
        /\ creds'.cloud = conn[call.conn].cloud
        /\ call' = NoCall /\ call.op = "signUp" /\ ~Resetting /\ pc' # "dial"
    BY <1>7 DEF SignUpDone, Proceed, Returned, Resetting, queueVars, boundVars
  <2>2. call # NoCall
    BY <2>1 DEF NoCall
  <2>3. OfAnotherCloud' => OfAnotherCloud
    BY <2>1, <2>2 DEF OfAnotherCloud, StaleRegistration
  <2>4. ResetQueued => ResetQueued'
    BY <2>1 DEF ResetQueued
  <2> QED
    BY <2>1, <2>3, <2>4, StaleKept
<1>8. ASSUME NEW k \in Conns, Dial(k) \/ DialLost(k) PROVE StaleInv'
  <2>1. /\ UNCHANGED <<cfg, creds, call, trigger, lostReset, posting, crashes>>
        /\ client' = k /\ pc = "dial" /\ pc' # "dial"
        /\ \E alive \in BOOLEAN : 
              conn' = [conn EXCEPT ![k] = [cloud |-> target, open |-> alive, hook |-> alive,
                                           session |-> FALSE]]
    BY <1>8 DEF Dial, DialLost, Dialled, ReplaceClient, FirstStep, queueVars, boundVars
  <2>2. conn'[k].cloud = target
    BY <2>1 DEF IInv, TypeOK, ClientTypes
  <2>3. call = NoCall /\ ~Resetting
    BY <2>1 DEF IInv, ControlInv, CallInStep, PendingCall, Requests, Resetting
  <2>4. OfAnotherCloud' => OfAnotherCloud
    BY <2>1, <2>2, <2>3 DEF OfAnotherCloud, StaleRegistration
  <2>5. ResetQueued => ResetQueued'
    BY <2>1 DEF ResetQueued
  <2> QED
    BY <2>1, <2>3, <2>4, <2>5, StaleKept
<1> QED
  BY <1>1, <1>2, <1>3, <1>c, <1>4, <1>5, <1>6, <1>7, <1>8
     DEF LoopStep, MovesOn, Requesting, Closing

\* The connection and the cloud change no configuration.
LEMMA StaleWorld == IInv /\ StaleInv /\ World => StaleInv'
<1> SUFFICES ASSUME IInv, StaleInv, World PROVE StaleInv'
  OBVIOUS
<1>1. CASE Crash
  <2>1. crashes' = crashes + 1 /\ crashes \in Nat
    BY <1>1, BoundsAssumption DEF Crash, IInv, TypeOK, BoundTypes
  <2> QED
    BY <2>1 DEF StaleInv
<1>2. CASE ~Crash
  <2>1. UNCHANGED <<cfg, trigger, lostReset, posting, crashes, pc, target>>
    BY <1>2 DEF World, LoseConnection, OnClose, CloudAccepts, CloudRefuses, CallFails, Expire,
       privateVars, queueVars, boundVars, loopVars
  <2>2. client' # NoConn => client' = client
    BY <1>2 DEF World, LoseConnection, OnClose, ReplaceClient, CloudAccepts, CloudRefuses, CallFails, Expire,
       privateVars
  <2>3. creds' # NoCreds => creds # NoCreds /\ creds'.cloud = creds.cloud
    <3>1. CASE Expire
      BY <3>1 DEF Expire, IInv, TypeOK, CredsTypes, Creds
    <3>2. CASE ~Expire
      BY <1>2, <3>2 DEF World, LoseConnection, OnClose, CloudAccepts, CloudRefuses, CallFails,
         privateVars
    <3> QED
      BY <3>1, <3>2
  <2>4. call' # NoCall => call # NoCall /\ call'.conn = call.conn
    <3>1. CASE call' = call
      BY <3>1
    <3>2. CASE call' # call
      <4>1. CloudAccepts \/ (\E r \in Replies : CloudRefuses(r)) \/ CallFails
        BY <1>2, <3>2 DEF World, LoseConnection, OnClose, Expire, loopVars
      <4>2. call.reply \in {"sent", "ok"}
        BY <4>1 DEF CloudAccepts, CloudRefuses, CallFails
      <4>3. call \in PendingCall
        BY <4>2 DEF IInv, TypeOK, LoopTypes, NoCall
      <4>4. call # NoCall
        BY <4>3, NoCallIsNot
      <4> QED
        BY <4>1, <4>3, <4>4 DEF CloudAccepts, CloudRefuses, CallFails, PendingCall
    <3> QED
      BY <3>1, <3>2
  <2>5. \A k \in Conns : conn'[k].cloud = conn[k].cloud
    <3>1. \/ conn' = conn
          \/ \E x \in Conns : \/ conn' = [conn EXCEPT ![x].open = FALSE]
                             \/ conn' = [conn EXCEPT ![x].hook = FALSE, ![x].session = FALSE]
          \/ conn' = [conn EXCEPT ![call.conn].session = TRUE]
      BY <1>2 DEF World, LoseConnection, OnClose, CloudAccepts, CloudRefuses, CallFails, Expire
    <3>0. conn \in [Conns -> Connection]
      BY DEF IInv, TypeOK, ClientTypes
    <3>2. ASSUME NEW x \in Conns, conn' = [conn EXCEPT ![x].open = FALSE]
          PROVE  \A k \in Conns : conn'[k].cloud = conn[k].cloud
      BY <3>0, <3>2 DEF Connection
    <3>3. ASSUME NEW x \in Conns, conn' = [conn EXCEPT ![x].hook = FALSE, ![x].session = FALSE]
          PROVE  \A k \in Conns : conn'[k].cloud = conn[k].cloud
      BY <3>0, <3>3 DEF Connection
    <3>4. ASSUME NEW x, conn' = [conn EXCEPT ![x].session = TRUE]
          PROVE  \A k \in Conns : conn'[k].cloud = conn[k].cloud
      BY <3>0, <3>4 DEF Connection
    <3> QED
      BY <3>1, <3>2, <3>3, <3>4
  <2>6. OfAnotherCloud' => OfAnotherCloud
    BY <2>1, <2>2, <2>3, <2>4, <2>5, NothingOfAnotherCloud
  <2>7. (ResetQueued => ResetQueued') /\ (Resetting => Resetting')
    BY <2>1 DEF ResetQueued, Resetting
  <2> QED
    BY <2>1, <2>6, <2>7, StaleKept
<1> QED
  BY <1>1, <1>2

LEMMA StaleStep == IInv /\ StaleInv /\ [Next]_vars => StaleInv'
<1>1. IInv /\ StaleInv /\ UNCHANGED vars => StaleInv'
  BY DEF StaleInv, OfAnotherCloud, StaleRegistration, ResetOnItsWay, vars, privateVars, loopVars,
     queueVars, boundVars
<1> QED
  BY <1>1, StaleAPI, StaleLoop, StaleWorld DEF Next

LEMMA StaleInvariant == Spec => []StaleInv
<1>1. Init => StaleInv
  BY DEF Init, StaleInv, OfAnotherCloud, StaleRegistration
<1> QED
  BY <1>1, StaleStep, InductiveInvariant, PTL DEF Spec

\* Until the process restarts, credentials and connections of a cloud that is
\* no longer configured are kept only while the reset that drops them is on
\* its way, for every capacity of the trigger channel and whatever fails.
THEOREM StaleRegistrationIsResetHolds == Spec => [](crashes = 0 => StaleRegistrationIsReset)
<1>1. StaleInv => (crashes = 0 => StaleRegistrationIsReset)
  BY DEF StaleInv, OfAnotherCloud, StaleRegistrationIsReset
<1> QED
  BY <1>1, StaleInvariant, PTL

\* Until the process restarts, a device whose configuration was removed and
\* whose manager has nothing left to do keeps no credentials and no client.
THEOREM UnregisteredKeepsNothing ==
    Spec => [](crashes = 0 /\ Quiet /\ cfg.cloud = NoCloud /\ ~lostReset => Unregistered)
<1>1. IInv /\ StaleInv =>
          (crashes = 0 /\ Quiet /\ cfg.cloud = NoCloud /\ ~lostReset => Unregistered)
  <2> SUFFICES ASSUME IInv, StaleInv, crashes = 0, Quiet, cfg.cloud = NoCloud, ~lostReset
               PROVE  Unregistered
    OBVIOUS
  <2>1. ~ResetOnItsWay
    BY DEF Quiet, ResetOnItsWay
  <2>2. ~StaleRegistration
    BY <2>1 DEF StaleInv, OfAnotherCloud
  <2>3. creds # NoCreds => creds.cloud # NoCloud
    BY NullsAssumption DEF IInv, TypeOK, CredsTypes, Creds
  <2>4. client # NoConn => conn[client].cloud # NoCloud
    BY NullsAssumption DEF IInv, ControlInv, ConnHasCloud
  <2> QED
    BY <2>2, <2>3, <2>4 DEF StaleRegistration, Unregistered
<1> QED
  BY <1>1, StaleInvariant, InductiveInvariant, PTL

------------------------------------------------------------------------------
(* The resource directory of the cloud, when no request fails               *)

\* No connection is lost, no request times out or is refused, and nobody asks
\* for a reconnect or restarts the device.  Dialling may fail, tokens expire,
\* and the device may be closed.
NothingFails ==
    /\ Faults \cap {"lose", "timeout", "error", "unauthorized"} = {}
    /\ MaxReconnects = 0 /\ MaxCrashes = 0

\* The connection stays until the device is reset, and the loop knows where it is.
CalmInv ==
    /\ ~reconnect /\ crashes = 0
    /\ client # NoConn => conn[client].open
    /\ call # NoCall => call.conn = client /\ call.reply \in {"sent", "ok"}
    /\ signedIn => client # NoConn
    /\ pc \in {"idle", "check", "connect", "publish", "unpublish", "finish"} /\ client # NoConn => signedIn
    /\ pc \in {"signIn", "publish", "unpublish", "finish"} => creds # NoCreds
    /\ pc \in {"dial", "closed"} => client = NoConn
    /\ resourcesPublished /\ pc # "closed" => client # NoConn /\ creds # NoCreds

\* Only the cloud the device is registered with has its resources, and none
\* has when the device has signed off.
RegisteredInv == pc # "closed" =>
    \A c \in Clouds : rd[c] # {} =>
        /\ client # NoConn /\ conn[client].cloud = c /\ creds # NoCreds
        /\ pc # "reset" /\ ~(pc = "signOff" /\ call.reply = "ok")

\* A resource is added and deleted by turns.
ResourcesInv == adding \subseteq res /\ deleting \cap res = {} /\ ready.unpub \cap res \subseteq adding

\* What was to be published is forgotten only when all will be published again.
Forgot == ResetOnItsWay \/ lostReset

Sent(op) == IF call.op = op /\ call.reply = "sent" THEN call.hrefs ELSE {}

\* All resources are going to be published.
PublishesAll ==
    ~resourcesPublished /\ (pc \in {"refreshToken", "signUp", "signIn"} \/ Entering("publish"))

\* A resource is in the cloud and stays there, or is going to be published.
MissingInv == client # NoConn /\ ~Forgot =>
    \A h \in res : \/ h \in adding \union ready.pub \union Sent("publish")
                   \/ h \in rd[conn[client].cloud] \ Sent("unpublish")
                   \/ PublishesAll

\* What is not a resource any more is not in the cloud, or is going to be
\* unpublished.
ExtraInv == client # NoConn /\ ~Forgot =>
    (rd[conn[client].cloud] \union Sent("publish")) \ res \subseteq
        deleting \union ready.unpub \union Sent("unpublish")

\* The loop is going to look at what is to be published and unpublished.
AwakeInv == client # NoConn /\ ~Forgot /\ trigger = <<>> =>
    /\ ready.pub # {} =>
        pc \in {"check", "connect", "refreshToken", "signUp", "signIn"} \/ Entering("publish")
    /\ ready.unpub # {} =>
        pc \in {"check", "connect", "refreshToken", "signUp", "signIn", "publish", "unpublish"}

DirectoryInv ==
    CalmInv /\ RegisteredInv /\ ResourcesInv /\ MissingInv /\ ExtraInv /\ AwakeInv

\* What may happen when nothing fails: the callbacks are those of connections
\* that the loop has closed.
CalmAPI ==
    \/ Unregister \/ TriggerReset \/ Close \/ \E c \in Clouds : Post(c)
    \/ \E h \in Hrefs : AddResource(h) \/ PublishResources(h)
                        \/ DeleteResource(h) \/ UnpublishResources(h)
CalmLoop ==
    \/ MovesOn \/ Requesting \/ HandleTrigger \/ HandleDone \/ ResetCredentials \/ StartDial
    \/ (\E k \in Conns : Dial(k)) \/ RefreshTokenDone \/ SignUpDone \/ SignInDone \/ StepImpossible
CalmWorld == (\E k \in Conns : OnClose(k) /\ client # k) \/ CloudAccepts \/ Expire

\* Nothing else happens then.
LEMMA CalmSteps == ASSUME NothingFails, IInv, CalmInv, Next PROVE CalmAPI \/ CalmLoop \/ CalmWorld
<1>1. ~Reconnect /\ ~Crash
  BY BoundsAssumption DEF NothingFails, Reconnect, Crash, IInv, TypeOK, BoundTypes
<1>2. /\ \A k \in Conns : ~LoseConnection(k) /\ ~DialLost(k)
      /\ \A r \in Replies : ~CloudRefuses(r)
  BY DEF NothingFails, LoseConnection, DialLost, CloudRefuses
<1>3. ~CheckReconnect
  BY DEF CalmInv, CheckReconnect
<1>4. call.op \in Requests => call # NoCall
  BY DEF NoCall, Requests
<1>5. \A op \in Requests, r \in {"error", "unauthorized"} : ~Returned(op, r)
  BY <1>4 DEF CalmInv, Returned
<1>6. ~RefreshTokenRefused /\ ~SignInRefused /\ ~StepRefused
  BY <1>5 DEF RefreshTokenRefused, SignInRefused, StepRefused, Requests
<1>7. call # NoCall => client # NoConn
  BY NullsAssumption DEF CalmInv, IInv, TypeOK, LoopTypes, PendingCall
<1>8. ~CallFails
  <2> SUFFICES ASSUME CallFails PROVE FALSE
    OBVIOUS
  <2>1. call # NoCall
    BY DEF CallFails, NoCall
  <2> QED
    BY <1>7, <2>1 DEF CallFails, NothingFails, CalmInv
<1>9. \A k \in Conns : OnClose(k) => client # k
  BY NullsAssumption DEF OnClose, CalmInv
<1> QED
  BY <1>1, <1>2, <1>3, <1>6, <1>8, <1>9
     DEF Next, API, LoopStep, World, CalmAPI, CalmLoop, CalmWorld, MovesOn, Requesting

\* Only the reset itself makes a reset that is on its way, or lost, forgotten.
LEMMA ForgotStays ==
    ASSUME IInv, CalmAPI \/ CalmLoop \/ CalmWorld, ~ResetCredentials, Forgot
    PROVE  Forgot'
<1>q. QueueTypes /\ posting \in Nat /\ lostReset \in BOOLEAN
  BY DEF IInv, TypeOK, QueueTypes, BoundTypes
<1>f. Forgot <=> posting > 0 \/ ResetQueued \/ Resetting \/ lostReset
  BY DEF Forgot, ResetOnItsWay, ResetQueued, Resetting
<1>g. Forgot' <=> posting' > 0 \/ ResetQueued' \/ Resetting' \/ lostReset'
  BY DEF Forgot, ResetOnItsWay, ResetQueued, Resetting
<1>1. CASE Unregister \/ \E c \in Clouds : Post(c)
  <2>1. posting' = posting + 1
    BY <1>1 DEF Unregister, Post, Configure
  <2> QED
    BY <1>q, <1>g, <2>1
<1>2. CASE TriggerReset
  BY <1>2, <1>q, <1>g, EnqueueKeepsReset DEF TriggerReset, TriggerRunner
<1>3. CASE \E h \in Hrefs : PublishResources(h) \/ UnpublishResources(h)
  <2>1. UNCHANGED <<posting, pc>> /\ Enqueue(FALSE) /\ lostReset' = (lostReset \/ (FALSE /\ QueueFull))
    BY <1>3 DEF PublishResources, UnpublishResources, TriggerRunner, boundVars, loopVars
  <2>2. ResetQueued => ResetQueued'
    BY <1>q, <2>1, EnqueueKeepsReset
  <2> QED
    BY <1>q, <1>f, <1>g, <2>1, <2>2 DEF Resetting
<1>4. CASE HandleTrigger
  <2>1. UNCHANGED <<posting, lostReset>> /\ ~Resetting
    BY <1>4 DEF HandleTrigger, boundVars, Resetting
  <2> QED
    BY <1>4, <1>q, <1>f, <1>g, <2>1, DequeueKeepsReset
<1>5. CASE Close \/ (\E h \in Hrefs : AddResource(h) \/ DeleteResource(h)) \/ CalmWorld
  <2>1. UNCHANGED <<posting, lostReset, trigger, pc>>
    BY <1>5 DEF Close, AddResource, DeleteResource, CalmWorld, OnClose, CloudAccepts, Expire,
       boundVars, queueVars, loopVars
  <2> QED
    BY <1>f, <1>g, <2>1 DEF ResetQueued, Resetting
<1>6. CASE MovesOn \/ Requesting
  <2>1. UNCHANGED <<posting, lostReset, trigger>>
    BY <1>6 DEF MovesOn, HandleTimer, SignOffSkip, SignOffDone, CheckInitialized, CheckSignedIn,
       UseConnection, DialFails, RefreshTokenSkip, SignUpSkip, SignInSkip, PublishSkip,
       PublishDone, UnpublishSkip, UnpublishDone, Finish, Requesting, SignOff, RefreshToken,
       SignUp, SignIn, Publish, Unpublish, boundVars, queueVars
  <2>2. Resetting => Resetting'
    BY <1>6 DEF MovesOn, HandleTimer, SignOffSkip, SignOffDone, CheckInitialized, CheckSignedIn,
       UseConnection, DialFails, RefreshTokenSkip, SignUpSkip, SignInSkip, PublishSkip,
       PublishDone, UnpublishSkip, UnpublishDone, Finish, Requesting, SignOff, RefreshToken,
       SignUp, SignIn, Publish, Unpublish, Proceed, Entering, Returned, Resetting
  <2> QED
    BY <1>f, <1>g, <2>1, <2>2 DEF ResetQueued
<1>7. CASE \/ HandleDone \/ StartDial \/ (\E k \in Conns : Dial(k)) \/ RefreshTokenDone
           \/ SignUpDone \/ SignInDone \/ StepImpossible
  <2>1. UNCHANGED <<posting, lostReset, trigger>> /\ ~Resetting
    BY <1>7 DEF HandleDone, StartDial, Dial, Dialled, RefreshTokenDone, SignUpDone, SignInDone,
       StepImpossible, FailUnchanged, Entering, Returned, boundVars, queueVars, Resetting
  <2> QED
    BY <1>f, <1>g, <2>1 DEF ResetQueued
<1> QED
  BY <1>1, <1>2, <1>3, <1>4, <1>5, <1>6, <1>7 DEF CalmAPI, CalmLoop

\* Changing a token leaves a token.
LEMMA CredsStay ==
    ASSUME IInv, creds # NoCreds
    PROVE  /\ [creds EXCEPT !.expiring = FALSE] # NoCreds
           /\ [creds EXCEPT !.expiring = TRUE] # NoCreds
<1>1. creds \in Creds /\ NoCreds \notin Creds
  BY CredsAssumption DEF IInv, TypeOK, CredsTypes, Creds
<1> QED
  BY <1>1, CredsFields

\* The connection and the loop stay as CalmInv says.
LEMMA CalmStep ==
    ASSUME NothingFails, IInv, CalmInv, CalmAPI \/ CalmLoop \/ CalmWorld
    PROVE  CalmInv'
<1> USE NullsAssumption
<1>t. /\ client \in Conns \cup {NoConn} /\ conn \in [Conns -> Connection]
      /\ call \in PendingCall \cup {NoCall}
  BY DEF IInv, TypeOK, ClientTypes, LoopTypes
<1>c. call # NoCall => client # NoConn /\ call.op = pc
  BY DEF CalmInv, IInv, TypeOK, LoopTypes, PendingCall, ControlInv, CallInStep
<1>1. CASE CalmAPI
  <2>1. UNCHANGED <<client, signedIn, creds, conn, pc, call>>
    BY <1>1, APIKeeps DEF CalmAPI, API
  <2>2. UNCHANGED <<resourcesPublished, reconnect, crashes>>
    BY <1>1 DEF CalmAPI, Unregister, Post, Configure, TriggerReset, Close, AddResource,
       PublishResources, DeleteResource, UnpublishResources, flagVars, boundVars
  <2> QED
    BY <2>1, <2>2 DEF CalmInv
<1>2. CASE MovesOn
  <2>1. UNCHANGED <<client, creds, conn, reconnect, crashes, signedIn>> /\ call' \in {call, NoCall}
    BY <1>2 DEF MovesOn, HandleTimer, SignOffSkip, SignOffDone, CheckInitialized, CheckSignedIn,
       UseConnection, DialFails, RefreshTokenSkip, SignUpSkip, SignInSkip, PublishSkip,
       PublishDone, UnpublishSkip, UnpublishDone, Finish, Proceed, privateVars, flagVars,
       boundVars
  <2>2. /\ pc' \in {"idle", "check", "connect", "publish", "unpublish", "finish"} /\ client # NoConn =>
             signedIn
        /\ pc' \in {"signIn", "publish", "unpublish", "finish"} => creds # NoCreds
        /\ pc' \notin {"dial", "closed"} /\ pc # "closed"
    BY <1>2, <1>t DEF CalmInv, MovesOn, HandleTimer, SignOffSkip, SignOffDone, CheckInitialized, CheckSignedIn,
       UseConnection, FirstStep, DialFails, RefreshTokenSkip, SignUpSkip, SignInSkip, PublishSkip,
       PublishDone, UnpublishSkip, UnpublishDone, Finish, Proceed, Entering, Returned
  <2>3. resourcesPublished' => client # NoConn /\ creds # NoCreds
    <3>1. CASE PublishDone
      BY <3>1, <1>c DEF PublishDone, Returned, CalmInv, NoCall
    <3>2. CASE ~PublishDone
      <4>1. resourcesPublished' = resourcesPublished
        BY <1>2, <3>2 DEF MovesOn, HandleTimer, SignOffSkip, SignOffDone, CheckInitialized,
           CheckSignedIn, UseConnection, DialFails, RefreshTokenSkip, SignUpSkip, SignInSkip,
           PublishSkip, UnpublishSkip, UnpublishDone, Finish, flagVars
      <4> QED
        BY <4>1, <2>2 DEF CalmInv
    <3> QED
      BY <3>1, <3>2
  <2> QED
    BY <2>1, <2>2, <2>3 DEF CalmInv
<1>3. CASE Requesting
  <2>1. /\ UNCHANGED <<client, creds, conn, reconnect, crashes, signedIn, pc, resourcesPublished>>
        /\ call'.conn = client /\ call'.reply = "sent"
    BY <1>3 DEF Requesting, SignOff, RefreshToken, SignUp, SignIn, Publish, Unpublish,
       SendRequest, privateVars, flagVars, boundVars
  <2> QED
    BY <2>1 DEF CalmInv
<1>4. CASE HandleTrigger
  BY <1>4 DEF CalmInv, HandleTrigger, privateVars, flagVars, boundVars
<1>n. pc \in {"idle", "reset", "check", "connect", "dial", "finish", "closed"} => call = NoCall
  BY <1>c, <1>t DEF PendingCall, Requests
<1>5. CASE HandleDone \/ ResetCredentials \/ StartDial \/ StepImpossible
  <2>1. client' = NoConn /\ signedIn' = FALSE
    BY <1>5 DEF HandleDone, ResetCredentials, StartDial, StepImpossible, Fail, CloseClient,
       ReplaceClient
  <2>2. crashes' = crashes /\ (reconnect' = reconnect \/ reconnect' = FALSE)
    BY <1>5 DEF HandleDone, ResetCredentials, StartDial, StepImpossible, FailUnchanged, flagVars,
       boundVars
  <2>6. ~reconnect'
    BY <2>2 DEF CalmInv
  <2>3. call' = NoCall
    BY <1>5, <1>n DEF HandleDone, ResetCredentials, StartDial, StepImpossible, Fail
  <2>4. pc' \in {"idle", "check", "dial", "closed"}
    BY <1>5 DEF HandleDone, ResetCredentials, StartDial, StepImpossible, Fail
  <2>5. resourcesPublished' => pc' = "closed"
    BY <1>5 DEF HandleDone, ResetCredentials, StartDial, Alive, StepImpossible, FailUnchanged,
       Entering, CalmInv
  <2> QED
    BY <2>1, <2>2, <2>3, <2>4, <2>5, <2>6 DEF CalmInv
<1>6. ASSUME NEW k \in Conns, Dial(k) PROVE CalmInv'
  <2>1. /\ client' = k /\ pc' \in {"refreshToken", "signUp"} /\ pc = "dial"
        /\ UNCHANGED <<creds, resourcesPublished, reconnect, call, crashes>> /\ signedIn' = FALSE
        /\ conn' = [conn EXCEPT ![k] = [cloud |-> target, open |-> TRUE, hook |-> TRUE,
                                        session |-> FALSE]]
    BY <1>6 DEF Dial, Dialled, ReplaceClient, FirstStep, flagVars, boundVars
  <2>2. conn'[k].open
    BY <1>t, <2>1
  <2>3. client = NoConn /\ call = NoCall
    BY <1>n, <2>1 DEF CalmInv
  <2> QED
    BY <2>1, <2>2, <2>3 DEF CalmInv
<1>7. CASE RefreshTokenDone \/ SignInDone
  <2>1. /\ UNCHANGED <<client, conn, resourcesPublished, reconnect, crashes>> /\ call' = NoCall
        /\ pc \in {"refreshToken", "signIn"}
        /\ pc' = "signUp" \/ (pc' = "publish" /\ signedIn' = TRUE)
        /\ call.op \in Requests
    <3>1. CASE RefreshTokenDone
      BY <3>1 DEF RefreshTokenDone, Proceed, Returned, flagVars, boundVars, Requests
    <3>2. CASE SignInDone
      BY <3>2 DEF SignInDone, Proceed, Returned, flagVars, boundVars, Requests
    <3> QED
      BY <1>7, <3>1, <3>2
  <2>2. creds # NoCreds /\ client # NoConn
    <3>1. call.op = pc /\ pc \in {"refreshToken", "signIn"}
      BY <1>7 DEF RefreshTokenDone, SignInDone, Returned
    <3>2. call # NoCall
      BY <3>1 DEF NoCall
    <3> QED
      BY <1>c, <3>1, <3>2 DEF IInv, ControlInv, CredsInStep
  <2>3. creds' # NoCreds
    <3>1. CASE RefreshTokenDone
      BY <2>2, <3>1, RefreshedCreds DEF IInv, TypeOK
    <3>2. CASE SignInDone
      BY <2>2, <3>2, CredsStay DEF SignInDone
    <3> QED
      BY <1>7, <3>1, <3>2
  <2> QED
    BY <2>1, <2>2, <2>3 DEF CalmInv
<1>8. CASE SignUpDone
  <2>1. /\ UNCHANGED <<client, conn, resourcesPublished, reconnect, crashes>> /\ call' = NoCall
        /\ signedIn' = FALSE /\ pc = "signUp" /\ pc' = "signIn" /\ call # NoCall
    BY <1>8 DEF SignUpDone, Proceed, Returned, flagVars, boundVars, NoCall
  <2>2. creds' # NoCreds
    <3>1. PICK refresh \in BOOLEAN :
              creds' = [cloud |-> conn[call.conn].cloud, refresh |-> refresh, expiring |-> FALSE]
      BY <1>8 DEF SignUpDone
    <3>2. conn[call.conn].cloud \in Clouds
      BY <2>1 DEF IInv, ControlInv, ConnHasCloud
    <3>3. creds' \in [cloud : Clouds, refresh : BOOLEAN, expiring : BOOLEAN]
      BY <3>1, <3>2
    <3> QED
      BY <3>3, CredsAssumption
  <2> QED
    BY <2>1, <2>2 DEF CalmInv
<1>9. ASSUME NEW k \in Conns, OnClose(k), client # k PROVE CalmInv'
  <2>1. /\ UNCHANGED <<client, signedIn, creds, resourcesPublished, reconnect, call, crashes, pc>>
        /\ conn' = [conn EXCEPT ![k].hook = FALSE, ![k].session = FALSE]
    BY <1>9 DEF OnClose, OwnsClient, flagVars, boundVars, loopVars
  <2>2. client # NoConn => conn'[client].open = conn[client].open
    BY <1>9, <1>t, <2>1
  <2> QED
    BY <2>1, <2>2 DEF CalmInv
<1>10. CASE CloudAccepts
  <2>1. /\ UNCHANGED <<client, signedIn, creds, resourcesPublished, reconnect, crashes, pc>>
        /\ call.reply = "sent" /\ call' = [call EXCEPT !.reply = "ok"]
        /\ conn' = conn \/ conn' = [conn EXCEPT ![call.conn].session = TRUE]
    BY <1>10 DEF CloudAccepts, privateVars, flagVars, boundVars
  <2>2. client # NoConn => conn'[client].open = conn[client].open
    BY <1>t, <2>1 DEF Connection
  <2>3. call # NoCall
    BY <2>1 DEF NoCall
  <2>4. call'.conn = call.conn /\ call'.reply = "ok"
    BY <1>t, <2>1, <2>3 DEF PendingCall
  <2> QED
    BY <2>1, <2>2, <2>3, <2>4 DEF CalmInv
<1>11. CASE Expire
  <2>1. /\ UNCHANGED <<client, signedIn, conn, call, resourcesPublished, reconnect, crashes, pc>>
        /\ creds # NoCreds /\ creds' = [creds EXCEPT !.expiring = TRUE]
    BY <1>11 DEF Expire, flagVars, boundVars, loopVars
  <2> QED
    BY <2>1, CredsStay DEF CalmInv
<1> QED
  BY <1>1, <1>2, <1>3, <1>4, <1>5, <1>6, <1>7, <1>8, <1>9, <1>10, <1>11 DEF CalmLoop, CalmWorld

\* A step that leaves the directories alone and drops neither the client nor
\* the credentials, preserves RegisteredInv unless it signs off.
LEMMA RegisteredKept ==
    ASSUME RegisteredInv, rd' = rd, client' = client, pc # "closed", creds' # NoCreds \/ creds = NoCreds,
           client # NoConn => conn'[client].cloud = conn[client].cloud,
           pc' # "reset", pc' = "signOff" => call'.reply # "ok"
    PROVE  RegisteredInv'
  BY DEF RegisteredInv

\* A cloud gets resources from a registered device only, and loses all of them
\* when the device signs off.
LEMMA RegisteredStep ==
    ASSUME NothingFails, IInv, CalmInv, CalmInv', RegisteredInv, CalmAPI \/ CalmLoop \/ CalmWorld
    PROVE  RegisteredInv'
<1> USE NullsAssumption
<1>t. /\ client \in Conns \cup {NoConn} /\ conn \in [Conns -> Connection]
      /\ call \in PendingCall \cup {NoCall} /\ rd \in [Clouds -> SUBSET Hrefs]
  BY DEF IInv, TypeOK, ClientTypes, LoopTypes, WorldTypes
<1>c. call # NoCall => client # NoConn /\ call.op = pc
  BY DEF CalmInv, IInv, TypeOK, LoopTypes, PendingCall, ControlInv, CallInStep
<1>e. ASSUME \A c \in Clouds : rd[c] = {}, rd' = rd PROVE RegisteredInv'
  BY <1>e DEF RegisteredInv
<1>1. CASE CalmAPI
  <2>1. UNCHANGED <<client, creds, conn, pc, call, rd>>
    BY <1>1, APIKeeps DEF CalmAPI, API, Unregister, Post, Configure, TriggerReset, Close, AddResource,
       PublishResources, DeleteResource, UnpublishResources, worldVars
  <2> QED
    BY <2>1 DEF RegisteredInv
<1>2. CASE SignOffSkip \/ SignOffDone \/ ResetCredentials \/ StartDial \/ StepImpossible
           \/ \E k \in Conns : Dial(k)
  <2>1. rd' = rd /\ pc # "closed"
    BY <1>2 DEF SignOffSkip, SignOffDone, ResetCredentials, StartDial, StepImpossible, Dial, Dialled,
       FailUnchanged, worldVars, Entering, Returned
  <2>2. \/ client = NoConn \/ creds = NoCreds \/ pc = "reset"
        \/ (pc = "signOff" /\ call.reply = "ok")
    <3>1. CASE SignOffDone
      <4>1. pc = "signOff" /\ call.op = "signOff" /\ call.reply \in Replies
        BY <3>1 DEF SignOffDone, Returned
      <4> QED
        BY <4>1 DEF CalmInv, NoCall, Replies
    <3>2. CASE ~SignOffDone
      BY <1>2, <3>2 DEF SignOffSkip, ResetCredentials, StartDial, StepImpossible, Dial, Dialled,
         Alive, CalmInv
    <3> QED
      BY <3>1, <3>2
  <2> QED
    BY <1>e, <2>1, <2>2 DEF RegisteredInv
<1>3. CASE MovesOn /\ ~SignOffSkip /\ ~SignOffDone
  <2>1. UNCHANGED <<rd, client, creds, conn>> /\ pc # "closed" /\ pc' \notin {"reset", "signOff"}
    BY <1>3 DEF MovesOn, HandleTimer, CheckInitialized, CheckSignedIn, UseConnection, FirstStep,
       DialFails, RefreshTokenSkip, SignUpSkip, SignInSkip, PublishSkip, PublishDone,
       UnpublishSkip, UnpublishDone, Finish, Proceed, Entering, Returned, privateVars, worldVars
  <2> QED
    BY <2>1, RegisteredKept
<1>4. CASE Requesting
  <2>1. UNCHANGED <<rd, client, creds, conn, pc>> /\ pc \notin {"closed", "reset"} /\ call'.reply = "sent"
    BY <1>4 DEF Requesting, SignOff, RefreshToken, SignUp, SignIn, Publish, Unpublish, Entering,
       SendRequest, worldVars
  <2> QED
    BY <2>1, RegisteredKept
<1>5. CASE HandleTrigger
  <2>1. UNCHANGED <<rd, client, creds, conn, call>> /\ pc = "idle" /\ pc' \in {"signOff", "check"}
    BY <1>5 DEF HandleTrigger, privateVars, worldVars
  <2>2. call = NoCall
    BY <1>c, <1>t, <2>1 DEF PendingCall, Requests
  <2> QED
    BY <2>1, <2>2, RegisteredKept DEF NoCall
<1>6. CASE HandleDone
  BY <1>6 DEF HandleDone, RegisteredInv
<1>7. CASE RefreshTokenDone \/ SignInDone \/ SignUpDone
  <2>1. /\ UNCHANGED <<rd, client, conn>> /\ pc # "closed" /\ pc' \in {"signUp", "publish", "signIn"}
    BY <1>7 DEF RefreshTokenDone, SignInDone, SignUpDone, Proceed, Returned
  <2>2. creds' # NoCreds \/ creds = NoCreds
    <3>1. CASE SignUpDone
      BY <3>1 DEF SignUpDone, Proceed, CalmInv
    <3>2. CASE ~SignUpDone
      BY <1>7, <3>2, CredsStay, RefreshedCreds DEF IInv, TypeOK, SignInDone
    <3> QED
      BY <3>1, <3>2
  <2> QED
    BY <2>1, <2>2, RegisteredKept
<1>8. ASSUME NEW k \in Conns, OnClose(k), client # k PROVE RegisteredInv'
  <2>1. /\ UNCHANGED <<client, creds, call, pc, rd>>
        /\ conn' = [conn EXCEPT ![k].hook = FALSE, ![k].session = FALSE]
    BY <1>8 DEF OnClose, OwnsClient, loopVars, worldVars
  <2>2. client # NoConn => conn'[client].cloud = conn[client].cloud
    BY <1>8, <1>t, <2>1
  <2> QED
    BY <2>1, <2>2 DEF RegisteredInv
<1>9. CASE Expire
  <2>1. UNCHANGED <<client, call, pc, rd, conn>> /\ creds' # NoCreds
    BY <1>9, CredsStay DEF Expire, loopVars, worldVars
  <2> QED
    BY <2>1 DEF RegisteredInv
<1>10. CASE CloudAccepts
  <2>1. /\ UNCHANGED <<client, creds, pc>> /\ call.reply = "sent"
        /\ conn' = conn \/ conn' = [conn EXCEPT ![call.conn].session = TRUE]
        /\ \A c \in Clouds : c # conn[call.conn].cloud => rd'[c] = rd[c]
    BY <1>10, <1>t DEF CloudAccepts, privateVars
  <2>2. client # NoConn => conn'[client].cloud = conn[client].cloud
    BY <1>t, <2>1 DEF Connection
  <2>3. call # NoCall
    BY <2>1 DEF NoCall
  <2>4. call.conn = client /\ call.op = pc /\ client # NoConn /\ pc # "closed" /\ pc # "reset"
    BY <1>c, <1>t, <2>3 DEF CalmInv, PendingCall, Requests
  <2>5. pc # "signOff" => rd'[conn[client].cloud] = {} \/ rd[conn[client].cloud] # {} \/ pc = "publish"
    BY <1>10, <1>t, <2>4 DEF CloudAccepts
  <2>6. pc = "signOff" => rd'[conn[client].cloud] = {}
    BY <1>10, <1>t, <2>4 DEF CloudAccepts, IInv, ControlInv, ConnHasCloud
  <2>7. pc = "publish" => creds # NoCreds
    BY DEF CalmInv
  <2> QED
    BY <2>1, <2>2, <2>4, <2>5, <2>6, <2>7 DEF RegisteredInv
<1> QED
  BY <1>1, <1>2, <1>3, <1>4, <1>5, <1>6, <1>7, <1>8, <1>9, <1>10 DEF CalmLoop, CalmWorld, MovesOn

\* What is ready only gets less, except by the device's own calls.
LEMMA ReadyShrinks ==
    ASSUME IInv, CalmLoop \/ CalmWorld
    PROVE  /\ UNCHANGED <<res, adding, deleting>>
           /\ ready'.pub \subseteq ready.pub /\ ready'.unpub \subseteq ready.unpub
<1>t. ready \in [pub : SUBSET Hrefs, unpub : SUBSET Hrefs]
  BY DEF IInv, TypeOK, ConfigTypes
<1>n. NothingReady.pub = {} /\ NothingReady.unpub = {}
  BY DEF NothingReady
<1>1. CASE MovesOn
  <2>1. UNCHANGED <<res, adding, deleting>>
    BY <1>1 DEF MovesOn, HandleTimer, SignOffSkip, SignOffDone, CheckInitialized, CheckSignedIn,
       UseConnection, DialFails, RefreshTokenSkip, SignUpSkip, SignInSkip, PublishSkip,
       PublishDone, UnpublishSkip, UnpublishDone, Finish, deviceVars
  <2>2. ready' \in {ready, NothingReady, [ready EXCEPT !.pub = {}]}
    BY <1>1 DEF MovesOn, HandleTimer, SignOffSkip, SignOffDone, CheckInitialized, CheckSignedIn,
       ResetPublishing, UseConnection, DialFails, RefreshTokenSkip, SignUpSkip, SignInSkip,
       PublishSkip, PopReadyToPublish, PublishDone, UnpublishSkip, UnpublishDone, Finish,
       privateVars
  <2> QED
    BY <1>t, <1>n, <2>1, <2>2
<1>2. CASE Unpublish \/ StepImpossible
  <2>1. UNCHANGED <<res, adding, deleting>>
    BY <1>2 DEF Unpublish, StepImpossible, FailUnchanged, deviceVars
  <2>2. \/ ready' = ready \/ ready' = [ready EXCEPT !.pub = {}]
        \/ \E b \in Batches : ready' = [ready EXCEPT !.unpub = @ \ b]
    BY <1>2 DEF Unpublish, StepImpossible, PopReadyToPublish, PopReadyToUnpublish
  <2> QED
    BY <1>t, <2>1, <2>2
<1>3. CASE Requesting /\ ~Unpublish
  <2>1. UNCHANGED <<res, adding, deleting>> /\ ready' \in {ready, [ready EXCEPT !.pub = {}]}
    BY <1>3 DEF Requesting, SignOff, RefreshToken, SignUp, SignIn, Publish, PopReadyToPublish, deviceVars
  <2> QED
    BY <1>t, <2>1
<1>4. CASE \/ HandleTrigger \/ HandleDone \/ ResetCredentials \/ StartDial \/ (\E k \in Conns : Dial(k))
           \/ RefreshTokenDone \/ SignUpDone \/ SignInDone \/ CalmWorld
  BY <1>4 DEF HandleTrigger, HandleDone, ResetCredentials, StartDial, Dial, Dialled, RefreshTokenDone,
     SignUpDone, SignInDone, CalmWorld, OnClose, CloudAccepts, Expire, privateVars, deviceVars
<1> QED
  BY <1>1, <1>2, <1>3, <1>4 DEF CalmLoop

\* The device's own calls come by turns, and nobody else makes more ready.
LEMMA ResourcesStep ==
    ASSUME IInv, ResourcesInv, CalmAPI \/ CalmLoop \/ CalmWorld
    PROVE  ResourcesInv'
<1>t. ready \in [pub : SUBSET Hrefs, unpub : SUBSET Hrefs]
  BY DEF IInv, TypeOK, ConfigTypes
<1>1. CASE Unregister \/ TriggerReset \/ Close \/ \E c \in Clouds : Post(c)
  <2>1. UNCHANGED <<res, adding, deleting>> /\ ready' \in {ready, NothingReady}
    BY <1>1 DEF Unregister, Post, Configure, SetCloudConfiguration, TriggerReset, Close, privateVars, deviceVars
  <2> QED
    BY <2>1 DEF ResourcesInv, NothingReady
<1>2. ASSUME NEW h \in Hrefs, AddResource(h) \/ DeleteResource(h) PROVE ResourcesInv'
  BY <1>2 DEF AddResource, DeleteResource, ResourcesInv, privateVars
<1>3. ASSUME NEW h \in Hrefs, PublishResources(h) \/ UnpublishResources(h) PROVE ResourcesInv'
  <2>1. CASE PublishResources(h)
    <3>1. /\ adding' = adding \ {h} /\ UNCHANGED <<res, deleting>>
          /\ ready'.unpub = ready.unpub \ {h}
      BY <2>1 DEF PublishResources
    <3> QED
      BY <3>1 DEF ResourcesInv
  <2>2. CASE UnpublishResources(h)
    <3>1. /\ deleting' = deleting \ {h} /\ UNCHANGED <<res, adding>> /\ h \in deleting
          /\ ready'.unpub = ready.unpub \cup {h}
      BY <2>2 DEF UnpublishResources
    <3> QED
      BY <3>1 DEF ResourcesInv
  <2> QED
    BY <1>3, <2>1, <2>2
<1>4. CASE CalmLoop \/ CalmWorld
  BY <1>4, ReadyShrinks DEF ResourcesInv
<1> QED
  BY <1>1, <1>2, <1>3, <1>4 DEF CalmAPI

\* A value put into the trigger channel, or one that finds it full, wakes the loop.
LEMMA Triggered == ASSUME QueueTypes, NEW b \in BOOLEAN, Enqueue(b) PROVE trigger' # <<>>
<1>1. CASE QueueFull
  BY <1>1, CapsAssumption DEF QueueTypes, Enqueue, QueueFull
<1>2. CASE ~QueueFull
  <2>1. trigger' = Append(trigger, b) /\ trigger \in Seq(BOOLEAN)
    BY <1>2 DEF Enqueue, QueueTypes
  <2>2. Len(trigger') = Len(trigger) + 1 /\ Len(trigger) \in Nat
    BY <2>1
  <2> QED
    BY <2>2
<1> QED
  BY <1>1, <1>2

\* A request to configure the device ends in a reset, or in one that is lost.
LEMMA ConfiguringForgets ==
    ASSUME IInv, Unregister \/ TriggerReset \/ \E c \in Clouds : Post(c)
    PROVE  Forgot'
<1>q. QueueTypes /\ posting \in Nat /\ lostReset \in BOOLEAN
  BY DEF IInv, TypeOK, QueueTypes, BoundTypes
<1>1. CASE TriggerReset
  <2>1. Enqueue(TRUE) /\ lostReset' = (lostReset \/ (TRUE /\ QueueFull))
    BY <1>1 DEF TriggerReset, TriggerRunner
  <2>2. CASE QueueFull
    BY <2>1, <2>2 DEF Forgot
  <2>3. CASE ~QueueFull
    <3>1. ResetQueued'
      BY <1>q, <2>1, <2>3, EnqueueKeepsReset
    <3> QED
      BY <3>1 DEF Forgot, ResetOnItsWay, ResetQueued
  <2> QED
    BY <2>2, <2>3
<1>2. CASE ~TriggerReset
  <2>1. posting' = posting + 1
    BY <1>2 DEF Unregister, Post, Configure
  <2> QED
    BY <1>q, <2>1 DEF Forgot, ResetOnItsWay
<1> QED
  BY <1>1, <1>2

\* The steps of the loop and of the world that leave the directories, what is
\* ready and what was sent about resources as they are.
Passing ==
    \/ HandleTrigger \/ HandleTimer \/ CheckSignedIn \/ UseConnection
    \/ RefreshTokenSkip \/ RefreshToken \/ RefreshTokenDone \/ SignUpSkip \/ SignUp \/ SignUpDone
    \/ SignInSkip \/ SignIn \/ SignInDone \/ PublishDone \/ UnpublishSkip \/ UnpublishDone \/ Finish
    \/ Expire \/ \E k \in Conns : OnClose(k) /\ client # k

\* They also stay on the way to publishing all resources.
LEMMA PassingKeeps ==
    ASSUME IInv, CalmInv, client # NoConn, Passing
    PROVE  /\ UNCHANGED <<client, ready, rd, res, adding, deleting>>
           /\ conn'[client].cloud = conn[client].cloud
           /\ Sent("publish")' = Sent("publish") /\ Sent("unpublish")' = Sent("unpublish")
           /\ PublishesAll => PublishesAll'
<1> USE NullsAssumption
<1>t. /\ client \in Conns /\ conn \in [Conns -> Connection]
      /\ call \in PendingCall \cup {NoCall}
  BY DEF IInv, TypeOK, ClientTypes, LoopTypes
<1>c. call # NoCall => call.op = pc
  BY DEF IInv, ControlInv, CallInStep
<1>1. CASE HandleTrigger \/ HandleTimer \/ CheckSignedIn \/ UseConnection \/ Finish
  <2>1. UNCHANGED <<client, rd, conn, call, resourcesPublished>>
    BY <1>1 DEF HandleTrigger, HandleTimer, CheckSignedIn, UseConnection, Finish, privateVars, flagVars, worldVars
  <2>2. ready' = ready
    BY <1>1 DEF HandleTrigger, HandleTimer, CheckSignedIn, UseConnection, Finish, privateVars, CalmInv
  <2>3. UNCHANGED <<res, adding, deleting>>
    BY <1>1 DEF HandleTrigger, HandleTimer, CheckSignedIn, UseConnection, Finish, deviceVars
  <2>4. ~PublishesAll
    BY <1>1 DEF PublishesAll, Entering, HandleTrigger, HandleTimer, CheckSignedIn, UseConnection, Finish
  <2> QED
    BY <2>1, <2>2, <2>3, <2>4 DEF Sent
<1>2. CASE RefreshTokenSkip \/ RefreshTokenDone \/ SignUpSkip \/ SignUpDone \/ SignInSkip \/ SignInDone
  <2>1. /\ UNCHANGED <<client, ready, rd, conn, resourcesPublished, res, adding, deleting>>
        /\ call' = NoCall /\ pc \in {"refreshToken", "signUp", "signIn"}
        /\ pc' \in {"signUp", "signIn", "publish"}
    BY <1>2 DEF RefreshTokenSkip, RefreshTokenDone, SignUpSkip, SignUpDone, SignInSkip, SignInDone, Proceed,
       Entering, Returned, privateVars, flagVars, worldVars, deviceVars
  <2>2. call.op \notin {"publish", "unpublish"} /\ call'.op \notin {"publish", "unpublish"}
    BY <1>c, <2>1 DEF NoCall
  <2> QED
    BY <2>1, <2>2 DEF Sent, PublishesAll, Entering
<1>3. CASE RefreshToken \/ SignUp \/ SignIn
  <2>1. /\ UNCHANGED <<client, ready, rd, conn, resourcesPublished, res, adding, deleting, pc>>
        /\ call = NoCall /\ pc \in {"refreshToken", "signUp", "signIn"}
        /\ call'.op \in {"refreshToken", "signUp", "signIn"}
    BY <1>3 DEF RefreshToken, SignUp, SignIn, SendRequest, Entering, flagVars, worldVars, deviceVars
  <2> QED
    BY <2>1 DEF Sent, PublishesAll, Entering, NoCall
<1>4. CASE PublishDone \/ UnpublishSkip \/ UnpublishDone
  <2>1. /\ UNCHANGED <<client, ready, rd, conn, res, adding, deleting>>
        /\ call' = NoCall /\ (call = NoCall \/ call.reply = "ok")
        /\ pc \in {"publish", "unpublish"} /\ (pc = "unpublish" \/ call.op = "publish")
    BY <1>4 DEF PublishDone, UnpublishSkip, UnpublishDone, Proceed, Entering, Returned, privateVars,
       worldVars, deviceVars
  <2>2. ~PublishesAll
    BY <2>1 DEF PublishesAll, Entering, NoCall
  <2> QED
    BY <2>1, <2>2 DEF Sent, NoCall
<1>5. CASE Expire
  BY <1>5 DEF Expire, loopVars, flagVars, worldVars, deviceVars, Sent, PublishesAll, Entering
<1>6. ASSUME NEW k \in Conns, OnClose(k), client # k
      PROVE  /\ UNCHANGED <<client, ready, rd, res, adding, deleting, call, pc, resourcesPublished>>
             /\ conn'[client].cloud = conn[client].cloud
  <2>1. /\ UNCHANGED <<client, ready, rd, res, adding, deleting, call, pc, resourcesPublished>>
        /\ conn' = [conn EXCEPT ![k].hook = FALSE, ![k].session = FALSE]
    BY <1>6 DEF OnClose, OwnsClient, loopVars, flagVars, worldVars, deviceVars
  <2> QED
    BY <1>6, <1>t, <2>1
<1>7. CASE \E k \in Conns : OnClose(k) /\ client # k
  BY <1>6, <1>7 DEF Sent, PublishesAll, Entering
<1> QED
  BY <1>1, <1>2, <1>3, <1>4, <1>5, <1>7 DEF Passing

\* What is sent about resources, accepted by the cloud, is what the directory
\* then shows.
LEMMA AcceptedIsListed ==
    ASSUME IInv, CalmInv, CloudAccepts, call.op # "signOff"
    PROVE  /\ client # NoConn /\ UNCHANGED <<client, ready, res, adding, deleting, pc, trigger>>
           /\ PublishesAll => PublishesAll'
           /\ conn'[client].cloud = conn[client].cloud
           /\ Sent("publish")' = {} /\ Sent("unpublish")' = {}
           /\ rd'[conn[client].cloud] =
                (rd[conn[client].cloud] \cup Sent("publish")) \ Sent("unpublish")
<1> USE NullsAssumption
<1>0. call.reply = "sent"
  BY DEF CloudAccepts
<1>1. call # NoCall
  BY <1>0 DEF NoCall
<1>2. call \in PendingCall /\ call.conn = client /\ client \in Conns /\ client # NoConn
  BY <1>1 DEF IInv, TypeOK, LoopTypes, CalmInv, PendingCall
<1>3. conn \in [Conns -> Connection] /\ rd \in [Clouds -> SUBSET Hrefs] /\ conn[client].cloud \in Clouds
  BY <1>1, <1>2 DEF IInv, TypeOK, ClientTypes, WorldTypes, ControlInv, ConnHasCloud
<1>4. UNCHANGED <<client, ready, res, adding, deleting, pc, trigger, resourcesPublished>>
  BY DEF CloudAccepts, privateVars, deviceVars, flagVars, queueVars
<1>5. conn'[client].cloud = conn[client].cloud
  BY <1>2, <1>3 DEF CloudAccepts, Connection
<1>6. call' = [call EXCEPT !.reply = "ok"]
  BY DEF CloudAccepts
<1>7. call'.reply = "ok"
  BY <1>2, <1>6 DEF PendingCall
<1>8. PublishesAll => PublishesAll'
  BY <1>1, <1>4 DEF PublishesAll, Entering
<1>9. rd'[conn[client].cloud] = (rd[conn[client].cloud] \cup Sent("publish")) \ Sent("unpublish")
  <2>1. CASE call.op = "publish"
    <3>1. rd' = [rd EXCEPT ![conn[call.conn].cloud] = @ \cup call.hrefs]
      BY <2>1 DEF CloudAccepts
    <3>2. Sent("publish") = call.hrefs /\ Sent("unpublish") = {}
      BY <1>0, <2>1 DEF Sent
    <3> QED
      BY <1>2, <1>3, <3>1, <3>2
  <2>2. CASE call.op = "unpublish"
    <3>1. rd' = [rd EXCEPT ![conn[call.conn].cloud] = @ \ call.hrefs]
      BY <2>2 DEF CloudAccepts
    <3>2. Sent("publish") = {} /\ Sent("unpublish") = call.hrefs
      BY <1>0, <2>2 DEF Sent
    <3> QED
      BY <1>2, <1>3, <3>1, <3>2
  <2>3. CASE call.op \notin {"publish", "unpublish"}
    <3>1. rd' = [rd EXCEPT ![conn[call.conn].cloud] = @]
      BY <2>3 DEF CloudAccepts
    <3>2. Sent("publish") = {} /\ Sent("unpublish") = {}
      BY <2>3 DEF Sent
    <3> QED
      BY <1>2, <1>3, <3>1, <3>2
  <2> QED
    BY <2>1, <2>2, <2>3
<1> QED
  BY <1>2, <1>4, <1>5, <1>7, <1>8, <1>9 DEF Sent

\* The steps that lose the client, or belong to a reset, leave nothing to show.
Leaving ==
    \/ SignOffSkip \/ SignOff \/ SignOffDone \/ CheckInitialized \/ DialFails \/ HandleDone
    \/ ResetCredentials \/ StartDial \/ StepImpossible
    \/ CloudAccepts /\ call.op = "signOff"

\* Without a configured cloud a client is of another cloud, so it is being reset.
LEMMA LeavingForgets ==
    ASSUME IInv, StaleInv, CalmInv, Leaving
    PROVE  client' = NoConn \/ Forgot'
<1>1. CASE SignOffSkip \/ SignOff \/ SignOffDone \/ (CloudAccepts /\ call.op = "signOff")
  <2>1. pc' \in {"signOff", "reset"}
    <3>1. call.op = "signOff" => pc = "signOff"
      BY DEF IInv, ControlInv, CallInStep, NoCall
    <3> QED
      BY <1>1, <3>1 DEF SignOffSkip, SignOff, SignOffDone, CloudAccepts, Proceed, Entering
  <2> QED
    BY <2>1 DEF Forgot, ResetOnItsWay
<1>2. CASE DialFails
  BY <1>2 DEF DialFails, CalmInv, privateVars
<1>3. CASE HandleDone \/ ResetCredentials \/ StartDial \/ StepImpossible
  BY <1>3 DEF HandleDone, ResetCredentials, StartDial, StepImpossible, Fail, CloseClient, ReplaceClient
<1>4. CASE CheckInitialized /\ client # NoConn
  <2>1. OfAnotherCloud
    BY <1>4, NullsAssumption DEF CheckInitialized, IInv, ControlInv, ConnHasCloud, OfAnotherCloud,
       StaleRegistration
  <2>2. Forgot
    BY <2>1 DEF StaleInv, CalmInv, Forgot
  <2> QED
    BY <1>4, <2>2, ForgotStays DEF CalmLoop, MovesOn, CheckInitialized, ResetCredentials
<1>5. CASE CheckInitialized /\ client = NoConn
  BY <1>5 DEF CheckInitialized
<1> QED
  BY <1>1, <1>2, <1>3, <1>4, <1>5 DEF Leaving

\* A new connection leads to a cloud that has nothing of the device, and all
\* will be published.
LEMMA DialPublishesAll ==
    ASSUME IInv, CalmInv, RegisteredInv, NEW k \in Conns, Dial(k)
    PROVE  /\ client' = k /\ rd'[conn'[k].cloud] = {} /\ PublishesAll'
           /\ Sent("publish")' = {} /\ Sent("unpublish")' = {}
           /\ pc' \in {"refreshToken", "signUp"}
<1>1. /\ client' = k /\ pc' \in {"refreshToken", "signUp"} /\ pc = "dial"
      /\ target \in trusted /\ UNCHANGED <<resourcesPublished, call, rd>>
      /\ conn' = [conn EXCEPT ![k] = [cloud |-> target, open |-> TRUE, hook |-> TRUE,
                                      session |-> FALSE]]
  BY DEF Dial, Dialled, ReplaceClient, FirstStep, flagVars, worldVars
<1>2. conn \in [Conns -> Connection] /\ target \in Clouds
  BY <1>1 DEF IInv, TypeOK, ClientTypes, WorldTypes
<1>3. conn'[k].cloud = target
  BY <1>1, <1>2
<1>4. client = NoConn /\ ~resourcesPublished
  BY <1>1 DEF CalmInv
<1>5. rd[target] = {}
  BY <1>1, <1>2, <1>4 DEF RegisteredInv
<1>6. call = NoCall
  BY <1>1 DEF IInv, ControlInv, CallInStep, PendingCall, Requests
<1> QED
  BY <1>1, <1>3, <1>4, <1>5, <1>6 DEF PublishesAll, Sent, NoCall

\* What the device's own calls do to what is to be published.
LEMMA DeviceCalls ==
    ASSUME IInv, NEW h \in Hrefs,
           AddResource(h) \/ DeleteResource(h) \/ PublishResources(h) \/ UnpublishResources(h)
    PROVE  /\ UNCHANGED <<client, conn, call, pc, resourcesPublished, rd>>
           /\ Sent("publish")' = Sent("publish") /\ Sent("unpublish")' = Sent("unpublish")
           /\ PublishesAll' <=> PublishesAll
<1>1. UNCHANGED <<client, conn, call, pc, resourcesPublished, rd>>
  BY DEF AddResource, DeleteResource, PublishResources, UnpublishResources, privateVars, loopVars,
     flagVars, worldVars
<1> QED
  BY <1>1 DEF Sent, PublishesAll, Entering

\* The requests that publish and unpublish carry what is taken from the ready sets.
LEMMA PublishSends ==
    ASSUME IInv, CalmInv, Publish \/ PublishSkip
    PROVE  /\ UNCHANGED <<client, conn, rd, res, adding, deleting, trigger, resourcesPublished>>
           /\ ready'.pub = {} /\ ready'.unpub = ready.unpub
           /\ call = NoCall /\ pc = "publish"
           /\ Sent("publish")' = LinksToPublish /\ Sent("unpublish")' = {}
           /\ (pc' = "publish" /\ call' # NoCall) \/ (pc' = "unpublish" /\ call' = NoCall)
<1>t. ready \in [pub : SUBSET Hrefs, unpub : SUBSET Hrefs]
  BY DEF IInv, TypeOK, ConfigTypes
<1>1. UNCHANGED <<client, conn, rd, res, adding, deleting, trigger, resourcesPublished>>
  BY DEF Publish, PublishSkip, worldVars, deviceVars, queueVars, flagVars
<1>2. ready' = [ready EXCEPT !.pub = {}] /\ call = NoCall /\ pc = "publish"
  BY DEF Publish, PublishSkip, PopReadyToPublish, Entering
<1>3. CASE Publish
  <2>1. call' = [op |-> "publish", conn |-> client, hrefs |-> LinksToPublish, reply |-> "sent"]
        /\ pc' = pc
    BY <1>3 DEF Publish, SendRequest
  <2> QED
    BY <1>t, <1>1, <1>2, <2>1 DEF Sent, NoCall
<1>4. CASE PublishSkip
  <2>1. call' = NoCall /\ pc' = "unpublish" /\ LinksToPublish = {}
    BY <1>4 DEF PublishSkip, Proceed
  <2> QED
    BY <1>t, <1>1, <1>2, <2>1 DEF Sent, NoCall
<1> QED
  BY <1>3, <1>4

\* A batch moves from the ready set into the request.
LEMMA UnpublishSends ==
    ASSUME IInv, Unpublish
    PROVE  /\ UNCHANGED <<client, conn, rd, res, adding, deleting, trigger, resourcesPublished, pc>>
           /\ ready'.pub = ready.pub /\ pc = "unpublish"
           /\ Sent("publish") = {} /\ Sent("unpublish") = {} /\ Sent("publish")' = {}
           /\ Sent("unpublish")' \subseteq ready.unpub
           /\ ready'.unpub = ready.unpub \ Sent("unpublish")'
<1>t. ready \in [pub : SUBSET Hrefs, unpub : SUBSET Hrefs]
  BY DEF IInv, TypeOK, ConfigTypes
<1>1. UNCHANGED <<client, conn, rd, res, adding, deleting, trigger, resourcesPublished, pc>>
  BY DEF Unpublish, worldVars, deviceVars, queueVars, flagVars
<1>2. call = NoCall /\ pc = "unpublish"
  BY DEF Unpublish, Entering
<1>3. PICK b \in Batches : PopReadyToUnpublish(b) /\ SendRequest("unpublish", b)
  BY DEF Unpublish
<1>4. b \subseteq ready.unpub
  BY DEF Batches
<1>5. ready' = [ready EXCEPT !.unpub = @ \ b]
  BY <1>3 DEF PopReadyToUnpublish
<1>6. call' = [op |-> "unpublish", conn |-> client, hrefs |-> b, reply |-> "sent"]
  BY <1>3 DEF SendRequest
<1>7. Sent("unpublish")' = b /\ Sent("publish")' = {}
  BY <1>6 DEF Sent
<1> QED
  BY <1>t, <1>1, <1>2, <1>4, <1>5, <1>7 DEF Sent, NoCall

\* No resource is dropped between the ready set, the request and the directory.
LEMMA MissingStep ==
    ASSUME IInv, StaleInv, CalmInv, RegisteredInv, ResourcesInv, MissingInv,
           CalmAPI \/ CalmLoop \/ CalmWorld
    PROVE  MissingInv'
<1> SUFFICES ASSUME client' # NoConn, ~Forgot', NEW h \in res'
             PROVE  \/ h \in adding' \union ready'.pub \union Sent("publish")'
                    \/ h \in rd'[conn'[client'].cloud] \ Sent("unpublish")'
                    \/ PublishesAll'
  BY DEF MissingInv
<1>1. ~ResetCredentials /\ ~Leaving
  BY LeavingForgets DEF Leaving
<1>2. ~Forgot /\ ~Unregister /\ ~TriggerReset /\ \A c \in Clouds : ~Post(c)
  BY <1>1, ForgotStays, ConfiguringForgets
<1>m. ASSUME client # NoConn, NEW x \in res
      PROVE  \/ x \in adding \union ready.pub \union Sent("publish")
             \/ x \in rd[conn[client].cloud] \ Sent("unpublish")
             \/ PublishesAll
  BY <1>2, <1>m DEF MissingInv
<1>3. CASE Close
  BY <1>3, <1>m DEF Close, privateVars, loopVars, flagVars, worldVars, deviceVars, Sent, PublishesAll,
     Entering
<1>4. ASSUME NEW x \in Hrefs,
             AddResource(x) \/ DeleteResource(x) \/ PublishResources(x) \/ UnpublishResources(x)
      PROVE  \/ h \in adding' \union ready'.pub \union Sent("publish")'
             \/ h \in rd'[conn'[client'].cloud] \ Sent("unpublish")'
             \/ PublishesAll'
  <2>1. ASSUME h \in res, h \in adding \union ready.pub PROVE h \in adding' \union ready'.pub
    <3>1. CASE AddResource(x) \/ DeleteResource(x)
      BY <2>1, <3>1 DEF AddResource, DeleteResource, privateVars
    <3>2. CASE PublishResources(x)
      <4>1. adding' = adding \ {x} /\ ready'.pub = ready.pub \cup {x}
        BY <3>2 DEF PublishResources
      <4> QED
        BY <2>1, <4>1
    <3>3. CASE UnpublishResources(x)
      <4>1. adding' = adding /\ ready'.pub = ready.pub \ {x} /\ x \in deleting
        BY <3>3 DEF UnpublishResources
      <4> QED
        BY <2>1, <4>1 DEF ResourcesInv
    <3> QED
      BY <1>4, <3>1, <3>2, <3>3
  <2>2. h \in res \/ h \in adding'
    BY <1>4 DEF AddResource, DeleteResource, PublishResources, UnpublishResources
  <2>3. client # NoConn
    BY <1>4, DeviceCalls
  <2> QED
    BY <1>4, <1>m, <2>1, <2>2, <2>3, DeviceCalls
<1>5. CASE Passing
  <2>1. client # NoConn
    BY <1>5 DEF Passing, HandleTrigger, HandleTimer, CheckSignedIn, UseConnection, RefreshTokenSkip,
       RefreshToken, RefreshTokenDone, SignUpSkip, SignUp, SignUpDone, SignInSkip, SignIn, SignInDone,
       PublishDone, UnpublishSkip, UnpublishDone, Finish, Expire, OnClose, OwnsClient, privateVars
  <2> QED
    BY <1>5, <1>m, <2>1, PassingKeeps
<1>6. CASE \E k \in Conns : Dial(k)
  BY <1>6, DialPublishesAll
<1>7. CASE Publish \/ PublishSkip
  <2>1. h \in res /\ client # NoConn /\ Sent("publish") = {} /\ Sent("unpublish") = {}
    BY <1>7, PublishSends DEF Sent, NoCall
  <2>2. h \in ready.pub \/ ~resourcesPublished => h \in LinksToPublish
    BY <2>1 DEF LinksToPublish
  <2> QED
    BY <1>7, <1>m, <2>1, <2>2, PublishSends DEF PublishesAll
<1>8. CASE Unpublish
  <2>1. h \in res /\ client # NoConn /\ ~PublishesAll
    BY <1>8, UnpublishSends DEF PublishesAll, Entering
  <2>2. h \in Sent("unpublish")' => h \in adding
    BY <1>8, <2>1, UnpublishSends DEF ResourcesInv
  <2> QED
    BY <1>8, <1>m, <2>1, <2>2, UnpublishSends
<1>9. CASE CloudAccepts /\ call.op # "signOff"
  <2>1. /\ client # NoConn /\ UNCHANGED <<client, ready, res, adding>>
        /\ PublishesAll => PublishesAll'
        /\ conn'[client].cloud = conn[client].cloud /\ Sent("unpublish")' = {}
        /\ rd'[conn[client].cloud] =
              (rd[conn[client].cloud] \cup Sent("publish")) \ Sent("unpublish")
    BY <1>9, AcceptedIsListed
  <2>2. h \in Sent("publish") => h \notin Sent("unpublish")
    BY DEF Sent
  <2> QED
    BY <1>m, <2>1, <2>2
<1> QED
  BY <1>1, <1>2, <1>3, <1>4, <1>5, <1>6, <1>7, <1>8, <1>9
     DEF CalmAPI, CalmLoop, CalmWorld, MovesOn, Requesting, Passing, Leaving

\* No deleted resource is left in the directory without being on its way out.
LEMMA ExtraStep ==
    ASSUME IInv, StaleInv, CalmInv, RegisteredInv, ResourcesInv, ExtraInv,
           CalmAPI \/ CalmLoop \/ CalmWorld
    PROVE  ExtraInv'
<1> DEFINE Listed == rd[conn[client].cloud] \union Sent("publish")
           Going == deleting \union ready.unpub \union Sent("unpublish")
<1> SUFFICES ASSUME client' # NoConn, ~Forgot' PROVE (Listed \ res \subseteq Going)'
  BY DEF ExtraInv
<1>1. ~ResetCredentials /\ ~Leaving
  BY LeavingForgets DEF Leaving
<1>2. ~Forgot /\ ~Unregister /\ ~TriggerReset /\ \A c \in Clouds : ~Post(c)
  BY <1>1, ForgotStays, ConfiguringForgets
<1>m. client # NoConn => Listed \ res \subseteq Going
  BY <1>2 DEF ExtraInv
<1>3. CASE Close
  <2>1. UNCHANGED <<client, conn, call, rd, res, deleting, ready>>
    BY <1>3 DEF Close, privateVars, loopVars, worldVars, deviceVars
  <2> QED
    BY <1>m, <2>1 DEF Sent
<1>4. ASSUME NEW x \in Hrefs,
             AddResource(x) \/ DeleteResource(x) \/ PublishResources(x) \/ UnpublishResources(x)
      PROVE  (Listed \ res \subseteq Going)'
  <2>1. client # NoConn /\ Listed' = Listed /\ Sent("unpublish")' = Sent("unpublish")
    BY <1>4, DeviceCalls
  <2>2. CASE AddResource(x)
    BY <1>m, <2>1, <2>2 DEF AddResource, privateVars
  <2>3. CASE DeleteResource(x)
    BY <1>m, <2>1, <2>3 DEF DeleteResource, privateVars
  <2>4. CASE PublishResources(x)
    <3>1. UNCHANGED <<res, deleting>> /\ ready'.unpub = ready.unpub \ {x} /\ x \in res
      BY <2>4 DEF PublishResources, ResourcesInv
    <3> QED
      BY <1>m, <2>1, <3>1
  <2>5. CASE UnpublishResources(x)
    <3>1. res' = res /\ deleting' = deleting \ {x} /\ ready'.unpub = ready.unpub \cup {x}
      BY <2>5 DEF UnpublishResources
    <3> QED
      BY <1>m, <2>1, <3>1
  <2> QED
    BY <1>4, <2>2, <2>3, <2>4, <2>5
<1>5. CASE Passing
  <2>1. client # NoConn
    BY <1>5 DEF Passing, HandleTrigger, HandleTimer, CheckSignedIn, UseConnection, RefreshTokenSkip,
       RefreshToken, RefreshTokenDone, SignUpSkip, SignUp, SignUpDone, SignInSkip, SignIn, SignInDone,
       PublishDone, UnpublishSkip, UnpublishDone, Finish, Expire, OnClose, OwnsClient, privateVars
  <2> QED
    BY <1>5, <1>m, <2>1, PassingKeeps
<1>6. CASE \E k \in Conns : Dial(k)
  BY <1>6, DialPublishesAll
<1>7. CASE Publish \/ PublishSkip
  <2>1. client # NoConn /\ Sent("publish") = {} /\ Sent("unpublish") = {}
    BY <1>7, PublishSends DEF Sent, NoCall
  <2>2. LinksToPublish \subseteq res
    BY DEF LinksToPublish
  <2> QED
    BY <1>7, <1>m, <2>1, <2>2, PublishSends
<1>8. CASE Unpublish
  BY <1>8, <1>m, UnpublishSends
<1>9. CASE CloudAccepts /\ call.op # "signOff"
  <2>1. /\ client # NoConn /\ UNCHANGED <<client, ready, res, deleting>>
        /\ conn'[client].cloud = conn[client].cloud /\ Sent("publish")' = {}
        /\ rd'[conn[client].cloud] =
              (rd[conn[client].cloud] \cup Sent("publish")) \ Sent("unpublish")
    BY <1>9, AcceptedIsListed
  <2> QED
    BY <1>m, <2>1
<1> QED
  BY <1>1, <1>2, <1>3, <1>4, <1>5, <1>6, <1>7, <1>8, <1>9
     DEF CalmAPI, CalmLoop, CalmWorld, MovesOn, Requesting, Passing, Leaving

\* Whoever makes something ready wakes the loop, and the loop goes back to sleep
\* only when nothing is ready.
LEMMA AwakeStep ==
    ASSUME IInv, StaleInv, CalmInv, RegisteredInv, AwakeInv, CalmAPI \/ CalmLoop \/ CalmWorld
    PROVE  AwakeInv'
<1> DEFINE Before == {"check", "connect", "refreshToken", "signUp", "signIn"}
<1> DEFINE Awake ==
        /\ ready.pub # {} => pc \in Before \/ Entering("publish")
        /\ ready.unpub # {} => pc \in Before \union {"publish", "unpublish"}
<1> SUFFICES ASSUME client' # NoConn, ~Forgot', trigger' = <<>> PROVE Awake'
  BY DEF AwakeInv
<1>q. QueueTypes
  BY DEF IInv, TypeOK
<1>1. ~ResetCredentials /\ ~Leaving
  BY LeavingForgets DEF Leaving
<1>2. ~Forgot /\ ~Unregister /\ ~TriggerReset /\ \A c \in Clouds : ~Post(c)
  BY <1>1, ForgotStays, ConfiguringForgets
<1>m. client # NoConn /\ trigger = <<>> => Awake
  BY <1>2 DEF AwakeInv
<1>3. CASE Close \/ \E h \in Hrefs : AddResource(h) \/ DeleteResource(h)
  <2>1. UNCHANGED <<client, ready, pc, call, trigger>>
    BY <1>3 DEF Close, AddResource, DeleteResource, privateVars, loopVars, queueVars
  <2> QED
    BY <1>m, <2>1 DEF Entering
<1>4. ~\E h \in Hrefs : PublishResources(h) \/ UnpublishResources(h)
  BY <1>q, Triggered DEF PublishResources, UnpublishResources, TriggerRunner
<1>5. CASE HandleTrigger \/ HandleTimer \/ CheckSignedIn \/ UseConnection
  <2>1. pc' \in Before \/ (Forgot' /\ HandleTrigger)
    BY <1>5 DEF HandleTrigger, HandleTimer, CheckSignedIn, UseConnection, FirstStep, Forgot, ResetOnItsWay
  <2> QED
    BY <2>1
<1>6. CASE RefreshTokenSkip \/ RefreshToken \/ RefreshTokenDone \/ SignUpSkip \/ SignUp \/ SignUpDone
           \/ SignInSkip \/ SignIn \/ SignInDone
  <2>1. pc' \in Before \/ (pc' = "publish" /\ call' = NoCall)
    BY <1>6 DEF RefreshTokenSkip, RefreshToken, RefreshTokenDone, SignUpSkip, SignUp, SignUpDone,
       SignInSkip, SignIn, SignInDone, Proceed, Entering
  <2> QED
    BY <2>1 DEF Entering
<1>7. CASE PublishDone \/ UnpublishSkip \/ UnpublishDone \/ Finish
  <2>1. /\ UNCHANGED <<client, ready, trigger>> /\ pc \in {"publish", "unpublish", "finish"}
        /\ pc = "publish" => call # NoCall
        /\ pc' \notin {"publish", "unpublish"} => pc = "finish" \/ ready.unpub = {}
    BY <1>7 DEF PublishDone, UnpublishSkip, UnpublishDone, Finish, Proceed, Entering, Returned,
       privateVars, queueVars, NoCall
  <2> QED
    BY <1>m, <2>1 DEF Entering
<1>8. CASE Expire \/ \E k \in Conns : OnClose(k) /\ client # k
  <2>1. UNCHANGED <<client, ready, pc, call, trigger>>
    BY <1>8 DEF Expire, OnClose, OwnsClient, loopVars, queueVars
  <2> QED
    BY <1>m, <2>1 DEF Entering
<1>9. CASE \E k \in Conns : Dial(k)
  BY <1>9, DialPublishesAll
<1>10. CASE Publish \/ PublishSkip
  BY <1>10, PublishSends
<1>11. CASE Unpublish
  BY <1>11, <1>m, UnpublishSends DEF Entering
<1>12. CASE CloudAccepts /\ call.op # "signOff"
  <2>1. client # NoConn /\ UNCHANGED <<client, ready, pc, trigger>> /\ call # NoCall
    BY <1>12, AcceptedIsListed DEF CloudAccepts, NoCall
  <2> QED
    BY <1>m, <2>1 DEF Entering
<1> QED
  BY <1>1, <1>2, <1>3, <1>4, <1>5, <1>6, <1>7, <1>8, <1>9, <1>10, <1>11, <1>12
     DEF CalmAPI, CalmLoop, CalmWorld, MovesOn, Requesting, Leaving

\* A device that was never configured is published nowhere.
LEMMA DirectoryInit == Init => DirectoryInv
<1> SUFFICES ASSUME Init PROVE DirectoryInv
  OBVIOUS
<1>1. CalmInv
  BY DEF Init, CalmInv
<1>2. RegisteredInv
  BY DEF Init, RegisteredInv
<1>3. ResourcesInv
  BY DEF Init, ResourcesInv, NothingReady
<1>4. MissingInv /\ ExtraInv /\ AwakeInv
  BY DEF Init, MissingInv, ExtraInv, AwakeInv
<1> QED
  BY <1>1, <1>2, <1>3, <1>4 DEF DirectoryInv

\* Every step preserves the invariant, given the two proved before.
LEMMA DirectoryStep ==
    NothingFails /\ IInv /\ StaleInv /\ DirectoryInv /\ [Next]_vars => DirectoryInv'
<1> SUFFICES ASSUME NothingFails, IInv, StaleInv, DirectoryInv, [Next]_vars PROVE DirectoryInv'
  OBVIOUS
<1> USE DEF DirectoryInv
<1>1. CASE Next
  <2>1. CalmAPI \/ CalmLoop \/ CalmWorld
    BY <1>1, CalmSteps
  <2>2. CalmInv'
    BY <2>1, CalmStep
  <2>3. RegisteredInv' /\ ResourcesInv'
    BY <2>1, <2>2, RegisteredStep, ResourcesStep
  <2>4. MissingInv' /\ ExtraInv' /\ AwakeInv'
    BY <2>1, MissingStep, ExtraStep, AwakeStep
  <2> QED
    BY <2>2, <2>3, <2>4
<1>2. CASE UNCHANGED vars
  <2>1. /\ UNCHANGED <<ready, creds, client, signedIn, resourcesPublished, reconnect, trigger, lostReset>>
        /\ UNCHANGED <<pc, call, conn, res, adding, deleting, rd, posting, crashes>>
    BY <1>2 DEF vars, privateVars, flagVars, loopVars, queueVars, deviceVars, worldVars, boundVars
  <2>2. CalmInv' /\ RegisteredInv' /\ ResourcesInv'
    BY <2>1 DEF CalmInv, RegisteredInv, ResourcesInv
  <2>3. MissingInv' /\ ExtraInv' /\ AwakeInv'
    BY <2>1 DEF MissingInv, ExtraInv, AwakeInv, Forgot, ResetOnItsWay, Sent, PublishesAll, Entering
  <2> QED
    BY <2>2, <2>3
<1> QED
  BY <1>1, <1>2

\* When quiet, nothing is left of what separates the directory from the device.
LEMMA DirectoryWhenQuiet ==
    IInv /\ StaleInv /\ DirectoryInv => DirectoryMatchesDevice
<1> SUFFICES ASSUME IInv, StaleInv, DirectoryInv, Quiet, ~lostReset
             PROVE  /\ signedIn => rd[cfg.cloud] = res
                    /\ \A c \in Clouds \ {cfg.cloud} : rd[c] = {}
  BY DEF DirectoryMatchesDevice
<1> USE DEF DirectoryInv
<1>1. ~ResetOnItsWay /\ ~Forgot
  BY DEF Quiet, ResetOnItsWay, Forgot
<1>2. client # NoConn => conn[client].cloud = cfg.cloud
  BY <1>1 DEF StaleInv, CalmInv, OfAnotherCloud, StaleRegistration
<1>3. \A c \in Clouds \ {cfg.cloud} : rd[c] = {}
  BY <1>2 DEF RegisteredInv, Quiet
<1>4. ASSUME signedIn PROVE rd[cfg.cloud] = res
  <2>1. client # NoConn
    BY <1>4 DEF CalmInv
  <2>2. ready.pub = {} /\ ready.unpub = {}
    BY <1>1, <2>1 DEF AwakeInv, Quiet, Entering
  <2>3. call = NoCall
    BY DEF Quiet, IInv, ControlInv, CallInStep, PendingCall, Requests
  <2>4. Sent("publish") = {} /\ Sent("unpublish") = {} /\ ~PublishesAll
    BY <2>3 DEF Sent, NoCall, PublishesAll, Quiet, Entering
  <2>5. res \subseteq rd[cfg.cloud]
    BY <1>1, <1>2, <2>1, <2>2, <2>4 DEF MissingInv, Quiet
  <2>6. rd[cfg.cloud] \subseteq res
    BY <1>1, <1>2, <2>1, <2>2, <2>4 DEF ExtraInv, Quiet
  <2> QED
    BY <2>5, <2>6
<1> QED
  BY <1>3, <1>4

\* When no request fails, once nothing is in progress the directory of the
\* configured cloud lists exactly the resources of a signed-in device, and the
\* other clouds list none, for every number of resources, clouds, changes of
\* configuration, unpublish batch size and trigger capacity, however adding,
\* deleting, expiring tokens, failing dials and Close interleave with the loop.
THEOREM DirectoryMatchesDeviceHolds == NothingFails => (Spec => []DirectoryMatchesDevice)
<1> DEFINE CalmDirectory == NothingFails /\ DirectoryInv
<1>1. NothingFails /\ Init => CalmDirectory
  BY DirectoryInit
<1>2. IInv /\ StaleInv /\ CalmDirectory /\ [Next]_vars => CalmDirectory'
  BY DirectoryStep
<1>3. IInv /\ StaleInv /\ CalmDirectory => DirectoryMatchesDevice
  BY DirectoryWhenQuiet
<1> HIDE DEF CalmDirectory
<1> QED
  BY <1>1, <1>2, <1>3, InductiveInvariant, StaleInvariant, PTL DEF Spec

------------------------------------------------------------------------------
(* The status of an unregistered device, when no request fails              *)

\* The loop comes to publish with a client.
WithClient == pc \in {"publish", "unpublish", "finish"} => client # NoConn

\* The status of a device without a cloud says otherwise only while there is a
\* client to sign off.
StatusInv ==
    pc # "closed" /\ cfg.cloud = NoCloud /\ cfg.status # "uninitialized" =>
        /\ client # NoConn /\ pc # "reset"
        /\ creds # NoCreds \/ (pc \in {"signUp", "signOff"} /\ call # NoCall)

CleanInv == WithClient /\ StatusInv

\* The steps that leave the configuration and the client preserve StatusInv.
LEMMA StatusKept ==
    ASSUME StatusInv, UNCHANGED <<cfg, client>>, pc # "closed", pc' # "reset",
           \/ creds' # NoCreds
           \/ creds' = creds /\ ~(pc \in {"signUp", "signOff"} /\ call # NoCall)
           \/ creds' = creds /\ pc' = pc /\ call' # NoCall
    PROVE  StatusInv'
  BY DEF StatusInv

\* Every step preserves CleanInv.
LEMMA CleanStep ==
    ASSUME NothingFails, IInv, CalmInv, CalmInv', CleanInv, CalmAPI \/ CalmLoop \/ CalmWorld
    PROVE  CleanInv'
<1> USE NullsAssumption DEF CleanInv
<1>t. /\ cfg \in Config /\ call \in PendingCall \cup {NoCall} /\ client \in Conns \cup {NoConn}
  BY DEF IInv, TypeOK, ConfigTypes, LoopTypes, ClientTypes
<1>c. call # NoCall => client # NoConn /\ call.op = pc
  BY DEF CalmInv, IInv, TypeOK, LoopTypes, PendingCall, ControlInv, CallInStep
<1>n. NoCall.op = "none"
  BY DEF NoCall
<1>1. CASE CalmAPI
  <2>1. UNCHANGED <<client, creds, pc, call>>
    BY <1>1, APIKeeps DEF CalmAPI, API
  <2>2. cfg' = cfg \/ (cfg'.cloud = NoCloud => cfg'.status = "uninitialized")
    <3>1. CASE Unregister \/ \E c \in Clouds : Post(c)
      <4>1. PICK c \in Clouds \cup {NoCloud}, code \in BOOLEAN : Configure(c, code)
        BY <3>1 DEF Unregister, Post
      <4>2. cfg' = [cloud |-> c, code |-> code,
                    status |-> IF c = NoCloud THEN "uninitialized" ELSE "readytoregister"]
        BY <4>1 DEF Configure, SetCloudConfiguration
      <4> QED
        BY <4>2
    <3>2. CASE ~(Unregister \/ \E c \in Clouds : Post(c))
      BY <1>1, <3>2 DEF CalmAPI, TriggerReset, Close, AddResource, PublishResources, DeleteResource,
         UnpublishResources, privateVars
    <3> QED
      BY <3>1, <3>2
  <2> QED
    BY <2>1, <2>2 DEF WithClient, StatusInv
<1>2. CASE HandleTimer \/ CheckInitialized \/ CheckSignedIn \/ UseConnection \/ DialFails \/ RefreshTokenSkip
           \/ SignUpSkip \/ SignInSkip \/ PublishSkip \/ UnpublishSkip \/ HandleTrigger
  <2>1. UNCHANGED <<cfg, client, creds>> /\ pc \notin {"closed", "reset"} /\ pc' # "reset"
    BY <1>2 DEF HandleTimer, CheckInitialized, CheckSignedIn, UseConnection, FirstStep, DialFails,
       RefreshTokenSkip, SignUpSkip, SignInSkip, PublishSkip, UnpublishSkip, HandleTrigger, Proceed,
       Entering, privateVars
  <2>2. pc \in {"signUp", "signOff"} => call = NoCall
    BY <1>2 DEF HandleTimer, CheckInitialized, CheckSignedIn, UseConnection, DialFails,
       RefreshTokenSkip, SignUpSkip, SignInSkip, PublishSkip, UnpublishSkip, HandleTrigger, Entering
  <2>3. pc' \in {"publish", "unpublish", "finish"} => client # NoConn
    BY <1>2 DEF WithClient, HandleTimer, CheckInitialized, CheckSignedIn, UseConnection, FirstStep, DialFails,
       RefreshTokenSkip, SignUpSkip, SignInSkip, PublishSkip, UnpublishSkip, HandleTrigger, Proceed, Entering
  <2> QED
    BY <2>1, <2>2, <2>3, StatusKept DEF WithClient
<1>3. CASE PublishDone \/ UnpublishDone
  <2>1. UNCHANGED <<cfg, client, creds>> /\ pc' = "unpublish" /\ pc \in {"publish", "unpublish"}
    BY <1>3 DEF PublishDone, UnpublishDone, Proceed, Returned, privateVars
  <2> QED
    BY <2>1, StatusKept DEF WithClient
<1>4. CASE SignOffSkip
  BY <1>4 DEF SignOffSkip, Proceed, Entering, privateVars, WithClient, StatusInv
<1>5. CASE SignOffDone
  <2>1. cfg'.status = "uninitialized" /\ pc' = "reset"
    BY <1>5, <1>t DEF SignOffDone, SetProvisioningStatus, Proceed, Config
  <2> QED
    BY <2>1 DEF WithClient, StatusInv
<1>6. CASE Finish
  <2>1. pc = "finish" /\ pc' = "idle" /\ UNCHANGED <<client, creds, call>>
    BY <1>6 DEF Finish
  <2>2. client # NoConn /\ creds # NoCreds
    BY <2>1 DEF WithClient, CalmInv
  <2> QED
    BY <2>1, <2>2 DEF WithClient, StatusInv
<1>7. CASE Requesting
  <2>1. /\ UNCHANGED <<client, creds, pc>> /\ client # NoConn /\ call' # NoCall
        /\ pc # "reset"
    BY <1>7 DEF Requesting, SignOff, RefreshToken, SignUp, SignIn, Publish, Unpublish, SendRequest,
       Entering, NoCall
  <2>2. creds # NoCreds \/ pc \in {"signUp", "signOff"}
    BY <1>7 DEF Requesting, SignOff, RefreshToken, NeedsRefresh, SignUp, SignIn, Publish, Unpublish,
       Entering, CalmInv
  <2> QED
    BY <2>1, <2>2 DEF WithClient, StatusInv
<1>8. CASE HandleDone
  BY <1>8 DEF HandleDone, WithClient, StatusInv
<1>9. CASE ResetCredentials \/ StartDial \/ StepImpossible
  <2>1. cfg' = cfg /\ client' = NoConn /\ pc' \in {"check", "idle", "dial"} /\ pc # "closed"
    BY <1>9 DEF ResetCredentials, StartDial, StepImpossible, Fail, FailUnchanged, CloseClient,
       ReplaceClient, Entering
  <2>2. \/ client = NoConn \/ pc = "reset" \/ (creds = NoCreds /\ call = NoCall)
    BY <1>9 DEF ResetCredentials, StartDial, Alive, StepImpossible, Entering, CalmInv
  <2> QED
    BY <2>1, <2>2 DEF WithClient, StatusInv
<1>10. ASSUME NEW k \in Conns, Dial(k) PROVE CleanInv'
  <2>1. /\ cfg' = cfg /\ pc = "dial" /\ pc' \in {"refreshToken", "signUp"}
    BY <1>10 DEF Dial, Dialled, FirstStep
  <2>2. client = NoConn
    BY <2>1 DEF CalmInv
  <2> QED
    BY <2>1, <2>2 DEF WithClient, StatusInv
<1>11. CASE RefreshTokenDone \/ SignInDone \/ SignUpDone
  <2>1. UNCHANGED <<cfg, client>> /\ pc # "closed" /\ pc' # "reset" /\ call.op # "none"
    BY <1>11 DEF RefreshTokenDone, SignInDone, SignUpDone, Proceed, Returned
  <2>2. client # NoConn
    BY <1>c, <1>n, <2>1
  <2>3. creds' # NoCreds
    <3>1. CASE SignUpDone
      BY <3>1 DEF SignUpDone, Proceed, CalmInv
    <3>2. CASE ~SignUpDone
      <4>1. creds # NoCreds
        BY <1>11, <3>2 DEF RefreshTokenDone, SignInDone, Returned, IInv, ControlInv, CredsInStep
      <4> QED
        BY <1>11, <3>2, <4>1, CredsStay, RefreshedCreds DEF IInv, TypeOK, SignInDone
    <3> QED
      BY <3>1, <3>2
  <2> QED
    BY <2>1, <2>2, <2>3, StatusKept DEF WithClient
<1>12. CASE CalmWorld
  <2>1. UNCHANGED <<cfg, client, pc>>
    BY <1>12 DEF CalmWorld, OnClose, OwnsClient, CloudAccepts, Expire, privateVars, loopVars
  <2>2. creds' # NoCreds \/ creds' = creds
    BY <1>12, CredsStay DEF CalmWorld, OnClose, CloudAccepts, Expire, privateVars
  <2>3. call # NoCall => call' # NoCall
    <3>1. CASE CloudAccepts
      <4>1. call' = [call EXCEPT !.reply = "ok"]
        BY <3>1 DEF CloudAccepts
      <4> QED
        BY <1>t, <4>1 DEF PendingCall, NoCall
    <3>2. CASE ~CloudAccepts
      BY <1>12, <3>2 DEF CalmWorld, OnClose, Expire, loopVars
    <3> QED
      BY <3>1, <3>2
  <2> QED
    BY <2>1, <2>2, <2>3 DEF WithClient, StatusInv
<1> QED
  BY <1>1, <1>2, <1>3, <1>4, <1>5, <1>6, <1>7, <1>8, <1>9, <1>10, <1>11, <1>12
     DEF CalmLoop, MovesOn

\* When no request fails, an unregistered device with nothing left to do keeps
\* no credentials and no client and its status says uninitialized, for every
\* number of clouds, resources, changes of configuration and trigger capacity.
THEOREM UnregisteredIsCleanHolds == NothingFails => (Spec => []UnregisteredIsClean)
<1> DEFINE CalmClean == NothingFails /\ DirectoryInv /\ CleanInv
<1>1. NothingFails /\ Init => CalmClean
  BY DirectoryInit DEF Init, CleanInv, WithClient, StatusInv, ImportConfig
<1>2. IInv /\ StaleInv /\ CalmClean /\ [Next]_vars => CalmClean'
  <2> SUFFICES ASSUME IInv, StaleInv, CalmClean, [Next]_vars PROVE CalmClean'
    OBVIOUS
  <2>1. DirectoryInv' /\ CalmInv /\ CalmInv'
    BY DirectoryStep DEF DirectoryInv
  <2>2. CASE Next
    BY <2>1, <2>2, CalmSteps, CleanStep
  <2>3. CASE UNCHANGED vars
    BY <2>1, <2>3 DEF vars, privateVars, loopVars, CleanInv, WithClient, StatusInv
  <2> QED
    BY <2>2, <2>3
<1>3. /\ CalmClean
      /\ crashes = 0 /\ Quiet /\ cfg.cloud = NoCloud /\ ~lostReset => Unregistered
      => UnregisteredIsClean
  BY DEF DirectoryInv, CalmInv, CleanInv, StatusInv, Quiet, UnregisteredIsClean, Unregistered
<1> HIDE DEF CalmClean
<1> QED
  BY <1>1, <1>2, <1>3, InductiveInvariant, StaleInvariant, UnregisteredKeepsNothing, PTL DEF Spec
==============================================================================
