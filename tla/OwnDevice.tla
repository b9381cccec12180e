----------------------------- MODULE OwnDevice -----------------------------
(* Ownership transfer, onboarding and disowning (client/core/ownDevice.go,  *)
(* provisionDevice.go, disownDevice.go and what client/ puts on top).       *)
(* Goroutines of several clients work on one secured device, each with a    *)
(* context that may end; a request may be refused, answered too late, or    *)
(* lost with its connection.  The device itself is external: it is modelled *)
(* by the resources the code reads and writes (doxm, pstat, cred, acl2,     *)
(* cloud) and by which requests the code counts on it to accept.            *)
EXTENDS Integers, Sequences

CONSTANTS
    Procs,      \* goroutines that call the client
    Owners,     \* clients: the identities a device may be owned by
    Id,         \* the client whose API a goroutine calls
    Kind,       \* how a client signs: "sdk", "backend" or "none"
    OtmClients, \* the transfer methods a client is configured with, in order
    Supported,  \* the transfer methods of the device
    Schemes,    \* the secure schemes the device has endpoints for
    Nobody,     \* the nil UUID, and no transfer method
    MayTimeout, \* a caller's context may end
    MayLose     \* requests and connections may be lost

Methods == {"justWorks", "manufacturer"}

ASSUME IdAssumption == Id \in [Procs -> Owners]
ASSUME KindAssumption == Kind \in [Owners -> {"sdk", "backend", "none"}]
ASSUME OtmAssumption == OtmClients \in [Owners -> Seq(Methods)] /\ Supported \subseteq Methods
ASSUME SchemesAssumption == Schemes \subseteq {"coaps", "coaps+tcp"}
ASSUME NobodyAssumption == Nobody \notin Owners \union Methods
ASSUME FaultsAssumption == {MayTimeout, MayLose} \subseteq BOOLEAN

VARIABLES
    dev,      \* the device's security resources
    identity, \* identityCertificate of a client's device owner is set
    at,       \* where a goroutine is
    over,     \* its context has ended
    otm,      \* its ownership transfer connection (tlsClient): scheme or Nobody
    method,   \* the transfer method it has chosen
    result,   \* what its call returns
    lossy,    \* a request was lost, or a roll-back cut short, since the device
              \* was last reset
    abandoned \* nobody is left to take the device out of RFPRO

callVars == <<over, otm, method, result>>
ghosts == <<lossy, abandoned>>
vars == <<dev, identity, at, callVars, ghosts>>

Resources == [
    dos   : {"RFOTM", "RFPRO", "RFNOP"}, \* pstat: onboarding state
    owned : BOOLEAN,                     \* doxm.owned
    owner : Owners \union {Nobody},      \* doxm.devowneruuid
    sel   : Methods \union {Nobody},     \* doxm.oxmsel
    rowner: SUBSET {"pstat", "acl2", "doxm"}, \* resources with the owner's rowneruuid
    cred  : SUBSET Owners,               \* clients with a key or certificate
    acl   : SUBSET Owners,               \* clients with access
    cloud : SUBSET {"acl", "conf"}]      \* a cloud has access, is configured

OwnSteps == <<"getOwnership", "selectOTM", "dial", "check", "mode", "during", "provision",
              "setOwner", "verify", "ownPstat", "ownACL", "setOwned", "rfpro", "dialPSK",
              "deleteACL", "setACL", "rfnop", "after">>
OwnLabels == {OwnSteps[i] : i \in 1..Len(OwnSteps)}
Labels == OwnLabels \union
    {"idle", "close", "rollback", "disownGet", "reset", "provStart", "cloudACL", "cloudSet", "provClose", "unset"}

TypeOK ==
    /\ dev \in Resources
    /\ identity \in [Owners -> BOOLEAN]
    /\ at \in [Procs -> Labels]
    /\ over \in [Procs -> BOOLEAN]
    /\ otm \in [Procs -> {"coaps", "coaps+tcp", Nobody}]
    /\ method \in [Procs -> Methods \union {Nobody}]
    /\ result \in [Procs -> {"ok", "error", "denied"}]
    /\ lossy \in BOOLEAN
    /\ abandoned \in BOOLEAN

\* A device that is reset: ready for an ownership transfer.
Factory == [dos |-> "RFOTM", owned |-> FALSE, owner |-> Nobody, sel |-> Nobody,
            rowner |-> {}, cred |-> {}, acl |-> {}, cloud |-> {}]

Init ==
    /\ dev = Factory
    /\ identity = [o \in Owners |-> FALSE]
    /\ at = [p \in Procs |-> "idle"]
    /\ over = [p \in Procs |-> FALSE]
    /\ otm = [p \in Procs |-> Nobody]
    /\ method = [p \in Procs |-> Nobody]
    /\ result = [p \in Procs |-> "ok"]
    /\ lossy = FALSE
    /\ abandoned = FALSE

------------------------------------------------------------------------------
(* The identity of a client: deviceOwnershipSDK, -Backend and -None.        *)

\* GenerateSDKIdentityCertificate: the request is signed, or signing fails.
Signs == BOOLEAN

\* The SDK stores what it gets, also the empty certificate of a failure.
InitializationSDK(o) ==
    /\ Kind[o] = "sdk"
    /\ \E signed \in Signs : identity' = [identity EXCEPT ![o] = signed]

\* A backend, which fails without a token in the context too, keeps what it had.
InitializationBackend(o) ==
    /\ Kind[o] = "backend"
    /\ \E signed \in Signs : identity' = [identity EXCEPT ![o] = @ \/ signed]

InitializationNone(o) == Kind[o] = "none" /\ UNCHANGED identity

Initialization(o) ==
    /\ InitializationSDK(o) \/ InitializationBackend(o) \/ InitializationNone(o)
    /\ UNCHANGED <<dev, at, callVars, ghosts>>

\* GetSdkOwnerID: the ID in the identity certificate, an error without one.
HasSdkID(p) == Kind[Id[p]] # "none" /\ identity[Id[p]]

\* getOtmClients: the transfer methods OwnDevice hands to Own; none for a client
\* that cannot sign.
GetOtmClients(p) == IF Kind[Id[p]] = "none" THEN <<>> ELSE OtmClients[Id[p]]

\* findOTMClient: the first of the client's methods that the device supports.
FindOTMClient(ms) ==
    IF \E i \in 1..Len(ms) : ms[i] \in Supported
    THEN ms[CHOOSE i \in 1..Len(ms) :
              /\ ms[i] \in Supported
              /\ \A j \in 1..(i - 1) : ms[j] \notin Supported]
    ELSE Nobody

\* Client.Dial of the two methods: just works knows DTLS only.
JustWorksDial == {"coaps"}
ManufacturerDial == {"coaps", "coaps+tcp"}
Dialable(m) == IF m = "justWorks" THEN JustWorksDial ELSE ManufacturerDial

------------------------------------------------------------------------------
(* Requests                                                                 *)

Goto(p, l) == at' = [at EXCEPT ![p] = l]

\* A request of p has failed; what fails in Close of a ProvisioningClient is
\* only logged.
Fail(p, l) ==
    /\ Goto(p, l)
    /\ result' = IF at[p] = "provClose" THEN result ELSE [result EXCEPT ![p] = "error"]

\* The steps after whose failure nobody takes the device out of RFPRO.
LastResort == {"rollback", "provStart", "provClose"}

\* The history of the device: lost says that a request of this step was lost,
\* or the reset of a roll-back given up.
Note(p, failed, lost) ==
    /\ lossy' = (dev' # Factory /\ (lossy \/ lost))
    /\ abandoned' = (dev'.dos = "RFPRO" /\ (abandoned \/ (failed /\ at[p] \in LastResort)))

\* What the device does when an ownership transfer connection ends: as long as
\* it is in RFOTM it undoes the transfer by itself.
AfterHangUp(d) == IF d.dos = "RFOTM" THEN Factory ELSE d

\* The states of the device after a request that would take it to d got no
\* answer: it may have been carried out, if the device accepts it, or not.
Unanswered(ok, d) == {dev} \union (IF ok THEN {d} ELSE {})

\* p's request, which takes the device to d if it accepts it (ok): the answer
\* arrives and p goes on with l; or it fails and p goes on with f, because the
\* device refuses, because p's context is over or ends now, or because the
\* request or p's ownership transfer connection is lost.
Request(p, ok, d, l, f) ==
    /\ UNCHANGED <<identity, method>>
    /\ \/ /\ ok /\ ~over[p]
          /\ dev' = d
          /\ Goto(p, l)
          /\ Note(p, FALSE, FALSE)
          /\ UNCHANGED <<over, otm, result>>
       \/ /\ ~ok \/ over[p]
          /\ UNCHANGED <<dev, over, otm>>
          /\ Fail(p, f)
          /\ Note(p, TRUE, FALSE)
       \/ /\ MayTimeout /\ ~over[p]
          /\ over' = [over EXCEPT ![p] = TRUE]
          /\ dev' \in Unanswered(ok, d)
          /\ Fail(p, f)
          /\ Note(p, TRUE, FALSE)
          /\ UNCHANGED otm
       \/ /\ MayLose /\ ~over[p]
          /\ \/ dev' \in Unanswered(ok, d) /\ UNCHANGED otm
             \/ /\ otm[p] # Nobody
                /\ otm' = [otm EXCEPT ![p] = Nobody]
                /\ \E e \in Unanswered(ok, d) : dev' = AfterHangUp(e)
          /\ Fail(p, f)
          /\ Note(p, TRUE, TRUE)
          /\ UNCHANGED over

\* A call begins: its context is not over yet.
Begin(p, l) ==
    /\ at[p] = "idle"
    /\ Goto(p, l)
    /\ over' = [over EXCEPT ![p] = FALSE]
    /\ result' = [result EXCEPT ![p] = "ok"]
    /\ UNCHANGED <<dev, identity, otm, method, ghosts>>

\* A call returns r because of what it has read from the device.
ReturnFromRead(p, r) ==
    /\ Goto(p, "idle")
    /\ result' = [result EXCEPT ![p] = r]
    /\ UNCHANGED <<dev, identity, over, otm, method, ghosts>>

\* Reading doxm fails.
ReadFails(p) == (MayTimeout \/ MayLose) /\ ReturnFromRead(p, "error")

------------------------------------------------------------------------------
(* Own: the ownership transfer                                              *)

Own(p) == Begin(p, "getOwnership")

\* Mutation: an owned device counts as owned by the caller.
OwnGetOwnershipAnyOwner(p) ==
    /\ at[p] = "getOwnership"
    /\ \/ ReadFails(p)
       \/ HasSdkID(p) /\ dev.owned /\ ReturnFromRead(p, "ok")
       \/ /\ HasSdkID(p) /\ ~dev.owned
          /\ method' = [method EXCEPT ![p] = FindOTMClient(GetOtmClients(p))]
          /\ Goto(p, "selectOTM")
          /\ UNCHANGED <<dev, identity, over, otm, result, ghosts>>

\* GetOwnership and the checks of Own: nothing to do for the owner, no access
\* for anybody else, an error without an identity or a common method.
OwnGetOwnership(p) ==
    /\ at[p] = "getOwnership"
    /\ \/ ReadFails(p)
       \/ HasSdkID(p) /\ dev.owned /\ dev.owner = Id[p] /\ ReturnFromRead(p, "ok")
       \/ HasSdkID(p) /\ dev.owned /\ dev.owner # Id[p] /\ ReturnFromRead(p, "denied")
       \/ /\ ~HasSdkID(p) \/ (~dev.owned /\ FindOTMClient(GetOtmClients(p)) = Nobody)
          /\ ReturnFromRead(p, "error")
       \/ /\ HasSdkID(p) /\ ~dev.owned
          /\ FindOTMClient(GetOtmClients(p)) # Nobody
          /\ method' = [method EXCEPT ![p] = FindOTMClient(GetOtmClients(p))]
          /\ Goto(p, "selectOTM")
          /\ UNCHANGED <<dev, identity, over, otm, result, ghosts>>

SetOTM(p) == [dev EXCEPT !.sel = method[p]]

\* selectOTM: over plain CoAP, which anybody may use.
SelectOTM(p) ==
    /\ at[p] = "selectOTM"
    /\ Request(p, dev.dos = "RFOTM", SetOTM(p), "dial", "idle")

\* External: the device takes one ownership transfer connection at a time, for
\* the selected method, and only while it is in RFOTM.
MayTransfer(p) ==
    /\ dev.dos = "RFOTM"
    /\ dev.sel = method[p]
    /\ \A q \in Procs : otm[q] = Nobody

\* getTLSClient: DTLS first; TLS if there is no DTLS or it cannot be dialled.
GetTLSClient(p) ==
    /\ at[p] = "dial"
    /\ \/ /\ MayTransfer(p) /\ ~over[p]
          /\ \E s \in Dialable(method[p]) \intersect Schemes :
                /\ s = "coaps+tcp" => MayLose \/ "coaps" \notin Schemes
                /\ otm' = [otm EXCEPT ![p] = s]
          /\ Goto(p, "check")
          /\ UNCHANGED result
       \/ /\ \/ ~MayTransfer(p) \/ MayTimeout \/ MayLose
             \/ Dialable(method[p]) \intersect Schemes = {}
          /\ Fail(p, "idle")
          /\ UNCHANGED otm
    /\ UNCHANGED <<dev, identity, over, method, ghosts>>

\* A step of ownershipTransfer over the transfer connection.
Transfer(p, ok, d, l) ==
    Request(p, otm[p] # Nobody /\ dev.dos = "RFOTM" /\ ok, d, l, "rollback")

\* checkProvisionState: not pending, RFOTM.
CheckProvisionState(p) == at[p] = "check" /\ Transfer(p, TRUE, dev, "mode")

\* The operational mode becomes CLIENT_DIRECTED.
SetOperationalMode(p) == at[p] = "mode" /\ Transfer(p, TRUE, dev, "during")

\* actionDuringOwn: by default setDoxmDeviceID.
ActionDuringOwn(p) == at[p] = "during" /\ Transfer(p, TRUE, dev, "provision")

\* The preshared key, and with a signer the device's certificate and the CA, in
\* one update of cred.
ProvisionOwnerCredentials(p) == [dev EXCEPT !.cred = @ \union {Id[p]}]

ProvisionOwner(p) ==
    /\ at[p] = "provision"
    /\ Transfer(p, TRUE, ProvisionOwnerCredentials(p), "setOwner")

SetOwner(p) ==
    /\ at[p] = "setOwner"
    /\ Transfer(p, TRUE, [dev EXCEPT !.owner = Id[p]], "verify")

VerifyOwner(p) ==
    /\ at[p] = "verify"
    /\ Transfer(p, dev.owner = Id[p], dev, "ownPstat")

\* setResourceOwner: pstat, acl2, then doxm together with owned.
SetResourceOwner(p) ==
    \/ /\ at[p] = "ownPstat"
       /\ Transfer(p, TRUE, [dev EXCEPT !.rowner = @ \union {"pstat"}], "ownACL")
    \/ /\ at[p] = "ownACL"
       /\ Transfer(p, TRUE, [dev EXCEPT !.rowner = @ \union {"acl2"}], "setOwned")
    \/ /\ at[p] = "setOwned"
       /\ Transfer(p, TRUE, [dev EXCEPT !.rowner = @ \union {"doxm"}, !.owned = TRUE], "rfpro")

------------------------------------------------------------------------------
(* Own: deviceConfigurer.configure                                          *)

\* A step of configure: the connections it uses are up until the device is
\* reset.
Configure(p, ok, d, l) == Request(p, otm[p] # Nobody /\ ok, d, l, "rollback")

SetRFPRO(p) ==
    /\ at[p] = "rfpro"
    /\ Configure(p, dev.dos = "RFOTM" /\ dev.owned, [dev EXCEPT !.dos = "RFPRO"], "dialPSK")

\* getDTLSClient dials the address of the transfer connection with DTLS and
\* the preshared key, also when that connection is a TLS one.
GetDTLSClient(p) ==
    /\ at[p] = "dialPSK"
    /\ Configure(p, otm[p] = "coaps" /\ Id[p] \in dev.cred, dev, "deleteACL")

\* setACL: the old rules are deleted before the new ones are added.
DeleteACL(p) ==
    /\ at[p] = "deleteACL"
    /\ Configure(p, dev.dos = "RFPRO", [dev EXCEPT !.acl = {}], "setACL")

\* Mutation: the new rules are deleted with the old ones.
SetACLDeletes(p) ==
    /\ at[p] = "setACL"
    /\ Configure(p, dev.dos = "RFPRO", [dev EXCEPT !.acl = {}], "rfnop")

SetACL(p) ==
    /\ at[p] = "setACL"
    /\ Configure(p, dev.dos = "RFPRO", [dev EXCEPT !.acl = @ \union {Id[p]}], "rfnop")

SetRFNOP(p) ==
    /\ at[p] = "rfnop"
    /\ Configure(p, TRUE, [dev EXCEPT !.dos = "RFNOP"], "after")

\* actionAfterOwn, which may fail like a request.
ActionAfterOwn(p) == at[p] = "after" /\ Configure(p, TRUE, dev, "close")

\* Own returns: the deferred tlsClient.Close.
OwnReturns(p) ==
    /\ at[p] = "close"
    /\ otm' = [otm EXCEPT ![p] = Nobody]
    /\ Goto(p, "idle")
    /\ UNCHANGED <<dev, identity, over, method, result, ghosts>>

\* Mutation: the reset is sent with the caller's context.
DisownAndLogErrorSameContext(p) ==
    /\ at[p] = "rollback"
    /\ dev' = IF otm[p] # Nobody /\ ~over[p] THEN Factory
              ELSE IF otm[p] # Nobody THEN AfterHangUp(dev) ELSE dev
    /\ otm' = IF dev' = Factory THEN [q \in Procs |-> Nobody] ELSE [otm EXCEPT ![p] = Nobody]
    /\ Goto(p, "idle")
    /\ Note(p, FALSE, FALSE)
    /\ UNCHANGED <<identity, over, method, result>>

\* disownAndLogError: RESET over the transfer connection.  disown gives it a
\* context of its own if the caller's is over, has no deadline or less than a
\* second left, and the caller's otherwise, whose end during the request makes
\* the roll-back fail like a loss.  A failure is only logged.  Then the
\* connection is closed.  A device that resets closes all its connections.
DisownAndLogError(p) ==
    /\ at[p] = "rollback"
    /\ \/ /\ otm[p] # Nobody
          /\ dev' = Factory
          /\ otm' = [q \in Procs |-> Nobody]
          /\ Note(p, FALSE, FALSE)
       \/ /\ otm[p] = Nobody \/ MayLose \/ (MayTimeout /\ ~over[p])
          /\ dev' = IF otm[p] = Nobody THEN dev ELSE AfterHangUp(dev)
          /\ otm' = [otm EXCEPT ![p] = Nobody]
          /\ Note(p, TRUE, otm[p] # Nobody)
    /\ Goto(p, "idle")
    /\ UNCHANGED <<identity, over, method, result>>

------------------------------------------------------------------------------
(* Disown                                                                   *)

Disown(p) == Begin(p, "disownGet")

DisownGetOwnership(p) ==
    /\ at[p] = "disownGet"
    /\ \/ ReadFails(p)
       \/ ~HasSdkID(p) /\ ReturnFromRead(p, "error")
       \/ HasSdkID(p) /\ dev.owner = Nobody /\ ReturnFromRead(p, "ok")
       \/ HasSdkID(p) /\ dev.owner \notin {Id[p], Nobody} /\ ReturnFromRead(p, "denied")
       \/ /\ HasSdkID(p) /\ dev.owner = Id[p]
          /\ Goto(p, "reset")
          /\ UNCHANGED <<dev, identity, callVars, ghosts>>

\* External: an owned device takes secure requests of its owner.
MayAccess(p) == dev.dos # "RFOTM" /\ dev.owner = Id[p] /\ Id[p] \in dev.cred

\* An error of a connection that has been closed counts as success, whoever
\* closed it.
ConnectionWasClosed == "ok"

\* RESET over a secure endpoint.
DisownReset(p) ==
    /\ at[p] = "reset"
    /\ \/ /\ MayAccess(p) /\ dev' = Factory
          /\ Note(p, FALSE, FALSE)
          /\ UNCHANGED <<over, result>>
       \/ /\ ~MayAccess(p)
          /\ result' = [result EXCEPT ![p] = "error"]
          /\ UNCHANGED <<dev, over, ghosts>>
       \/ /\ MayTimeout
          /\ over' = [over EXCEPT ![p] = TRUE]
          /\ result' = [result EXCEPT ![p] = "error"]
          /\ dev' \in Unanswered(MayAccess(p), Factory)
          /\ Note(p, FALSE, FALSE)
       \/ /\ MayLose
          /\ dev' \in Unanswered(MayAccess(p), Factory)
          /\ result' = [result EXCEPT ![p] = ConnectionWasClosed]
          /\ Note(p, FALSE, TRUE)
          /\ UNCHANGED over
    /\ otm' = IF dev' = Factory THEN [q \in Procs |-> Nobody] ELSE otm
    /\ Goto(p, "idle")
    /\ UNCHANGED <<identity, method>>

------------------------------------------------------------------------------
(* Onboarding: Provision, setACLForCloud, SetCloudResource, Close           *)

Onboard(p) == Begin(p, "provStart")

ProvisionStart(p) ==
    /\ at[p] = "provStart"
    /\ Request(p, MayAccess(p), [dev EXCEPT !.dos = "RFPRO"], "cloudACL", "idle")

\* SetAccessControl of the provisioning client.
SetAccessControl == [dev EXCEPT !.cloud = @ \union {"acl"}]

SetACLForCloud(p) ==
    /\ at[p] = "cloudACL"
    /\ Request(p, MayAccess(p) /\ dev.dos = "RFPRO", SetAccessControl, "cloudSet", "provClose")

\* setCloudResource of the client: the URL, ID and code of the cloud.
CloudConfiguration == [dev EXCEPT !.cloud = @ \union {"conf"}]

SetCloudResource(p) ==
    /\ at[p] = "cloudSet"
    /\ Request(p, MayAccess(p), CloudConfiguration, "provClose", "provClose")

\* The deferred Close, with the caller's context.
ProvisionClose(p) ==
    /\ at[p] = "provClose"
    /\ Request(p, MayAccess(p), [dev EXCEPT !.dos = "RFNOP"], "idle", "idle")

\* OffboardDevice: an empty cloud configuration.
Offboard(p) == Begin(p, "unset")

OffboardSet(p) ==
    /\ at[p] = "unset"
    /\ Request(p, MayAccess(p) /\ Id[p] \in dev.acl, [dev EXCEPT !.cloud = @ \ {"conf"}], "idle", "idle")

------------------------------------------------------------------------------

OwnNext(p) ==
    \/ Own(p) \/ OwnGetOwnership(p) \/ SelectOTM(p) \/ GetTLSClient(p)
    \/ CheckProvisionState(p) \/ SetOperationalMode(p) \/ ActionDuringOwn(p)
    \/ ProvisionOwner(p) \/ SetOwner(p) \/ VerifyOwner(p) \/ SetResourceOwner(p)
    \/ SetRFPRO(p) \/ GetDTLSClient(p) \/ DeleteACL(p) \/ SetACL(p) \/ SetRFNOP(p)
    \/ ActionAfterOwn(p) \/ OwnReturns(p) \/ DisownAndLogError(p)

Next ==
    \/ \E o \in Owners : Initialization(o)
    \/ \E p \in Procs :
          \/ OwnNext(p)
          \/ Disown(p) \/ DisownGetOwnership(p) \/ DisownReset(p)
          \/ Onboard(p) \/ ProvisionStart(p) \/ SetACLForCloud(p) \/ SetCloudResource(p)
          \/ ProvisionClose(p)
          \/ Offboard(p) \/ OffboardSet(p)

Spec == Init /\ [][Next]_vars

------------------------------------------------------------------------------
(* Properties                                                               *)

Quiescent == \A p \in Procs : at[p] = "idle"

\* The owner has its credentials and its access rules at the device.
Provisioned ==
    /\ dev.owned /\ dev.rowner = {"pstat", "acl2", "doxm"}
    /\ dev.owner \in dev.cred /\ dev.owner \in dev.acl

Free == dev = [Factory EXCEPT !.sel = dev.sel]

\* Refusals, other callers and contexts that end before the roll-back never
\* leave a device half owned: when all calls have returned, nothing was lost on
\* the network and no context ended during the reset of a roll-back (lossy),
\* the device is free or completely provisioned, because a failed Own resets it
\* even when the caller's context is over, and Onboard always ends in Close,
\* unless the caller's context is over by then.
NoHalfOwnedDevice ==
    Quiescent /\ ~lossy => Free \/ (Provisioned /\ (dev.dos = "RFNOP" \/ abandoned))

\* Own succeeds only when the device is the caller's and completely set up, or
\* was when another client or goroutine last touched it: whatever they did in
\* the meantime has ended the transfer and made Own fail.
OwnSucceedsForOwner ==
    [][\A p \in Procs :
          \/ at[p] \in OwnLabels /\ at'[p] = "close"
          \/ at[p] \in OwnLabels /\ at'[p] = "idle" /\ result'[p] = "ok"
          => /\ dev.owned /\ dev.owner = Id[p]
             /\ at'[p] = "close" => Provisioned]_vars

\* A device in normal operation is accessible to its owner, unless a reset that
\* was lost or cut short has left its transfer unfinished or a goroutine of the owner is still
\* configuring it (another one that onboards the device meanwhile may take it
\* to RFNOP): configure adds the new access rules before it leaves RFPRO, and
\* resets the device when it finds that somebody else has.
NormalOperationIsAccessible ==
    dev.dos = "RFNOP" =>
        \/ Provisioned \/ lossy
        \/ \E p \in Procs : /\ at[p] \in {"dialPSK", "deleteACL", "setACL", "rollback"}
                            /\ Id[p] = dev.owner

\* Every variable has its type, the states of the device included, and a device
\* in normal operation lets its owner in.
OwnershipInv == TypeOK /\ NormalOperationIsAccessible
==============================================================================
