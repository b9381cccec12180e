--------------------------- MODULE OwnDeviceProofs ---------------------------
(***************************************************************************)
(* Proofs about OwnDevice for every set of clients and goroutines, every   *)
(* way of signing, every choice of transfer methods and schemes, with and  *)
(* without timeouts and losses: a device is never left half owned, a       *)
(* device in normal operation lets its owner in, and Own succeeds only for *)
(* the owner.                                                              *)
(*                                                                         *)
(* The argument follows the one ownership transfer connection.  Whoever    *)
(* has it, the holder, is at a step that tells how far the device is       *)
(* (Stage); nobody else takes a device out of RFOTM or changes its owner;  *)
(* and every way of losing the connection resets a device in RFOTM, or is  *)
(* a loss that the properties allow for.                                   *)
(***************************************************************************)
EXTENDS OwnDevice, WellFoundedInduction, TLAPS

TransferLabels == {"check", "mode", "during", "provision", "setOwner", "verify", "ownPstat",
                   "ownACL", "setOwned", "rfpro"}
ConfigureLabels == {"dialPSK", "deleteACL", "setACL", "rfnop", "after"}
HolderLabels == TransferLabels \union ConfigureLabels \union {"close", "rollback"}

\* Whoever is there will add the owner's access rules or reset the device.
AccessLabels == {"dialPSK", "deleteACL", "setACL", "rollback"}

\* Whoever is there will take the device out of RFPRO, or give up and say so.
LeaveLabels == AccessLabels \union {"rfnop", "cloudACL", "cloudSet", "provClose"}

RowOwned == {"pstat", "acl2", "doxm"}

\* How far the device d is when the holder, of client o, is at l.
Stage(l, o, d) ==
    /\ l \in {"setOwner", "verify", "ownPstat", "ownACL", "setOwned", "rfpro"} => o \in d.cred
    /\ l \in {"verify", "ownPstat", "ownACL", "setOwned", "rfpro"} => d.owner = o
    /\ l \in {"ownACL", "setOwned"} => "pstat" \in d.rowner
    /\ l = "setOwned" => "acl2" \in d.rowner
    /\ l = "rfpro" => d.owned /\ d.rowner = RowOwned
    /\ l \in ConfigureLabels \union {"close"} => d.dos # "RFOTM" /\ d.owner = o
    /\ l \in {"rfnop", "after", "close"} => o \in d.acl

\* A device out of RFOTM belongs to somebody who can authenticate.
BelongsTo(d) ==
    d.dos # "RFOTM" =>
        d.owned /\ d.rowner = RowOwned /\ d.owner \in Owners /\ d.owner \in d.cred

OneHolder == \A p, q \in Procs : otm[p] # Nobody /\ otm[q] # Nobody => p = q
HolderStage == \A p \in Procs :
    otm[p] # Nobody => at[p] \in HolderLabels /\ Stage(at[p], Id[p], dev)
FreeWithoutHolder == dev.dos = "RFOTM" /\ (\A p \in Procs : otm[p] = Nobody) => Free
AccessIsComing ==
    dev.dos # "RFOTM" /\ ~lossy =>
        \/ dev.owner \in dev.acl
        \/ \E p \in Procs : otm[p] # Nobody /\ at[p] \in AccessLabels /\ Id[p] = dev.owner
SomebodyLeavesRFPRO == dev.dos = "RFPRO" => abandoned \/ \E p \in Procs : at[p] \in LeaveLabels

TransferInv ==
    /\ OneHolder /\ HolderStage /\ FreeWithoutHolder /\ BelongsTo(dev)
    /\ AccessIsComing /\ SomebodyLeavesRFPRO

OwnInv == TypeOK /\ TransferInv

------------------------------------------------------------------------------
(* Facts about the operators                                                *)

LEMMA LabelsHold ==
    /\ HolderLabels \subseteq Labels
    /\ AccessLabels \subseteq HolderLabels
    /\ "idle" \in Labels \ HolderLabels /\ "rollback" \in AccessLabels
<1>1. OwnSteps = <<"getOwnership", "selectOTM", "dial", "check", "mode", "during", "provision",
              "setOwner", "verify", "ownPstat", "ownACL", "setOwned", "rfpro", "dialPSK",
              "deleteACL", "setACL", "rfnop", "after">>
  BY DEF OwnSteps
<1>2. OwnLabels = {"getOwnership", "selectOTM", "dial", "check", "mode", "during", "provision",
              "setOwner", "verify", "ownPstat", "ownACL", "setOwned", "rfpro", "dialPSK",
              "deleteACL", "setACL", "rfnop", "after"}
  <2>1. Len(OwnSteps) = 18
    BY <1>1
  <2> QED
    BY <1>1, <2>1 DEF OwnLabels
<1> QED
  BY <1>2 DEF Labels, HolderLabels, TransferLabels, ConfigureLabels, AccessLabels

LEMMA FactoryType ==
    Factory \in Resources /\ Factory.dos = "RFOTM" /\ Factory = [Factory EXCEPT !.sel = Factory.sel]
  BY DEF Factory, Resources

\* The three ways a request of p ends: it is answered, it fails, or it fails
\* because p's transfer connection is lost.
Answered(p, ok, d, l) ==
    /\ ok /\ dev' = d /\ otm' = otm /\ Goto(p, l) /\ result' = result
    /\ lossy' = (dev' # Factory /\ lossy)
    /\ abandoned' = (dev'.dos = "RFPRO" /\ abandoned)
FailedRequest(p, ok, d, f) ==
    /\ dev' = dev \/ (ok /\ dev' = d)
    /\ otm' = otm /\ Goto(p, f)
    /\ dev' # Factory /\ lossy => lossy'
    /\ dev'.dos = "RFPRO" /\ (abandoned \/ at[p] \in LastResort) => abandoned'
HungUp(p, ok, d, f) ==
    /\ otm[p] # Nobody /\ otm' = [otm EXCEPT ![p] = Nobody] /\ Goto(p, f)
    /\ dev' = AfterHangUp(dev) \/ (ok /\ dev' = AfterHangUp(d))
    /\ dev' # Factory => lossy'
    /\ dev'.dos = "RFPRO" /\ (abandoned \/ at[p] \in LastResort) => abandoned'

LEMMA RequestEnds ==
    ASSUME NEW p \in Procs, NEW ok, NEW d, NEW l, NEW f, Request(p, ok, d, l, f)
    PROVE  Answered(p, ok, d, l) \/ FailedRequest(p, ok, d, f) \/ HungUp(p, ok, d, f)
<1>1. CASE ok /\ ~over[p] /\ dev' = d /\ Goto(p, l) /\ Note(p, FALSE, FALSE) /\ UNCHANGED <<over, otm, result>>
  BY <1>1 DEF Note, Answered
<1>2. CASE UNCHANGED <<dev, over, otm>> /\ Fail(p, f) /\ Note(p, TRUE, FALSE)
  BY <1>2 DEF Note, Fail, FailedRequest
<1>3. CASE dev' \in Unanswered(ok, d) /\ Fail(p, f) /\ Note(p, TRUE, FALSE) /\ UNCHANGED otm
  BY <1>3 DEF Note, Fail, FailedRequest, Unanswered
<1>4. CASE dev' \in Unanswered(ok, d) /\ UNCHANGED otm /\ Fail(p, f) /\ Note(p, TRUE, TRUE)
  BY <1>4 DEF Note, Fail, FailedRequest, Unanswered
<1>5. CASE /\ otm[p] # Nobody
           /\ otm' = [otm EXCEPT ![p] = Nobody]
           /\ \E e \in Unanswered(ok, d) : dev' = AfterHangUp(e)
           /\ Fail(p, f) /\ Note(p, TRUE, TRUE)
  BY <1>5 DEF Note, Fail, HungUp, Unanswered
<1> QED
  BY <1>1, <1>2, <1>3, <1>4, <1>5 DEF Request

\* A device that hangs up is reset or left as it is.
LEMMA HangUpFacts ==
    ASSUME NEW d \in Resources
    PROVE  /\ AfterHangUp(d) \in Resources
           /\ AfterHangUp(d).dos = "RFOTM" => AfterHangUp(d) = Factory
           /\ AfterHangUp(d).dos # "RFOTM" => AfterHangUp(d) = d
  BY FactoryType DEF AfterHangUp

\* The types after a request.
LEMMA RequestType ==
    ASSUME TypeOK, NEW p \in Procs, NEW ok, NEW d, ok => d \in Resources,
           NEW l \in Labels, NEW f \in Labels, Request(p, ok, d, l, f)
    PROVE  TypeOK'
<1>1. dev' \in Resources
  <2>1. dev' = dev \/ (ok /\ dev' = d) \/ dev' = AfterHangUp(dev) \/ (ok /\ dev' = AfterHangUp(d))
    BY RequestEnds DEF Answered, FailedRequest, HungUp
  <2> QED
    BY <2>1, HangUpFacts DEF TypeOK
<1>2. identity' = identity /\ method' = method
  BY DEF Request
<1>3. at' = [at EXCEPT ![p] = l] \/ at' = [at EXCEPT ![p] = f]
  BY RequestEnds DEF Answered, FailedRequest, HungUp, Goto
<1>4. over' = over \/ over' = [over EXCEPT ![p] = TRUE]
  BY DEF Request
<1>5. otm' = otm \/ otm' = [otm EXCEPT ![p] = Nobody]
  BY DEF Request
<1>6. result' = result \/ result' = [result EXCEPT ![p] = "error"]
  BY DEF Request, Fail
<1>7. \E failed, lost \in BOOLEAN : Note(p, failed, lost)
  BY DEF Request
<1>8. lossy' \in BOOLEAN /\ abandoned' \in BOOLEAN
  BY <1>7 DEF Note
<1>9. at' \in [Procs -> Labels]
  BY <1>3 DEF TypeOK
<1>10. over' \in [Procs -> BOOLEAN]
  BY <1>4 DEF TypeOK
<1>11. /\ otm' \in [Procs -> {"coaps", "coaps+tcp", Nobody}]
       /\ result' \in [Procs -> {"ok", "error", "denied"}]
  BY <1>5, <1>6 DEF TypeOK
<1> QED
  BY <1>1, <1>2, <1>8, <1>9, <1>10, <1>11 DEF TypeOK

------------------------------------------------------------------------------
(* Steps that leave the device and the connections alone                    *)

\* A goroutine that is neither the holder nor in charge of RFPRO moves.
LEMMA MoveKeeps ==
    ASSUME TransferInv, at \in [Procs -> Labels], NEW p \in Procs, NEW l,
           at[p] \notin HolderLabels \union LeaveLabels, Goto(p, l),
           UNCHANGED <<dev, otm, ghosts>>
    PROVE  TransferInv'
<1>1. \A q \in Procs : q # p => at'[q] = at[q]
  BY DEF Goto
<1>2. UNCHANGED <<dev, otm, lossy, abandoned>>
  BY DEF ghosts
<1>3. otm[p] = Nobody
  BY DEF TransferInv, HolderStage
<1>4. OneHolder' /\ FreeWithoutHolder' /\ BelongsTo(dev)'
  BY <1>2 DEF TransferInv, OneHolder, FreeWithoutHolder, BelongsTo, Free
<1>5. HolderStage'
  BY <1>1, <1>2, <1>3 DEF TransferInv, HolderStage, Stage
<1>6. AccessIsComing'
  BY <1>1, <1>2, <1>3 DEF TransferInv, AccessIsComing
<1>7. SomebodyLeavesRFPRO'
  BY <1>1, <1>2 DEF TransferInv, SomebodyLeavesRFPRO
<1> QED
  BY <1>4, <1>5, <1>6, <1>7 DEF TransferInv

\* The types after a step of a call that sends nothing.
LEMMA MoveType ==
    ASSUME TypeOK, NEW p \in Procs, NEW l \in Labels, Goto(p, l),
           UNCHANGED <<dev, identity, otm, method, ghosts>>,
           over' = over \/ over' = [over EXCEPT ![p] = FALSE],
           \/ result' = result
           \/ \E r \in {"ok", "error", "denied"} : result' = [result EXCEPT ![p] = r]
    PROVE  TypeOK'
<1>1. at' \in [Procs -> Labels]
  BY DEF TypeOK, Goto
<1>2. over' \in [Procs -> BOOLEAN]
  BY DEF TypeOK
<1>3. result' \in [Procs -> {"ok", "error", "denied"}]
  BY DEF TypeOK
<1> QED
  BY <1>1, <1>2, <1>3 DEF TypeOK, ghosts

------------------------------------------------------------------------------
(* Requests of the holder                                                   *)

\* What a request over the transfer connection may do to the device: it leaves
\* it as the step l needs it, keeps or makes it the caller's once it is out of
\* RFOTM, and leaves in RFPRO only a device somebody will take out of it.
GoodStep(p, d, l) ==
    /\ d \in Resources
    /\ l \in HolderLabels /\ Stage(l, Id[p], d)
    /\ BelongsTo(d)
    /\ d.dos # "RFOTM" => d.owner = Id[p] /\ (l \in AccessLabels \/ Id[p] \in d.acl)
    /\ d.dos = "RFPRO" => \/ l \in LeaveLabels
                          \/ dev.dos = "RFPRO" /\ at[p] \notin LeaveLabels

LEMMA HolderRequest ==
    ASSUME OwnInv, NEW p \in Procs, at[p] \in TransferLabels \union ConfigureLabels,
           NEW ok, NEW d, NEW l, ok => otm[p] # Nobody /\ GoodStep(p, d, l),
           Answered(p, ok, d, l) \/ FailedRequest(p, ok, d, "rollback") \/ HungUp(p, ok, d, "rollback")
    PROVE  TransferInv'
<1> USE DEF Goto
<1>0. /\ TypeOK /\ TransferInv /\ at \in [Procs -> Labels] /\ dev \in Resources
      /\ otm \in [Procs -> {"coaps", "coaps+tcp", Nobody}]
  BY DEF OwnInv, TypeOK
<1>a. \A q \in Procs : q # p => at'[q] = at[q]
  BY <1>0 DEF Answered, FailedRequest, HungUp
<1>s. Stage("rollback", Id[p], dev') /\ "rollback" \in HolderLabels /\ "rollback" \in AccessLabels
      /\ "rollback" \in LeaveLabels
  BY DEF Stage, HolderLabels, AccessLabels, LeaveLabels, ConfigureLabels
<1>o. otm[p] # Nobody => \A q \in Procs : q # p => otm[q] = Nobody
  BY <1>0 DEF TransferInv, OneHolder
<1>1. CASE Answered(p, ok, d, l)
  <2>1. /\ dev' = d /\ otm' = otm /\ at'[p] = l /\ otm[p] # Nobody /\ GoodStep(p, d, l)
        /\ abandoned' = (d.dos = "RFPRO" /\ abandoned)
    BY <1>0, <1>1 DEF Answered
  <2>2. OneHolder'
    BY <1>0, <2>1 DEF TransferInv, OneHolder
  <2>3. HolderStage'
    BY <1>o, <2>1 DEF HolderStage, GoodStep
  <2>4. FreeWithoutHolder'
    BY <2>1 DEF FreeWithoutHolder
  <2>5. BelongsTo(dev)'
    BY <2>1 DEF GoodStep, BelongsTo
  <2>6. AccessIsComing'
    BY <2>1 DEF GoodStep, AccessIsComing
  <2>7. SomebodyLeavesRFPRO'
    <3> SUFFICES ASSUME d.dos = "RFPRO", ~abandoned, l \notin LeaveLabels
                 PROVE  \E q \in Procs : at'[q] \in LeaveLabels
      BY <2>1 DEF SomebodyLeavesRFPRO
    <3>1. dev.dos = "RFPRO" /\ at[p] \notin LeaveLabels
      BY <2>1 DEF GoodStep
    <3>2. PICK q \in Procs : at[q] \in LeaveLabels
      BY <1>0, <3>1 DEF TransferInv, SomebodyLeavesRFPRO
    <3> QED
      BY <1>a, <3>1, <3>2
  <2> QED
    BY <2>2, <2>3, <2>4, <2>5, <2>6, <2>7 DEF TransferInv
<1>2. CASE FailedRequest(p, ok, d, "rollback")
  <2>1. /\ otm' = otm /\ at'[p] = "rollback"
        /\ dev' # Factory /\ lossy => lossy'
        /\ dev' = dev \/ (ok /\ dev' = d /\ otm[p] # Nobody /\ GoodStep(p, d, l))
    BY <1>0, <1>2 DEF FailedRequest
  <2>2. OneHolder'
    BY <1>0, <2>1 DEF TransferInv, OneHolder
  <2>3. HolderStage'
    <3>1. CASE dev' = dev
      BY <1>0, <1>a, <1>s, <2>1, <3>1 DEF TransferInv, HolderStage, Stage
    <3>2. CASE dev' # dev
      BY <1>o, <1>s, <2>1, <3>2 DEF HolderStage
    <3> QED
      BY <3>1, <3>2
  <2>4. FreeWithoutHolder'
    BY <1>0, <2>1 DEF TransferInv, FreeWithoutHolder, Free
  <2>5. BelongsTo(dev)'
    BY <1>0, <2>1 DEF TransferInv, GoodStep, BelongsTo
  <2>6. AccessIsComing'
    <3>1. CASE dev' = dev
      <4>1. dev.dos # "RFOTM" => dev # Factory
        BY FactoryType
      <4> QED
        BY <1>0, <1>a, <1>s, <2>1, <3>1, <4>1 DEF TransferInv, AccessIsComing
    <3>2. CASE dev' # dev
      BY <1>s, <2>1, <3>2 DEF AccessIsComing, GoodStep
    <3> QED
      BY <3>1, <3>2
  <2>7. SomebodyLeavesRFPRO'
    BY <1>s, <2>1 DEF SomebodyLeavesRFPRO
  <2> QED
    BY <2>2, <2>3, <2>4, <2>5, <2>6, <2>7 DEF TransferInv
<1>3. CASE HungUp(p, ok, d, "rollback")
  <2>1. /\ otm[p] # Nobody /\ otm' = [otm EXCEPT ![p] = Nobody] /\ at'[p] = "rollback"
        /\ dev' = AfterHangUp(dev) \/ (ok /\ dev' = AfterHangUp(d))
        /\ dev' # Factory => lossy'
    BY <1>0, <1>3 DEF HungUp
  <2>2. \A q \in Procs : otm'[q] = Nobody
    BY <1>0, <1>o, <2>1
  <2>3. OneHolder' /\ HolderStage'
    BY <2>2 DEF OneHolder, HolderStage
  <2>4. dev'.dos = "RFOTM" => dev' = Factory
    BY <1>0, <2>1, HangUpFacts DEF GoodStep
  <2>5. FreeWithoutHolder'
    BY <2>4, FactoryType DEF FreeWithoutHolder, Free
  <2>6. BelongsTo(dev)'
    BY <1>0, <2>1, HangUpFacts DEF TransferInv, GoodStep, BelongsTo
  <2>7. AccessIsComing'
    BY <2>1, FactoryType DEF AccessIsComing
  <2>8. SomebodyLeavesRFPRO'
    BY <1>s, <2>1 DEF SomebodyLeavesRFPRO
  <2> QED
    BY <2>3, <2>5, <2>6, <2>7, <2>8 DEF TransferInv
<1> QED
  BY <1>1, <1>2, <1>3

------------------------------------------------------------------------------
(* Requests of everybody else                                               *)

\* What they leave of the device: whose it is and whom it lets in.
SameOwnership(d) ==
    /\ d \in Resources
    /\ d.owned = dev.owned /\ d.owner = dev.owner /\ d.rowner = dev.rowner
    /\ d.cred = dev.cred /\ d.acl = dev.acl
    /\ (d.dos = "RFOTM") = (dev.dos = "RFOTM")
    /\ dev.dos = "RFOTM" => d.cloud = dev.cloud

\* A device in RFOTM that is free stays free when only its method is selected.
LEMMA FreeKept ==
    ASSUME dev \in Resources, NEW d, SameOwnership(d), dev.dos = "RFOTM", Free
    PROVE  d = [Factory EXCEPT !.sel = d.sel]
<1>1. d \in Resources /\ dev \in Resources
  BY DEF SameOwnership
<1>3. /\ dev.dos = "RFOTM" /\ dev.owned = FALSE /\ dev.owner = Nobody /\ dev.rowner = {}
      /\ dev.cred = {} /\ dev.acl = {} /\ dev.cloud = {}
  BY DEF Free, Factory
<1>2. /\ d.dos = "RFOTM" /\ d.owned = FALSE /\ d.owner = Nobody /\ d.rowner = {}
      /\ d.cred = {} /\ d.acl = {} /\ d.cloud = {}
  BY <1>3 DEF SameOwnership
<1>4. ~d.owned /\ d.owned \in BOOLEAN
  BY <1>1, <1>2 DEF Resources
<1>5. ASSUME NEW x \in DOMAIN d PROVE d[x] = [Factory EXCEPT !.sel = d.sel][x]
  <2>1. x \in {"dos", "owned", "owner", "sel", "rowner", "cred", "acl", "cloud"}
    BY <1>1, <1>5 DEF Resources
  <2>2. CASE x = "owned"
    BY <1>4, <2>2 DEF Factory
  <2>3. CASE x # "owned"
    BY <1>2, <2>1, <2>3 DEF Factory
  <2> QED
    BY <2>2, <2>3
<1>6. DOMAIN d = DOMAIN [Factory EXCEPT !.sel = d.sel]
  BY <1>1 DEF Resources, Factory
<1>7. d = [x \in DOMAIN d |-> d[x]]
  BY <1>1 DEF Resources
<1> QED
  BY <1>5, <1>6, <1>7 DEF Factory

LEMMA OtherRequest ==
    ASSUME OwnInv, NEW p \in Procs, at[p] \notin HolderLabels,
           NEW ok, NEW d, NEW l, NEW f, ok => SameOwnership(d),
           l \notin HolderLabels, f \notin HolderLabels,
           ok /\ d.dos = "RFPRO" => \/ l \in LeaveLabels
                                    \/ dev.dos = "RFPRO" /\ at[p] \notin LeaveLabels,
           ok /\ d.dos = "RFPRO" => dev.dos = "RFPRO" \/ at[p] \in LastResort,
           at[p] \in LeaveLabels => f \in LeaveLabels \/ at[p] \in LastResort,
           Answered(p, ok, d, l) \/ FailedRequest(p, ok, d, f) \/ HungUp(p, ok, d, f)
    PROVE  TransferInv'
<1> USE DEF Goto
<1>0. /\ TypeOK /\ TransferInv /\ at \in [Procs -> Labels] /\ dev \in Resources
      /\ otm \in [Procs -> {"coaps", "coaps+tcp", Nobody}]
  BY DEF OwnInv, TypeOK
<1>p. otm[p] = Nobody
  BY <1>0 DEF TransferInv, HolderStage
<1>h. Answered(p, ok, d, l) \/ FailedRequest(p, ok, d, f)
  BY <1>p DEF HungUp
<1>a. /\ \A q \in Procs : q # p => at'[q] = at[q]
      /\ otm' = otm
      /\ dev' = dev \/ (ok /\ dev' = d)
      /\ dev' # Factory /\ lossy => lossy'
  BY <1>0, <1>h DEF Answered, FailedRequest
<1>d. SameOwnership(dev')
  BY <1>0, <1>a DEF SameOwnership
<1>1. OneHolder'
  BY <1>0, <1>a DEF TransferInv, OneHolder
<1>2. HolderStage'
  BY <1>0, <1>p, <1>a, <1>d DEF TransferInv, HolderStage, Stage, SameOwnership
<1>3. FreeWithoutHolder'
  <2>1. dev'.dos = "RFOTM" => dev.dos = "RFOTM"
    BY <1>d DEF SameOwnership
  <2> QED
    BY <1>0, <1>a, <1>d, <2>1, FreeKept DEF TransferInv, FreeWithoutHolder, Free
<1>4. BelongsTo(dev)'
  BY <1>0, <1>d DEF TransferInv, BelongsTo, SameOwnership
<1>5. AccessIsComing'
  <2>1. dev'.dos # "RFOTM" => dev.dos # "RFOTM" /\ dev' # Factory
    BY <1>d, FactoryType DEF SameOwnership
  <2>2. dev'.owner = dev.owner /\ dev'.acl = dev.acl
    BY <1>d DEF SameOwnership
  <2>3. AccessLabels \subseteq HolderLabels
    BY LabelsHold
  <2> QED
    BY <1>0, <1>p, <1>a, <2>1, <2>2, <2>3 DEF TransferInv, AccessIsComing
<1>6. SomebodyLeavesRFPRO'
  <2> SUFFICES ASSUME dev'.dos = "RFPRO", ~abandoned'
               PROVE  \E q \in Procs : at'[q] \in LeaveLabels
    BY DEF SomebodyLeavesRFPRO
  <2>1. CASE Answered(p, ok, d, l)
    <3>1. ok /\ dev' = d /\ at'[p] = l /\ abandoned' = (dev'.dos = "RFPRO" /\ abandoned)
      BY <1>0, <2>1 DEF Answered
    <3>2. CASE l \in LeaveLabels
      BY <3>1, <3>2
    <3>3. CASE l \notin LeaveLabels
      <4>1. dev.dos = "RFPRO" /\ at[p] \notin LeaveLabels /\ ~abandoned
        BY <3>1, <3>3
      <4> QED
        BY <1>0, <1>a, <4>1 DEF TransferInv, SomebodyLeavesRFPRO
    <3> QED
      BY <3>2, <3>3
  <2>2. CASE FailedRequest(p, ok, d, f)
    <3>1. at'[p] = f /\ ~abandoned /\ at[p] \notin LastResort
      BY <1>0, <2>2 DEF FailedRequest
    <3>2. dev.dos = "RFPRO"
      BY <1>a, <3>1
    <3> QED
      BY <1>0, <1>a, <3>1, <3>2 DEF TransferInv, SomebodyLeavesRFPRO
  <2> QED
    BY <1>h, <2>1, <2>2
<1> QED
  BY <1>1, <1>2, <1>3, <1>4, <1>5, <1>6 DEF TransferInv

------------------------------------------------------------------------------
(* Own                                                                      *)

LEMMA HolderStep ==
    ASSUME OwnInv, NEW p \in Procs, at[p] \in TransferLabels \union ConfigureLabels,
           NEW ok, NEW d, NEW l, ok => otm[p] # Nobody /\ GoodStep(p, d, l), l \in HolderLabels,
           Request(p, ok, d, l, "rollback")
    PROVE  OwnInv'
<1>1. TransferInv'
  BY RequestEnds, HolderRequest
<1>2. l \in Labels /\ "rollback" \in Labels
  BY LabelsHold
<1>3. TypeOK'
  BY <1>2, RequestType DEF OwnInv, GoodStep
<1> QED
  BY <1>1, <1>3 DEF OwnInv

\* The steps of ownershipTransfer.
LEMMA TransferSteps ==
    ASSUME OwnInv, NEW p \in Procs,
           \/ CheckProvisionState(p) \/ SetOperationalMode(p) \/ ActionDuringOwn(p)
           \/ ProvisionOwner(p) \/ SetOwner(p) \/ VerifyOwner(p) \/ SetResourceOwner(p)
    PROVE  OwnInv'
<1>t. dev \in Resources /\ Id[p] \in Owners /\ BelongsTo(dev)
  BY IdAssumption DEF OwnInv, TypeOK, TransferInv
<1>s. otm[p] # Nobody => Stage(at[p], Id[p], dev)
  BY DEF OwnInv, TransferInv, HolderStage
<1>1. CASE CheckProvisionState(p) \/ SetOperationalMode(p) \/ ActionDuringOwn(p)
  <2>1. PICK l \in {"mode", "during", "provision"} : 
            /\ at[p] \in {"check", "mode", "during"}
            /\ Request(p, otm[p] # Nobody /\ dev.dos = "RFOTM" /\ TRUE, dev, l, "rollback")
    BY <1>1 DEF CheckProvisionState, SetOperationalMode, ActionDuringOwn, Transfer
  <2>2. dev.dos = "RFOTM" => GoodStep(p, dev, l)
    BY <1>t DEF GoodStep, HolderLabels, TransferLabels, ConfigureLabels, Stage
  <2>3. at[p] \in TransferLabels /\ l \in HolderLabels
    BY <2>1 DEF TransferLabels, HolderLabels
  <2> QED
    BY <2>1, <2>2, <2>3, HolderStep
<1>2. CASE ProvisionOwner(p)
  <2> DEFINE d == ProvisionOwnerCredentials(p)
  <2>1. /\ at[p] = "provision"
        /\ Request(p, otm[p] # Nobody /\ dev.dos = "RFOTM" /\ TRUE, d, "setOwner", "rollback")
    BY <1>2 DEF ProvisionOwner, Transfer
  <2>2. d \in Resources /\ d.dos = dev.dos /\ Id[p] \in d.cred
    BY <1>t DEF ProvisionOwnerCredentials, Resources
  <2>3. dev.dos = "RFOTM" => GoodStep(p, d, "setOwner")
    BY <2>2 DEF GoodStep, HolderLabels, TransferLabels, ConfigureLabels, Stage, BelongsTo
  <2>4. at[p] \in TransferLabels /\ "setOwner" \in HolderLabels
    BY <2>1 DEF TransferLabels, HolderLabels
  <2> HIDE DEF d
  <2> QED
    BY <2>1, <2>3, <2>4, HolderStep
<1>3. CASE SetOwner(p)
  <2> DEFINE d == [dev EXCEPT !.owner = Id[p]]
  <2>1. /\ at[p] = "setOwner"
        /\ Request(p, otm[p] # Nobody /\ dev.dos = "RFOTM" /\ TRUE, d, "verify", "rollback")
    BY <1>3 DEF SetOwner, Transfer
  <2>2. d \in Resources /\ d.dos = dev.dos /\ d.owner = Id[p] /\ d.cred = dev.cred
    BY <1>t DEF Resources
  <2>3. otm[p] # Nobody /\ dev.dos = "RFOTM" => GoodStep(p, d, "verify")
    BY <1>s, <2>1, <2>2 DEF GoodStep, HolderLabels, TransferLabels, ConfigureLabels, Stage, BelongsTo
  <2>4. at[p] \in TransferLabels /\ "verify" \in HolderLabels
    BY <2>1 DEF TransferLabels, HolderLabels
  <2> HIDE DEF d
  <2> QED
    BY <2>1, <2>3, <2>4, HolderStep
<1>4. CASE VerifyOwner(p)
  <2>1. /\ at[p] = "verify"
        /\ Request(p, otm[p] # Nobody /\ dev.dos = "RFOTM" /\ dev.owner = Id[p], dev, "ownPstat", "rollback")
    BY <1>4 DEF VerifyOwner, Transfer
  <2>3. otm[p] # Nobody /\ dev.dos = "RFOTM" => GoodStep(p, dev, "ownPstat")
    BY <1>s, <1>t, <2>1 DEF GoodStep, HolderLabels, TransferLabels, ConfigureLabels, Stage
  <2>4. at[p] \in TransferLabels /\ "ownPstat" \in HolderLabels
    BY <2>1 DEF TransferLabels, HolderLabels
  <2> QED
    BY <2>1, <2>3, <2>4, HolderStep
<1>5. CASE SetResourceOwner(p) /\ at[p] = "ownPstat"
  <2> DEFINE d == [dev EXCEPT !.rowner = @ \union {"pstat"}]
  <2>1. Request(p, otm[p] # Nobody /\ dev.dos = "RFOTM" /\ TRUE, d, "ownACL", "rollback")
    BY <1>5 DEF SetResourceOwner, Transfer
  <2>2. /\ d \in Resources /\ d.dos = dev.dos /\ d.owner = dev.owner /\ d.cred = dev.cred
        /\ "pstat" \in d.rowner
    BY <1>t DEF Resources
  <2>3. otm[p] # Nobody /\ dev.dos = "RFOTM" => GoodStep(p, d, "ownACL")
    BY <1>s, <1>5, <2>2 DEF GoodStep, HolderLabels, TransferLabels, ConfigureLabels, Stage, BelongsTo
  <2>4. at[p] \in TransferLabels /\ "ownACL" \in HolderLabels
    BY <1>5 DEF TransferLabels, HolderLabels
  <2> HIDE DEF d
  <2> QED
    BY <2>1, <2>3, <2>4, HolderStep
<1>6. CASE SetResourceOwner(p) /\ at[p] = "ownACL"
  <2> DEFINE d == [dev EXCEPT !.rowner = @ \union {"acl2"}]
  <2>1. Request(p, otm[p] # Nobody /\ dev.dos = "RFOTM" /\ TRUE, d, "setOwned", "rollback")
    BY <1>6 DEF SetResourceOwner, Transfer
  <2>2. /\ d \in Resources /\ d.dos = dev.dos /\ d.owner = dev.owner /\ d.cred = dev.cred
        /\ d.rowner = dev.rowner \union {"acl2"}
    BY <1>t DEF Resources
  <2>3. otm[p] # Nobody /\ dev.dos = "RFOTM" => GoodStep(p, d, "setOwned")
    BY <1>s, <1>6, <2>2 DEF GoodStep, HolderLabels, TransferLabels, ConfigureLabels, Stage, BelongsTo
  <2>4. at[p] \in TransferLabels /\ "setOwned" \in HolderLabels
    BY <1>6 DEF TransferLabels, HolderLabels
  <2> HIDE DEF d
  <2> QED
    BY <2>1, <2>3, <2>4, HolderStep
<1>7. CASE SetResourceOwner(p) /\ at[p] = "setOwned"
  <2> DEFINE d == [dev EXCEPT !.rowner = @ \union {"doxm"}, !.owned = TRUE]
  <2>1. Request(p, otm[p] # Nobody /\ dev.dos = "RFOTM" /\ TRUE, d, "rfpro", "rollback")
    BY <1>7 DEF SetResourceOwner, Transfer
  <2>2. /\ d \in Resources /\ d.dos = dev.dos /\ d.owner = dev.owner /\ d.cred = dev.cred
        /\ d.rowner = dev.rowner \union {"doxm"} /\ d.owned
    BY <1>t DEF Resources
  <2>3. otm[p] # Nobody => d.rowner = RowOwned /\ Id[p] \in d.cred /\ d.owner = Id[p]
    <3>1. otm[p] # Nobody => {"pstat", "acl2"} \subseteq dev.rowner /\ Id[p] \in dev.cred /\ dev.owner = Id[p]
      BY <1>s, <1>7 DEF Stage
    <3>2. dev.rowner \subseteq RowOwned
      BY <1>t DEF Resources, RowOwned
    <3> QED
      BY <2>2, <3>1, <3>2 DEF RowOwned
  <2>4. otm[p] # Nobody /\ dev.dos = "RFOTM" => GoodStep(p, d, "rfpro")
    BY <2>2, <2>3 DEF GoodStep, HolderLabels, TransferLabels, ConfigureLabels, Stage, BelongsTo
  <2>5. at[p] \in TransferLabels /\ "rfpro" \in HolderLabels
    BY <1>7 DEF TransferLabels, HolderLabels
  <2> HIDE DEF d
  <2> QED
    BY <2>1, <2>4, <2>5, HolderStep
<1> QED
  BY <1>1, <1>2, <1>3, <1>4, <1>5, <1>6, <1>7 DEF SetResourceOwner

\* The steps of configure.
LEMMA ConfigureSteps ==
    ASSUME OwnInv, NEW p \in Procs,
           \/ SetRFPRO(p) \/ GetDTLSClient(p) \/ DeleteACL(p) \/ SetACL(p) \/ SetRFNOP(p)
           \/ ActionAfterOwn(p)
    PROVE  OwnInv'
<1>t. dev \in Resources /\ Id[p] \in Owners /\ BelongsTo(dev)
  BY IdAssumption DEF OwnInv, TypeOK, TransferInv
<1>s. otm[p] # Nobody => Stage(at[p], Id[p], dev)
  BY DEF OwnInv, TransferInv, HolderStage
<1>l. /\ ConfigureLabels \subseteq HolderLabels /\ "close" \in HolderLabels
      /\ "rfpro" \in TransferLabels
  BY DEF HolderLabels, TransferLabels
<1>1. CASE SetRFPRO(p)
  <2> DEFINE d == [dev EXCEPT !.dos = "RFPRO"]
  <2>1. /\ at[p] = "rfpro"
        /\ Request(p, otm[p] # Nobody /\ (dev.dos = "RFOTM" /\ dev.owned), d, "dialPSK", "rollback")
    BY <1>1 DEF SetRFPRO, Configure
  <2>2. /\ d \in Resources /\ d.dos = "RFPRO" /\ d.owner = dev.owner /\ d.cred = dev.cred
        /\ d.rowner = dev.rowner /\ (d.owned <=> dev.owned)
    BY <1>t DEF Resources
  <2>3. otm[p] # Nobody => /\ dev.owner = Id[p] /\ Id[p] \in dev.cred /\ dev.owned
                           /\ dev.rowner = RowOwned
    BY <1>s, <2>1 DEF Stage
  <2>4. otm[p] # Nobody => GoodStep(p, d, "dialPSK")
    BY <1>t, <2>2, <2>3 DEF GoodStep, HolderLabels, ConfigureLabels, Stage, BelongsTo, AccessLabels,
       LeaveLabels
  <2>5. at[p] \in TransferLabels /\ "dialPSK" \in HolderLabels
    BY <1>l, <2>1 DEF ConfigureLabels
  <2> HIDE DEF d
  <2> QED
    BY <2>1, <2>4, <2>5, HolderStep
<1>2. CASE GetDTLSClient(p)
  <2>1. /\ at[p] = "dialPSK"
        /\ Request(p, otm[p] # Nobody /\ (otm[p] = "coaps" /\ Id[p] \in dev.cred), dev, "deleteACL",
                   "rollback")
    BY <1>2 DEF GetDTLSClient, Configure
  <2>2. otm[p] # Nobody => GoodStep(p, dev, "deleteACL")
    BY <1>s, <1>t, <2>1 DEF GoodStep, HolderLabels, ConfigureLabels, Stage, AccessLabels, LeaveLabels
  <2>3. at[p] \in ConfigureLabels /\ "deleteACL" \in HolderLabels
    BY <1>l, <2>1 DEF ConfigureLabels
  <2> QED
    BY <2>1, <2>2, <2>3, HolderStep
<1>3. CASE DeleteACL(p)
  <2> DEFINE d == [dev EXCEPT !.acl = {}]
  <2>1. /\ at[p] = "deleteACL"
        /\ Request(p, otm[p] # Nobody /\ dev.dos = "RFPRO", d, "setACL", "rollback")
    BY <1>3 DEF DeleteACL, Configure
  <2>2. /\ d \in Resources /\ d.dos = dev.dos /\ d.owner = dev.owner /\ d.cred = dev.cred
        /\ d.rowner = dev.rowner /\ (d.owned <=> dev.owned)
    BY <1>t DEF Resources
  <2>3. otm[p] # Nobody => GoodStep(p, d, "setACL")
    BY <1>s, <1>t, <2>1, <2>2 DEF GoodStep, HolderLabels, ConfigureLabels, Stage, BelongsTo,
       AccessLabels, LeaveLabels
  <2>4. at[p] \in ConfigureLabels /\ "setACL" \in HolderLabels
    BY <1>l, <2>1 DEF ConfigureLabels
  <2> HIDE DEF d
  <2> QED
    BY <2>1, <2>3, <2>4, HolderStep
<1>4. CASE SetACL(p)
  <2> DEFINE d == [dev EXCEPT !.acl = @ \union {Id[p]}]
  <2>1. /\ at[p] = "setACL"
        /\ Request(p, otm[p] # Nobody /\ dev.dos = "RFPRO", d, "rfnop", "rollback")
    BY <1>4 DEF SetACL, Configure
  <2>2. /\ d \in Resources /\ d.dos = dev.dos /\ d.owner = dev.owner /\ d.cred = dev.cred
        /\ d.rowner = dev.rowner /\ (d.owned <=> dev.owned) /\ Id[p] \in d.acl
    BY <1>t DEF Resources
  <2>3. otm[p] # Nobody => GoodStep(p, d, "rfnop")
    BY <1>s, <1>t, <2>1, <2>2 DEF GoodStep, HolderLabels, ConfigureLabels, Stage, BelongsTo,
       AccessLabels, LeaveLabels
  <2>4. at[p] \in ConfigureLabels /\ "rfnop" \in HolderLabels
    BY <1>l, <2>1 DEF ConfigureLabels
  <2> HIDE DEF d
  <2> QED
    BY <2>1, <2>3, <2>4, HolderStep
<1>5. CASE SetRFNOP(p)
  <2> DEFINE d == [dev EXCEPT !.dos = "RFNOP"]
  <2>1. /\ at[p] = "rfnop"
        /\ Request(p, otm[p] # Nobody /\ TRUE, d, "after", "rollback")
    BY <1>5 DEF SetRFNOP, Configure
  <2>2. /\ d \in Resources /\ d.dos = "RFNOP" /\ d.owner = dev.owner /\ d.cred = dev.cred
        /\ d.rowner = dev.rowner /\ (d.owned <=> dev.owned) /\ d.acl = dev.acl
    BY <1>t DEF Resources
  <2>3. otm[p] # Nobody => GoodStep(p, d, "after")
    BY <1>s, <1>t, <2>1, <2>2 DEF GoodStep, HolderLabels, ConfigureLabels, Stage, BelongsTo
  <2>4. at[p] \in ConfigureLabels /\ "after" \in HolderLabels
    BY <1>l, <2>1 DEF ConfigureLabels
  <2> HIDE DEF d
  <2> QED
    BY <2>1, <2>3, <2>4, HolderStep
<1>6. CASE ActionAfterOwn(p)
  <2>1. /\ at[p] = "after"
        /\ Request(p, otm[p] # Nobody /\ TRUE, dev, "close", "rollback")
    BY <1>6 DEF ActionAfterOwn, Configure
  <2>2. otm[p] # Nobody => GoodStep(p, dev, "close")
    BY <1>s, <1>t, <2>1 DEF GoodStep, HolderLabels, ConfigureLabels, Stage, LeaveLabels, AccessLabels
  <2>3. at[p] \in ConfigureLabels /\ "close" \in HolderLabels
    BY <1>l, <2>1 DEF ConfigureLabels
  <2> QED
    BY <2>1, <2>2, <2>3, HolderStep
<1> QED
  BY <1>1, <1>2, <1>3, <1>4, <1>5, <1>6

------------------------------------------------------------------------------
(* The choice of a transfer method                                          *)

\* A set of naturals that is not empty has a least element.
LEMMA LeastIndex ==
    ASSUME NEW T, T \subseteq Nat, T # {}
    PROVE  \E n \in T : \A m \in T : n <= m
<1>0. OpToRel(<, Nat) = {r \in Nat \X Nat : r[1] < r[2]}
  BY DEF OpToRel
<1>1. PICK x \in T : \A y \in T : ~(<<y, x>> \in OpToRel(<, Nat))
  BY WFMin, NatLessThanWellFounded
<1>2. \A y \in T : ~(y < x)
  <2> TAKE y \in T
  <2>1. y < x => <<y, x>> \in {r \in Nat \X Nat : r[1] < r[2]}
    OBVIOUS
  <2> QED
    BY <1>0, <1>1, <2>1
<1> QED
  BY <1>2

\* findOTMClient returns the first of the client's methods that the device
\* supports, and none exactly when there is none.
LEMMA FindOTMClientIsFirst ==
    ASSUME NEW ms \in Seq(Methods)
    PROVE  \/ /\ FindOTMClient(ms) = Nobody
              /\ \A i \in 1 .. Len(ms) : ms[i] \notin Supported
           \/ \E i \in 1 .. Len(ms) : /\ FindOTMClient(ms) = ms[i] /\ ms[i] \in Supported
                                      /\ \A j \in 1 .. (i - 1) : ms[j] \notin Supported
<1>0. Len(ms) \in Nat
  OBVIOUS
<1>1. CASE \A i \in 1 .. Len(ms) : ms[i] \notin Supported
  BY <1>1 DEF FindOTMClient
<1>2. CASE \E i \in 1 .. Len(ms) : ms[i] \in Supported
  <2> DEFINE T == {i \in 1 .. Len(ms) : ms[i] \in Supported}
             Least(i) == ms[i] \in Supported /\ \A j \in 1 .. (i - 1) : ms[j] \notin Supported
  <2>1. T \subseteq Nat /\ T # {}
    BY <1>0, <1>2
  <2>2. PICK n \in T : \A m \in T : n <= m
    BY <2>1, LeastIndex
  <2>3. n \in 1 .. Len(ms) /\ n \in Nat /\ ms[n] \in Supported
    BY <1>0, <2>2
  <2>4. \A j \in 1 .. (n - 1) : ms[j] \notin Supported
    <3> SUFFICES ASSUME NEW j \in 1 .. (n - 1), ms[j] \in Supported PROVE FALSE
      OBVIOUS
    <3>1. j \in 1 .. Len(ms) /\ ~(n <= j)
      BY <1>0, <2>3
    <3> QED
      BY <2>2, <3>1
  <2>5. Least(n)
    BY <2>3, <2>4
  <2>6. \E i \in 1 .. Len(ms) : Least(i)
    BY <2>3, <2>5
  <2>7. /\ (CHOOSE i \in 1 .. Len(ms) : Least(i)) \in 1 .. Len(ms)
        /\ Least(CHOOSE i \in 1 .. Len(ms) : Least(i))
    <3> HIDE DEF Least
    <3> QED
      BY <2>6
  <2>8. FindOTMClient(ms) = ms[CHOOSE i \in 1 .. Len(ms) : Least(i)]
    BY <1>2 DEF FindOTMClient
  <2> QED
    BY <2>7, <2>8
<1> QED
  BY <1>1, <1>2

LEMMA MethodType ==
    ASSUME NEW p \in Procs
    PROVE  FindOTMClient(GetOtmClients(p)) \in Methods \union {Nobody}
<1>1. GetOtmClients(p) \in Seq(Methods)
  <2>1. OtmClients[Id[p]] \in Seq(Methods)
    BY OtmAssumption, IdAssumption
  <2>2. <<>> \in Seq(Methods)
    OBVIOUS
  <2> QED
    BY <2>1, <2>2 DEF GetOtmClients
<1>2. \A i \in 1 .. Len(GetOtmClients(p)) : GetOtmClients(p)[i] \in Methods
  BY <1>1
<1> QED
  BY <1>1, <1>2, FindOTMClientIsFirst

------------------------------------------------------------------------------
(* The calls that begin, and what they read                                 *)

LEMMA ReadLabels ==
    /\ \A l \in {"idle", "getOwnership", "selectOTM", "dial", "disownGet", "reset", "provStart",
                 "unset"} : l \in Labels \ (HolderLabels \union LeaveLabels)
    /\ \A l \in {"cloudACL", "cloudSet", "provClose"} : l \in Labels \ HolderLabels
<1>1. OwnSteps[1] = "getOwnership" /\ OwnSteps[2] = "selectOTM" /\ OwnSteps[3] = "dial" /\ Len(OwnSteps) = 18
  BY DEF OwnSteps
<1>2. {"getOwnership", "selectOTM", "dial"} \subseteq OwnLabels
  BY <1>1 DEF OwnLabels
<1> QED
  BY <1>2 DEF Labels, HolderLabels, LeaveLabels, AccessLabels, TransferLabels, ConfigureLabels

LEMMA MoveStep ==
    ASSUME OwnInv, NEW p \in Procs, NEW l \in Labels, Goto(p, l),
           at[p] \notin HolderLabels \union LeaveLabels,
           UNCHANGED <<dev, identity, otm, method, ghosts>>,
           over' = over \/ over' = [over EXCEPT ![p] = FALSE],
           \/ result' = result
           \/ \E r \in {"ok", "error", "denied"} : result' = [result EXCEPT ![p] = r]
    PROVE  OwnInv'
<1>1. TypeOK'
  BY MoveType DEF OwnInv
<1>2. TransferInv'
  BY MoveKeeps DEF OwnInv, TypeOK
<1> QED
  BY <1>1, <1>2 DEF OwnInv

LEMMA BeginStep ==
    ASSUME OwnInv, NEW p \in Procs, Own(p) \/ Disown(p) \/ Onboard(p) \/ Offboard(p)
    PROVE  OwnInv'
<1>1. PICK l \in {"getOwnership", "disownGet", "provStart", "unset"} : Begin(p, l)
  BY DEF Own, Disown, Onboard, Offboard
<1>2. l \in Labels /\ "idle" \notin HolderLabels \union LeaveLabels
  BY ReadLabels
<1> QED
  BY <1>1, <1>2, MoveStep DEF Begin

\* GetOwnership of Own and Disown, with its early returns.
LEMMA ReadStep ==
    ASSUME OwnInv, NEW p \in Procs, OwnGetOwnership(p) \/ DisownGetOwnership(p)
    PROVE  OwnInv'
<1>0. at[p] \in {"getOwnership", "disownGet"}
  BY DEF OwnGetOwnership, DisownGetOwnership
<1>l. at[p] \notin HolderLabels \union LeaveLabels /\ {"idle", "reset", "selectOTM"} \subseteq Labels
  BY <1>0, ReadLabels
<1>1. ASSUME NEW r \in {"ok", "error", "denied"}, ReturnFromRead(p, r) PROVE OwnInv'
  BY <1>l, <1>1, MoveStep DEF ReturnFromRead
<1>2. CASE Goto(p, "reset") /\ UNCHANGED <<dev, identity, callVars, ghosts>>
  BY <1>l, <1>2, MoveStep DEF callVars
<1>3. CASE /\ method' = [method EXCEPT ![p] = FindOTMClient(GetOtmClients(p))]
           /\ Goto(p, "selectOTM")
           /\ UNCHANGED <<dev, identity, over, otm, result, ghosts>>
  <2>1. method' \in [Procs -> Methods \union {Nobody}]
    BY <1>3, MethodType DEF OwnInv, TypeOK
  <2>2. at' \in [Procs -> Labels]
    BY <1>l, <1>3 DEF OwnInv, TypeOK, Goto
  <2>3. TypeOK'
    BY <1>3, <2>1, <2>2 DEF OwnInv, TypeOK, ghosts
  <2>4. TransferInv'
    BY <1>l, <1>3, MoveKeeps DEF OwnInv, TypeOK
  <2> QED
    BY <2>3, <2>4 DEF OwnInv
<1> QED
  BY <1>1, <1>2, <1>3 DEF OwnGetOwnership, DisownGetOwnership, ReadFails

------------------------------------------------------------------------------
(* The requests of selectOTM, onboarding and offboarding                    *)

LEMMA OtherStep ==
    ASSUME OwnInv, NEW p \in Procs, at[p] \notin HolderLabels,
           NEW ok, NEW d, NEW l \in Labels, NEW f \in Labels, ok => SameOwnership(d),
           l \notin HolderLabels, f \notin HolderLabels,
           ok /\ d.dos = "RFPRO" => \/ l \in LeaveLabels
                                    \/ dev.dos = "RFPRO" /\ at[p] \notin LeaveLabels,
           ok /\ d.dos = "RFPRO" => dev.dos = "RFPRO" \/ at[p] \in LastResort,
           at[p] \in LeaveLabels => f \in LeaveLabels \/ at[p] \in LastResort,
           Request(p, ok, d, l, f)
    PROVE  OwnInv'
<1>1. TransferInv'
  BY RequestEnds, OtherRequest
<1>2. TypeOK'
  BY RequestType DEF OwnInv, SameOwnership
<1> QED
  BY <1>1, <1>2 DEF OwnInv

LEMMA SelectStep ==
    ASSUME OwnInv, NEW p \in Procs, SelectOTM(p)
    PROVE  OwnInv'
<1> DEFINE d == [dev EXCEPT !.sel = method[p]]
<1>t. dev \in Resources /\ method[p] \in Methods \union {Nobody}
  BY DEF OwnInv, TypeOK
<1>1. at[p] = "selectOTM" /\ Request(p, dev.dos = "RFOTM", d, "dial", "idle")
  BY DEF SelectOTM, SetOTM
<1>2. SameOwnership(d) /\ d.dos = dev.dos
  BY <1>t DEF SameOwnership, Resources
<1>3. {"dial", "idle"} \subseteq Labels \ HolderLabels /\ at[p] \notin HolderLabels \union LeaveLabels
  BY <1>1, ReadLabels
<1> HIDE DEF d
<1> QED
  BY <1>1, <1>2, <1>3, OtherStep

\* Onboarding and offboarding change only the state and the cloud of a device
\* that is owned.
LEMMA OnboardSteps ==
    ASSUME OwnInv, NEW p \in Procs,
           \/ ProvisionStart(p) \/ SetACLForCloud(p) \/ SetCloudResource(p) \/ ProvisionClose(p)
           \/ OffboardSet(p)
    PROVE  OwnInv'
<1>t. dev \in Resources
  BY DEF OwnInv, TypeOK
<1>m. MayAccess(p) => dev.dos # "RFOTM"
  BY DEF MayAccess
<1>l. /\ {"idle", "cloudACL", "cloudSet", "provClose"} \subseteq Labels \ HolderLabels
      /\ {"provStart", "unset"} \cap (HolderLabels \union LeaveLabels) = {}
      /\ {"cloudACL", "cloudSet", "provClose"} \subseteq LeaveLabels
      /\ "provClose" \in LastResort /\ "provStart" \in LastResort
  BY ReadLabels DEF LastResort, LeaveLabels
<1>1. CASE ProvisionStart(p)
  <2> DEFINE d == [dev EXCEPT !.dos = "RFPRO"]
  <2>1. at[p] = "provStart" /\ Request(p, MayAccess(p), d, "cloudACL", "idle")
    BY <1>1 DEF ProvisionStart
  <2>2. MayAccess(p) => SameOwnership(d)
    BY <1>t, <1>m DEF SameOwnership, Resources
  <2> HIDE DEF d
  <2> QED
    BY <1>l, <2>1, <2>2, OtherStep
<1>2. CASE SetACLForCloud(p)
  <2> DEFINE d == [dev EXCEPT !.cloud = @ \union {"acl"}]
  <2>1. at[p] = "cloudACL" /\ Request(p, MayAccess(p) /\ dev.dos = "RFPRO", d, "cloudSet", "provClose")
    BY <1>2 DEF SetACLForCloud, SetAccessControl
  <2>2. MayAccess(p) => SameOwnership(d)
    BY <1>t, <1>m DEF SameOwnership, Resources
  <2> HIDE DEF d
  <2> QED
    BY <1>l, <2>1, <2>2, OtherStep
<1>3. CASE SetCloudResource(p)
  <2> DEFINE d == [dev EXCEPT !.cloud = @ \union {"conf"}]
  <2>1. at[p] = "cloudSet" /\ Request(p, MayAccess(p), d, "provClose", "provClose")
    BY <1>3 DEF SetCloudResource, CloudConfiguration
  <2>2. MayAccess(p) => SameOwnership(d) /\ d.dos = dev.dos
    BY <1>t, <1>m DEF SameOwnership, Resources
  <2> HIDE DEF d
  <2> QED
    BY <1>l, <2>1, <2>2, OtherStep
<1>4. CASE ProvisionClose(p)
  <2> DEFINE d == [dev EXCEPT !.dos = "RFNOP"]
  <2>1. at[p] = "provClose" /\ Request(p, MayAccess(p), d, "idle", "idle")
    BY <1>4 DEF ProvisionClose
  <2>2. (MayAccess(p) => SameOwnership(d)) /\ d.dos = "RFNOP"
    BY <1>t, <1>m DEF SameOwnership, Resources
  <2> HIDE DEF d
  <2> QED
    BY <1>l, <2>1, <2>2, OtherStep
<1>5. CASE OffboardSet(p)
  <2> DEFINE d == [dev EXCEPT !.cloud = @ \ {"conf"}]
  <2>1. at[p] = "unset" /\ Request(p, MayAccess(p) /\ Id[p] \in dev.acl, d, "idle", "idle")
    BY <1>5 DEF OffboardSet
  <2>2. MayAccess(p) => SameOwnership(d) /\ d.dos = dev.dos
    BY <1>t, <1>m DEF SameOwnership, Resources
  <2> HIDE DEF d
  <2> QED
    BY <1>l, <2>1, <2>2, OtherStep
<1> QED
  BY <1>1, <1>2, <1>3, <1>4, <1>5

------------------------------------------------------------------------------
(* The transfer connection is opened and closed; resets                     *)

\* Only a device without a holder, in RFOTM, takes a transfer connection.
LEMMA DialStep ==
    ASSUME OwnInv, NEW p \in Procs, GetTLSClient(p)
    PROVE  OwnInv'
<1>0. /\ TypeOK /\ TransferInv /\ at \in [Procs -> Labels] /\ at[p] = "dial"
      /\ otm \in [Procs -> {"coaps", "coaps+tcp", Nobody}]
      /\ UNCHANGED <<dev, identity, over, method, lossy, abandoned>>
  BY DEF OwnInv, TypeOK, GetTLSClient, ghosts
<1>l. at[p] \notin HolderLabels \union LeaveLabels /\ {"idle", "check"} \subseteq Labels
      /\ "check" \in HolderLabels
  BY <1>0, ReadLabels, LabelsHold DEF HolderLabels, TransferLabels
<1>1. CASE Fail(p, "idle") /\ UNCHANGED otm
  <2>1. Goto(p, "idle") /\ (result' = result \/ result' = [result EXCEPT ![p] = "error"])
    BY <1>1 DEF Fail
  <2>2. OwnInv /\ UNCHANGED <<dev, identity, otm, method, ghosts>> /\ over' = over
    BY <1>0, <1>1 DEF ghosts
  <2> QED
    BY <1>l, <2>1, <2>2, MoveStep
<1>2. ASSUME MayTransfer(p), NEW s \in {"coaps", "coaps+tcp"}, otm' = [otm EXCEPT ![p] = s],
             Goto(p, "check"), UNCHANGED result
      PROVE  OwnInv'
  <2>1. at' = [at EXCEPT ![p] = "check"]
    BY <1>2 DEF Goto
  <2>2. \A q \in Procs : otm[q] = Nobody
    BY <1>2 DEF MayTransfer
  <2>3. \A q \in Procs : q # p => otm'[q] = Nobody /\ at'[q] = at[q]
    BY <1>0, <1>2, <2>1, <2>2
  <2>4. at'[p] = "check" /\ at' \in [Procs -> Labels]
    BY <1>0, <1>l, <2>1
  <2>5. TypeOK'
    <3>1. otm' \in [Procs -> {"coaps", "coaps+tcp", Nobody}]
      BY <1>0, <1>2
    <3> QED
      BY <1>0, <1>2, <2>4, <3>1 DEF TypeOK
  <2>6. OneHolder'
    BY <2>3 DEF OneHolder
  <2>7. HolderStage'
    BY <1>l, <2>3, <2>4 DEF HolderStage, Stage, ConfigureLabels
  <2>8. dev.dos = "RFOTM"
    BY <1>2 DEF MayTransfer
  <2>9. Free
    BY <1>0, <2>2, <2>8 DEF TransferInv, FreeWithoutHolder
  <2>10. FreeWithoutHolder' /\ BelongsTo(dev)' /\ AccessIsComing' /\ SomebodyLeavesRFPRO'
    BY <1>0, <2>8, <2>9 DEF FreeWithoutHolder, Free, BelongsTo, AccessIsComing, SomebodyLeavesRFPRO
  <2> QED
    BY <2>5, <2>6, <2>7, <2>10 DEF OwnInv, TransferInv
<1> QED
  BY <1>1, <1>2, SchemesAssumption DEF GetTLSClient

\* A reset device, without connections, satisfies everything.
LEMMA ResetKeeps ==
    ASSUME dev' = Factory, \A q \in Procs : otm'[q] = Nobody
    PROVE  TransferInv'
  BY FactoryType DEF TransferInv, OneHolder, HolderStage, FreeWithoutHolder, Free, BelongsTo,
     AccessIsComing, SomebodyLeavesRFPRO

\* The types after a step that ends a call and may close connections.
LEMMA EndType ==
    ASSUME TypeOK, NEW p \in Procs, Goto(p, "idle"), UNCHANGED <<identity, method>>,
           dev' \in Resources, over' \in [Procs -> BOOLEAN],
           \/ otm' = otm \/ otm' = [otm EXCEPT ![p] = Nobody] \/ otm' = [q \in Procs |-> Nobody],
           \/ result' = result
           \/ \E r \in {"ok", "error"} : result' = [result EXCEPT ![p] = r],
           lossy' \in BOOLEAN, abandoned' \in BOOLEAN
    PROVE  TypeOK'
<1>1. at' \in [Procs -> Labels]
  BY ReadLabels DEF TypeOK, Goto
<1>2. otm' \in [Procs -> {"coaps", "coaps+tcp", Nobody}]
  BY DEF TypeOK
<1>3. result' \in [Procs -> {"ok", "error", "denied"}]
  BY DEF TypeOK
<1> QED
  BY <1>1, <1>2, <1>3 DEF TypeOK

LEMMA ReturnStep ==
    ASSUME OwnInv, NEW p \in Procs, OwnReturns(p)
    PROVE  OwnInv'
<1>0. /\ TypeOK /\ TransferInv /\ at[p] = "close"
      /\ at \in [Procs -> Labels] /\ otm \in [Procs -> {"coaps", "coaps+tcp", Nobody}]
      /\ at' = [at EXCEPT ![p] = "idle"] /\ otm' = [otm EXCEPT ![p] = Nobody]
      /\ UNCHANGED <<dev, identity, over, method, result, lossy, abandoned>>
  BY DEF OwnInv, TypeOK, OwnReturns, ghosts, Goto
<1>1. TypeOK'
  BY <1>0, EndType DEF TypeOK, Goto
<1>2. otm'[p] = Nobody /\ \A q \in Procs : q # p => otm'[q] = otm[q] /\ at'[q] = at[q]
  BY <1>0
<1>3. OneHolder' /\ HolderStage' /\ BelongsTo(dev)'
  BY <1>0, <1>2 DEF TransferInv, OneHolder, HolderStage, Stage, BelongsTo
<1>4. FreeWithoutHolder'
  <2>1. CASE otm[p] = Nobody
    BY <1>0, <1>2, <2>1 DEF TransferInv, FreeWithoutHolder, Free
  <2>2. CASE otm[p] # Nobody
    BY <1>0, <2>2 DEF TransferInv, HolderStage, Stage, FreeWithoutHolder
  <2> QED
    BY <2>1, <2>2
<1>5. AccessIsComing' /\ SomebodyLeavesRFPRO'
  <2>1. "close" \notin AccessLabels \union LeaveLabels
    BY DEF AccessLabels, LeaveLabels
  <2> QED
    BY <1>0, <1>2, <2>1 DEF TransferInv, AccessIsComing, SomebodyLeavesRFPRO
<1> QED
  BY <1>1, <1>3, <1>4, <1>5 DEF OwnInv, TransferInv

\* A failed Own resets the device over its connection; when that is lost too,
\* the loss is noted.
LEMMA RollbackStep ==
    ASSUME OwnInv, NEW p \in Procs, DisownAndLogError(p)
    PROVE  OwnInv'
<1>0. /\ TypeOK /\ TransferInv /\ at[p] = "rollback" /\ dev \in Resources
      /\ at \in [Procs -> Labels] /\ otm \in [Procs -> {"coaps", "coaps+tcp", Nobody}]
      /\ Goto(p, "idle") /\ UNCHANGED <<identity, over, method, result>>
  BY DEF OwnInv, TypeOK, DisownAndLogError
<1>r. "rollback" \in LastResort /\ at' = [at EXCEPT ![p] = "idle"]
  BY <1>0 DEF LastResort, Goto
<1>1. CASE /\ dev' = Factory /\ otm' = [q \in Procs |-> Nobody] /\ Note(p, FALSE, FALSE)
  <2>1. TransferInv'
    BY <1>1, ResetKeeps
  <2>2. lossy' \in BOOLEAN /\ abandoned' \in BOOLEAN
    BY <1>1 DEF Note
  <2>3. over' \in [Procs -> BOOLEAN] /\ dev' \in Resources
    BY <1>0, <1>1, FactoryType DEF TypeOK
  <2>4. TypeOK'
    BY <1>0, <1>1, <2>2, <2>3, EndType
  <2> QED
    BY <2>1, <2>4 DEF OwnInv
<1>2. CASE /\ dev' = IF otm[p] = Nobody THEN dev ELSE AfterHangUp(dev)
           /\ otm' = [otm EXCEPT ![p] = Nobody]
           /\ Note(p, TRUE, otm[p] # Nobody)
  <2>1. lossy' \in BOOLEAN /\ abandoned' \in BOOLEAN
    BY <1>2 DEF Note
  <2>2. over' \in [Procs -> BOOLEAN] /\ dev' \in Resources
    BY <1>0, <1>2, HangUpFacts DEF TypeOK
  <2>3. TypeOK'
    BY <1>0, <1>2, <2>1, <2>2, EndType
  <2>4. otm'[p] = Nobody /\ \A q \in Procs : q # p => otm'[q] = otm[q] /\ at'[q] = at[q]
    BY <1>0, <1>r, <1>2
  <2>5. SomebodyLeavesRFPRO'
    <3>1. dev'.dos = "RFPRO" => abandoned'
      BY <1>0, <1>r, <1>2 DEF Note
    <3> QED
      BY <3>1 DEF SomebodyLeavesRFPRO
  <2>6. CASE otm[p] = Nobody
    <3>1. dev' = dev /\ (dev' # Factory /\ lossy => lossy')
      BY <1>2, <2>6 DEF Note
    <3>2. OneHolder' /\ HolderStage' /\ BelongsTo(dev)'
      BY <1>0, <2>4, <3>1 DEF TransferInv, OneHolder, HolderStage, Stage, BelongsTo
    <3>3. FreeWithoutHolder'
      BY <1>0, <2>4, <2>6, <3>1 DEF TransferInv, FreeWithoutHolder, Free
    <3>4. AccessIsComing'
      <4>1. dev.dos # "RFOTM" => dev # Factory
        BY FactoryType
      <4> QED
        BY <1>0, <2>4, <2>6, <3>1, <4>1 DEF TransferInv, AccessIsComing
    <3> QED
      BY <2>3, <2>5, <3>2, <3>3, <3>4 DEF OwnInv, TransferInv
  <2>7. CASE otm[p] # Nobody
    <3>1. dev' = AfterHangUp(dev) /\ (dev' # Factory => lossy')
      BY <1>2, <2>7 DEF Note
    <3>2. \A q \in Procs : otm'[q] = Nobody
      BY <1>0, <2>4, <2>7 DEF TransferInv, OneHolder
    <3>3. dev'.dos = "RFOTM" => dev' = Factory
      BY <1>0, <3>1, HangUpFacts
    <3>4. OneHolder' /\ HolderStage'
      BY <3>2 DEF OneHolder, HolderStage
    <3>5. BelongsTo(dev)'
      BY <1>0, <3>1, HangUpFacts DEF TransferInv, BelongsTo
    <3>6. FreeWithoutHolder' /\ AccessIsComing'
      BY <3>1, <3>3, FactoryType DEF FreeWithoutHolder, Free, AccessIsComing
    <3> QED
      BY <2>3, <2>5, <3>4, <3>5, <3>6 DEF OwnInv, TransferInv
  <2> QED
    BY <2>6, <2>7
<1> QED
  BY <1>1, <1>2 DEF DisownAndLogError

\* Disown resets a device of its owner, or changes nothing.
LEMMA ResetStep ==
    ASSUME OwnInv, NEW p \in Procs, DisownReset(p)
    PROVE  OwnInv'
<1>0. /\ TypeOK /\ TransferInv /\ at[p] = "reset" /\ dev \in Resources
      /\ at \in [Procs -> Labels]
      /\ Goto(p, "idle") /\ UNCHANGED <<identity, method>>
      /\ otm' = IF dev' = Factory THEN [q \in Procs |-> Nobody] ELSE otm
  BY DEF OwnInv, TypeOK, DisownReset
<1>1. dev' = Factory \/ dev' = dev
  BY DEF DisownReset, Unanswered
<1>2. \/ \E lost \in BOOLEAN : Note(p, FALSE, lost)
      \/ UNCHANGED ghosts
  BY DEF DisownReset
<1>3. lossy' \in BOOLEAN /\ abandoned' \in BOOLEAN
  BY <1>0, <1>2 DEF Note, ghosts, TypeOK
<1>4. over' = over \/ over' = [over EXCEPT ![p] = TRUE]
  BY DEF DisownReset
<1>5. result' = result \/ \E r \in {"ok", "error"} : result' = [result EXCEPT ![p] = r]
  BY DEF DisownReset, ConnectionWasClosed
<1>6. over' \in [Procs -> BOOLEAN]
  BY <1>0, <1>4 DEF TypeOK
<1>7. TypeOK'
  BY <1>0, <1>1, <1>3, <1>5, <1>6, FactoryType, EndType
<1>8. CASE dev' = Factory
  BY <1>0, <1>7, <1>8, ResetKeeps DEF OwnInv
<1>9. CASE dev' # Factory
  <2>1. dev' = dev /\ otm' = otm
    BY <1>0, <1>1, <1>9
  <2>2. (lossy => lossy') /\ (dev.dos = "RFPRO" /\ abandoned => abandoned')
    <3>1. CASE UNCHANGED ghosts
      BY <3>1 DEF ghosts
    <3>2. ASSUME NEW lost \in BOOLEAN, Note(p, FALSE, lost)
          PROVE  (lossy => lossy') /\ (dev.dos = "RFPRO" /\ abandoned => abandoned')
      BY <1>9, <2>1, <3>2 DEF Note
    <3> QED
      BY <1>2, <3>1, <3>2
  <2>3. at[p] \notin HolderLabels \union LeaveLabels
    BY <1>0, ReadLabels
  <2>4. \A q \in Procs : q # p => at'[q] = at[q]
    BY <1>0 DEF Goto
  <2>5. otm[p] = Nobody
    BY <1>0, <2>3 DEF TransferInv, HolderStage
  <2>6. OneHolder' /\ HolderStage' /\ BelongsTo(dev)' /\ FreeWithoutHolder'
    BY <1>0, <2>1, <2>4, <2>5 DEF TransferInv, OneHolder, HolderStage, Stage, BelongsTo,
       FreeWithoutHolder, Free
  <2>7. AccessIsComing'
    BY <1>0, <2>1, <2>2, <2>4, <2>5 DEF TransferInv, AccessIsComing
  <2>8. SomebodyLeavesRFPRO'
    BY <1>0, <2>1, <2>2, <2>3, <2>4 DEF TransferInv, SomebodyLeavesRFPRO
  <2> QED
    BY <1>7, <2>6, <2>7, <2>8 DEF OwnInv, TransferInv
<1> QED
  BY <1>8, <1>9

\* A client initialises its identity.
LEMMA InitializationStep ==
    ASSUME OwnInv, NEW o \in Owners, Initialization(o)
    PROVE  OwnInv'
<1>1. UNCHANGED <<dev, at, over, otm, method, result, lossy, abandoned>>
  BY DEF Initialization, callVars, ghosts
<1>2. \/ identity' = identity
      \/ \E b \in BOOLEAN : identity' = [identity EXCEPT ![o] = b]
      \/ \E b \in BOOLEAN : identity' = [identity EXCEPT ![o] = @ \/ b]
  BY DEF Initialization, InitializationSDK, InitializationBackend, InitializationNone, Signs
<1>3. identity' \in [Owners -> BOOLEAN]
  BY <1>2 DEF OwnInv, TypeOK
<1>4. TypeOK'
  BY <1>1, <1>3 DEF OwnInv, TypeOK
<1>5. TransferInv'
  BY <1>1 DEF OwnInv, TransferInv, OneHolder, HolderStage, Stage, FreeWithoutHolder, Free,
     BelongsTo, AccessIsComing, SomebodyLeavesRFPRO
<1> QED
  BY <1>4, <1>5 DEF OwnInv

------------------------------------------------------------------------------
(* Theorems                                                                 *)

LEMMA OwnInit == Init => OwnInv
<1> SUFFICES ASSUME Init PROVE OwnInv
  OBVIOUS
<1>1. TypeOK
  BY FactoryType, ReadLabels DEF Init, TypeOK
<1>2. OneHolder /\ HolderStage
  BY DEF Init, OneHolder, HolderStage
<1>3. FreeWithoutHolder /\ BelongsTo(dev) /\ AccessIsComing /\ SomebodyLeavesRFPRO
  BY FactoryType DEF Init, FreeWithoutHolder, Free, BelongsTo, AccessIsComing, SomebodyLeavesRFPRO
<1> QED
  BY <1>1, <1>2, <1>3 DEF OwnInv, TransferInv

LEMMA OwnStep == OwnInv /\ [Next]_vars => OwnInv'
<1> SUFFICES ASSUME OwnInv, [Next]_vars PROVE OwnInv'
  OBVIOUS
<1>1. CASE UNCHANGED vars
  BY <1>1 DEF vars, callVars, ghosts, OwnInv, TypeOK, TransferInv, OneHolder, HolderStage, Stage,
     FreeWithoutHolder, Free, BelongsTo, AccessIsComing, SomebodyLeavesRFPRO
<1>2. CASE \E o \in Owners : Initialization(o)
  BY <1>2, InitializationStep
<1>3. ASSUME NEW p \in Procs, OwnNext(p) PROVE OwnInv'
  BY <1>3, BeginStep, ReadStep, SelectStep, DialStep, TransferSteps, ConfigureSteps, ReturnStep,
     RollbackStep DEF OwnNext
<1>4. ASSUME NEW p \in Procs,
             \/ Disown(p) \/ DisownGetOwnership(p) \/ DisownReset(p)
             \/ Onboard(p) \/ ProvisionStart(p) \/ SetACLForCloud(p) \/ SetCloudResource(p)
             \/ ProvisionClose(p) \/ Offboard(p) \/ OffboardSet(p)
      PROVE  OwnInv'
  BY <1>4, BeginStep, ReadStep, ResetStep, OnboardSteps
<1> QED
  BY <1>1, <1>2, <1>3, <1>4 DEF Next

LEMMA OwnInvariant == Spec => []OwnInv
  BY OwnInit, OwnStep, PTL DEF Spec

\* Every variable keeps its type, and a device in normal operation lets its
\* owner in, unless a reset that was lost or cut short has left its transfer
\* unfinished or the owner is still configuring it.
THEOREM OwnershipInvHolds == Spec => []OwnershipInv
<1>1. OwnInv => OwnershipInv
  <2> SUFFICES ASSUME OwnInv PROVE OwnershipInv
    OBVIOUS
  <2>1. BelongsTo(dev) /\ AccessIsComing /\ TypeOK
    BY DEF OwnInv, TransferInv
  <2>2. NormalOperationIsAccessible
    BY <2>1 DEF NormalOperationIsAccessible, Provisioned, BelongsTo, RowOwned, AccessIsComing,
       AccessLabels
  <2> QED
    BY <2>1, <2>2 DEF OwnershipInv
<1> QED
  BY <1>1, OwnInvariant, PTL

\* When all calls have returned, nothing was lost and no roll-back cut short by
\* its caller's context, the device is free or completely provisioned: whatever
\* the number of clients and goroutines, and wherever else a context ended, a
\* request was refused or another call came in between.
THEOREM NoHalfOwnedDeviceHolds == Spec => []NoHalfOwnedDevice
<1>1. OwnInv => NoHalfOwnedDevice
  <2> SUFFICES ASSUME OwnInv, Quiescent, ~lossy
               PROVE  Free \/ (Provisioned /\ (dev.dos = "RFNOP" \/ abandoned))
    BY DEF NoHalfOwnedDevice
  <2>1. \A p \in Procs : at[p] = "idle" /\ at[p] \notin HolderLabels \union LeaveLabels
    BY ReadLabels DEF Quiescent
  <2>2. \A p \in Procs : otm[p] = Nobody
    BY <2>1 DEF OwnInv, TransferInv, HolderStage
  <2>3. CASE dev.dos = "RFOTM"
    BY <2>2, <2>3 DEF OwnInv, TransferInv, FreeWithoutHolder
  <2>4. CASE dev.dos # "RFOTM"
    <3>1. Provisioned
      BY <2>2, <2>4 DEF OwnInv, TransferInv, BelongsTo, RowOwned, AccessIsComing, Provisioned
    <3>2. dev.dos \in {"RFOTM", "RFPRO", "RFNOP"}
      BY DEF OwnInv, TypeOK, Resources
    <3>3. dev.dos = "RFPRO" => abandoned
      BY <2>1 DEF OwnInv, TransferInv, SomebodyLeavesRFPRO
    <3> QED
      BY <2>4, <3>1, <3>2, <3>3
  <2> QED
    BY <2>3, <2>4
<1> QED
  BY <1>1, OwnInvariant, PTL

------------------------------------------------------------------------------
(* What a successful Own says                                               *)

\* A step of one goroutine moves that goroutine.
LEMMA OthersStay ==
    ASSUME TypeOK, NEW q \in Procs,
           \/ OwnNext(q)
           \/ Disown(q) \/ DisownGetOwnership(q) \/ DisownReset(q)
           \/ Onboard(q) \/ ProvisionStart(q) \/ SetACLForCloud(q) \/ SetCloudResource(q)
           \/ ProvisionClose(q) \/ Offboard(q) \/ OffboardSet(q)
    PROVE  \A p \in Procs : p # q => at'[p] = at[p]
<1>0. at \in [Procs -> Labels]
  BY DEF TypeOK
<1>1. CASE Own(q) \/ Disown(q) \/ Onboard(q) \/ Offboard(q)
  BY <1>0, <1>1 DEF Own, Disown, Onboard, Offboard, Begin, Goto
<1>2. CASE OwnGetOwnership(q) \/ DisownGetOwnership(q) \/ DisownReset(q)
  BY <1>0, <1>2 DEF OwnGetOwnership, DisownGetOwnership, DisownReset, ReturnFromRead, ReadFails, Goto
<1>3. CASE GetTLSClient(q) \/ OwnReturns(q) \/ DisownAndLogError(q)
  BY <1>0, <1>3 DEF GetTLSClient, OwnReturns, DisownAndLogError, Fail, Goto
<1>4. CASE SelectOTM(q)
  BY <1>0, <1>4 DEF SelectOTM, Request, Fail, Goto
<1>5. CASE CheckProvisionState(q) \/ SetOperationalMode(q) \/ ActionDuringOwn(q)
  BY <1>0, <1>5 DEF CheckProvisionState, SetOperationalMode, ActionDuringOwn, Transfer, Request,
     Fail, Goto
<1>6. CASE ProvisionOwner(q) \/ SetOwner(q) \/ VerifyOwner(q)
  BY <1>0, <1>6 DEF ProvisionOwner, SetOwner, VerifyOwner, Transfer, Request, Fail, Goto
<1>7. CASE SetResourceOwner(q)
  BY <1>0, <1>7 DEF SetResourceOwner, Transfer, Request, Fail, Goto
<1>8. CASE SetRFPRO(q) \/ GetDTLSClient(q) \/ DeleteACL(q)
  BY <1>0, <1>8 DEF SetRFPRO, GetDTLSClient, DeleteACL, Configure, Request, Fail, Goto
<1>9. CASE SetACL(q) \/ SetRFNOP(q) \/ ActionAfterOwn(q)
  BY <1>0, <1>9 DEF SetACL, SetRFNOP, ActionAfterOwn, Configure, Request, Fail, Goto
<1>10. CASE ProvisionStart(q) \/ SetACLForCloud(q) \/ SetCloudResource(q)
  BY <1>0, <1>10 DEF ProvisionStart, SetACLForCloud, SetCloudResource, Request, Fail, Goto
<1>11. CASE ProvisionClose(q) \/ OffboardSet(q)
  BY <1>0, <1>11 DEF ProvisionClose, OffboardSet, Request, Fail, Goto
<1> QED
  BY <1>1, <1>2, <1>3, <1>4, <1>5, <1>6, <1>7, <1>8, <1>9, <1>10, <1>11 DEF OwnNext

\* The labels of Own are those of its steps.
LEMMA OwnLabelsAre ==
    OwnLabels = {"getOwnership", "selectOTM", "dial"} \union TransferLabels \union ConfigureLabels
<1>1. OwnSteps = <<"getOwnership", "selectOTM", "dial", "check", "mode", "during", "provision",
              "setOwner", "verify", "ownPstat", "ownACL", "setOwned", "rfpro", "dialPSK",
              "deleteACL", "setACL", "rfnop", "after">>
  BY DEF OwnSteps
<1>2. Len(OwnSteps) = 18
  BY <1>1
<1>3. OwnLabels = {"getOwnership", "selectOTM", "dial", "check", "mode", "during", "provision",
              "setOwner", "verify", "ownPstat", "ownACL", "setOwned", "rfpro", "dialPSK",
              "deleteACL", "setACL", "rfnop", "after"}
  BY <1>1, <1>2 DEF OwnLabels
<1> QED
  BY <1>3 DEF TransferLabels, ConfigureLabels

\* What the caller of Own may rely on when it returns without an error.
Success(p) ==
    \/ at[p] \in OwnLabels /\ at'[p] = "close"
    \/ at[p] \in OwnLabels /\ at'[p] = "idle" /\ result'[p] = "ok"
ItsOwn(p) ==
    /\ dev.owned /\ dev.owner = Id[p]
    /\ at'[p] = "close" => Provisioned

LEMMA SuccessStep ==
    ASSUME OwnInv, NEW p \in Procs, OwnNext(p), Success(p)
    PROVE  ItsOwn(p)
<1>0. TypeOK /\ at \in [Procs -> Labels] /\ result \in [Procs -> {"ok", "error", "denied"}]
  BY DEF OwnInv, TypeOK
<1>1. CASE OwnGetOwnership(p)
  <2>1. /\ at'[p] # "close"
        /\ \/ dev.owned /\ dev.owner = Id[p]
           \/ result'[p] # "ok" \/ at'[p] # "idle"
    BY <1>0, <1>1 DEF OwnGetOwnership, ReadFails, ReturnFromRead, Goto
  <2> QED
    BY <2>1 DEF Success, ItsOwn
<1>2. CASE GetTLSClient(p) \/ Own(p) \/ OwnReturns(p) \/ DisownAndLogError(p)
  <2>1. at[p] \in {"idle", "close", "rollback"} \/ at'[p] = "check" \/ (at'[p] = "idle" /\ result'[p] = "error")
    BY <1>0, <1>2 DEF GetTLSClient, Own, Begin, OwnReturns, DisownAndLogError, Fail, Goto
  <2> QED
    BY <2>1, OwnLabelsAre DEF Success, TransferLabels, ConfigureLabels
<1>e. ASSUME at'[p] \notin {"close", "idle"} \/ (at'[p] # "close" /\ result'[p] # "ok") PROVE FALSE
  BY <1>e DEF Success
<1>3. CASE SelectOTM(p)
  <2>1. at'[p] = "dial" \/ (at'[p] = "idle" /\ result'[p] = "error")
    BY <1>0, <1>3 DEF SelectOTM, Request, Fail, Goto
  <2> QED
    BY <2>1, <1>e
<1>4. CASE CheckProvisionState(p) \/ SetOperationalMode(p) \/ ActionDuringOwn(p)
  <2>1. at'[p] \in {"mode", "during", "provision", "rollback"}
    BY <1>0, <1>4 DEF CheckProvisionState, SetOperationalMode, ActionDuringOwn, Transfer, Request,
       Fail, Goto
  <2> QED
    BY <2>1, <1>e
<1>5. CASE ProvisionOwner(p) \/ SetOwner(p) \/ VerifyOwner(p)
  <2>1. at'[p] \in {"setOwner", "verify", "ownPstat", "rollback"}
    BY <1>0, <1>5 DEF ProvisionOwner, SetOwner, VerifyOwner, Transfer, Request, Fail, Goto
  <2> QED
    BY <2>1, <1>e
<1>7. CASE SetResourceOwner(p)
  <2>1. at'[p] \in {"ownACL", "setOwned", "rfpro", "rollback"}
    BY <1>0, <1>7 DEF SetResourceOwner, Transfer, Request, Fail, Goto
  <2> QED
    BY <2>1, <1>e
<1>8. CASE SetRFPRO(p) \/ GetDTLSClient(p) \/ DeleteACL(p) \/ SetACL(p) \/ SetRFNOP(p)
  <2>1. at'[p] \in {"dialPSK", "deleteACL", "setACL", "rfnop", "after", "rollback"}
    BY <1>0, <1>8 DEF SetRFPRO, GetDTLSClient, DeleteACL, SetACL, SetRFNOP, Configure, Request,
       Fail, Goto
  <2> QED
    BY <2>1, <1>e
<1>6. CASE ActionAfterOwn(p)
  <2>1. at[p] = "after" /\ Request(p, otm[p] # Nobody /\ TRUE, dev, "close", "rollback")
    BY <1>6 DEF ActionAfterOwn, Configure
  <2>2. otm[p] # Nobody
    <3>1. at'[p] # "rollback"
      BY DEF Success
    <3> QED
      BY <1>0, <2>1, <3>1 DEF Request, Fail, Goto
  <2>3. Stage("after", Id[p], dev) /\ BelongsTo(dev)
    BY <2>1, <2>2 DEF OwnInv, TransferInv, HolderStage
  <2> QED
    BY <2>3 DEF Stage, BelongsTo, RowOwned, ConfigureLabels, ItsOwn, Provisioned
<1> QED
  BY <1>1, <1>2, <1>3, <1>4, <1>5, <1>6, <1>7, <1>8 DEF OwnNext

\* Own succeeds only for the owner of the device, and when it has transferred
\* the ownership itself, the device is completely set up: whatever other
\* clients and goroutines did in the meantime.
THEOREM OwnSucceedsForOwnerHolds == Spec => OwnSucceedsForOwner
<1>1. OwnInv /\ [Next]_vars =>
        [\A p \in Procs :
          \/ at[p] \in OwnLabels /\ at'[p] = "close"
          \/ at[p] \in OwnLabels /\ at'[p] = "idle" /\ result'[p] = "ok"
          => /\ dev.owned /\ dev.owner = Id[p]
             /\ at'[p] = "close" => Provisioned]_vars
  <2> SUFFICES ASSUME OwnInv, Next, NEW p \in Procs, Success(p) PROVE ItsOwn(p)
    BY DEF Success, ItsOwn
  <2>0. TypeOK /\ at \in [Procs -> Labels]
    BY DEF OwnInv, TypeOK
  <2>l. {"idle", "close"} \cap OwnLabels = {}
    BY OwnLabelsAre DEF TransferLabels, ConfigureLabels
  <2>m. at'[p] # at[p]
    BY <2>l DEF Success
  <2>1. ~\E o \in Owners : Initialization(o)
    BY <2>m DEF Initialization
  <2>2. PICK q \in Procs :
           \/ OwnNext(q)
           \/ Disown(q) \/ DisownGetOwnership(q) \/ DisownReset(q)
           \/ Onboard(q) \/ ProvisionStart(q) \/ SetACLForCloud(q) \/ SetCloudResource(q)
           \/ ProvisionClose(q) \/ Offboard(q) \/ OffboardSet(q)
    BY <2>1 DEF Next
  <2>3. q = p
    BY <2>0, <2>2, <2>m, OthersStay
  <2>4. at[p] \in OwnLabels
    BY DEF Success
  <2>5. OwnNext(p)
    BY <2>2, <2>3, <2>4, OwnLabelsAre DEF Disown, DisownGetOwnership, DisownReset, Onboard, Begin,
       ProvisionStart, SetACLForCloud, SetCloudResource, ProvisionClose, Offboard, OffboardSet,
       TransferLabels, ConfigureLabels
  <2> QED
    BY <2>5, SuccessStep
<1> QED
  BY <1>1, OwnInvariant, PTL DEF Spec, OwnSucceedsForOwner
==============================================================================
