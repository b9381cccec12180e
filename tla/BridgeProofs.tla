---------------------------- MODULE BridgeProofs ----------------------------
(***************************************************************************)
(* Proofs about Bridge, for every number of peers, requests, connections   *)
(* and descriptions.  The invariant has four parts, each resting on those  *)
(* before it: a peer that knows what its answer will mean has at most one  *)
(* request being handled (RequestsInv); what is registered is stored or    *)
(* about to be (StoreInv); what a peer was told is so (ToldInv); and       *)
(* whoever has not been sent the current description is going to be        *)
(* (DeliveryInv).                                                          *)
(***************************************************************************)
EXTENDS Bridge, WellFoundedInduction, TLAPS

(* Requests and their goroutines                                            *)

\* The labels of a goroutine that handles a request, of one that has
\* registered a subscription, and of one that has stored it.
ActiveLabels == {"subscribe", "get", "replace", "remove", "answer"}
Registering == {"get", "replace"}
Through == {"answer", "done"}

Active(q) == req[q].at \in ActiveLabels

\* A peer knows which answer it waits for, or what it was told.
Sure(p) == dialog[p] # None \/ status[p] \in {"observed", "cancelled"}

\* A request is handled once: whichever copy comes first is remembered, and
\* the peer waits for it, if for any.
RequestInv(q) ==
    LET r == req[q] IN
    /\ r.at # "free" => r.peer \in Peers
    /\ r.at = "sent" => r.mid \in Reqs
    /\ r.at = "sent" /\ r.mid \notin cache /\ Sure(r.peer) => dialog[r.peer] = r.mid
    /\ Active(q) => r.mid \in cache
    /\ Active(q) /\ Sure(r.peer) => dialog[r.peer] = r.mid
    /\ r.at # "free" => r.conn <= conn[r.peer]
    /\ r.at \in {"subscribe", "get", "replace"} => r.kind = "observe"
    /\ r.at = "remove" => r.kind = "cancel"
    /\ r.at \in {"sent", "subscribe", "get"} => ~r.ok

OneActive == \A q, r \in Reqs :
    Active(q) /\ Active(r) /\ req[q].peer = req[r].peer /\ Sure(req[q].peer) => q = r

RequestsInv == (\A q \in Reqs : RequestInv(q)) /\ OneActive

(* Subscriptions                                                            *)

\* What is registered is stored and watched, unless its request is on the way.
SubscriptionInv(q) ==
    \/ req[q].at \in Registering
    \/ /\ req[q].at \in Through
       /\ createdSubscription[req[q].peer] = q
       /\ q \in watched
       /\ req[q].at = "answer" => req[q].kind = "observe"

StoreInv ==
    /\ \A q \in subscriptions : SubscriptionInv(q)
    /\ \A q \in Reqs : req[q].at \in Registering /\ closer \in {"open", "td"} => q \in subscriptions
    /\ \A p \in Peers : LET q == createdSubscription[p]
                        IN q # None => req[q].peer = p /\ req[q].at \in Through
    /\ \A q \in watched : req[q].at \in Through
    /\ \A q \in telling : req[q].at \in Registering \union Through

(* What a peer was told                                                     *)

\* Its subscription, unless something of an earlier connection came late or
\* notifying it failed.
Served(p) ==
    LET q == createdSubscription[p] IN
    /\ q # None /\ Live(q)
    /\ closer \in {"open", "td"} => q \in subscriptions
    /\ closer = "tell" => q \in telling
    /\ closer # "closed"

Unsubscribed(p) == \A q \in subscriptions : req[q].peer # p

PeerInv(p) ==
    /\ status[p] \in {"observed", "cancelled"} => dialog[p] = None
    /\ status[p] = "observed" => ~closed \/ closer = "closed"
    /\ status[p] = "observed" /\ ~stolen[p] => Served(p)
    /\ status[p] = "cancelled" => Unsubscribed(p)

\* What the answer is about to tell a peer that waits for one.
AnswerInv(q) ==
    LET p == req[q].peer IN
    dialog[p] # None =>
       /\ req[q].kind = "observe" /\ req[q].ok /\ Live(q) /\ ~stolen[p] /\ ~closed
             /\ closer \in {"open", "td"}
          => createdSubscription[p] = q /\ q \in subscriptions
       /\ req[q].kind = "cancel" => Unsubscribed(p)

ToldInv ==
    /\ \A p \in Peers : PeerInv(p)
    /\ \A q \in Reqs : req[q].at = "answer" => AnswerInv(q)

(* Descriptions                                                             *)

\* No description is newer than the current one.
Past(v) == v # None => v <= value

\* The loop is going to give the current description to q.
Pending(q) ==
    /\ lastTD = value
    /\ IF loop = "notify" /\ td = value THEN q \in todo \ visited
       ELSE notifier = "send" \/ subChan

\* q has been sent the current description, or its answer holds it, or it will
\* be notified.
Due(q) ==
    \/ q \in sent
    \/ req[q].at \in {"replace", "answer"} /\ req[q].body = value
    \/ Pending(q)

\* What is noted as sent has been, or is in the answer.
NotedIsSent(q) ==
    deduplicationNotification[q] = value =>
        q \in sent \/ (req[q].at = "answer" /\ req[q].body = value)

NotesInv(q) ==
    /\ Past(deduplicationNotification[q])
    /\ req[q].at \in {"free", "sent", "subscribe"} => deduplicationNotification[q] = None
    /\ req[q].at = "replace" => Past(req[q].body)

DeliveryInv ==
    /\ Past(lastTD) /\ Past(td) /\ \A q \in Reqs : NotesInv(q)
    /\ \A q \in subscriptions :
          closer = "open" /\ Live(q) =>
              /\ NotedIsSent(q)
              /\ req[q].at # "get" => Due(q)

BridgeInv == TypeOK /\ RequestsInv /\ StoreInv /\ ToldInv /\ DeliveryInv

-----------------------------------------------------------------------------
(* What the steps of a request do to it                                     *)

LEMMA NextFreeIsFree == Free # {} => NextFree \in Free
<1> SUFFICES ASSUME Free # {} PROVE NextFree \in Free
  OBVIOUS
<1>1. Free \subseteq Nat
  BY BoundsAssumption DEF Free, Reqs
<1>2. OpToRel(<, Nat) = {x \in Nat \X Nat : x[1] < x[2]}
  BY DEF OpToRel
<1>3. PICK q \in Free : \A r \in Free : ~(<<r, q>> \in OpToRel(<, Nat))
  BY <1>1, WFMin, NatLessThanWellFounded
<1>4. ASSUME NEW r \in Free PROVE q <= r
  <2>0. r \in Nat /\ q \in Nat
    BY <1>1
  <2>1. r < q => <<r, q>> \in {x \in Nat \X Nat : x[1] < x[2]}
    BY <2>0
  <2>2. ~(<<r, q>> \in OpToRel(<, Nat))
    BY <1>3
  <2>3. ~(r < q)
    BY <1>2, <2>1, <2>2
  <2> QED
    BY <2>0, <2>3
<1> QED
  BY <1>4 DEF NextFree

\* Records of requests, with any b for a Boolean.
LEMMA OkRecord ==
    ASSUME NEW r \in Request, NEW l \in Labels, NEW b \in BOOLEAN
    PROVE  [r EXCEPT !.at = l, !.ok = b] \in Request
  BY DEF Request

LEMMA NoRequestIs == NoRequest \in Request /\ NoRequest.conn = 0 /\ ~NoRequest.ok
<1>1. FALSE \in BOOLEAN
  OBVIOUS
<1>2. ASSUME NEW b \in BOOLEAN
      PROVE  [at |-> "free", peer |-> None, conn |-> 0, kind |-> "cancel", mid |-> None,
              ok |-> b, body |-> 0] \in Request
  BY BoundsAssumption DEF Request, Labels, Versions
<1>3. NoRequest \in Request
  BY <1>1, <1>2, Zenon DEF NoRequest
<1> QED
  BY <1>3 DEF NoRequest

LEMMA DoneRecord ==
    ASSUME NEW r \in Request
    PROVE  /\ Done(r) \in Request
           /\ Done(r).at = "done" /\ Done(r).peer = r.peer /\ Done(r).conn = r.conn
<1>1. ASSUME NEW n \in Request
      PROVE  [n EXCEPT !.at = "done", !.peer = r.peer, !.conn = r.conn] \in Request
  BY DEF Request, Labels
<1>2. ASSUME NEW n \in Request, NEW d, d = [n EXCEPT !.at = "done", !.peer = r.peer, !.conn = r.conn]
      PROVE  d.at = "done" /\ d.peer = r.peer /\ d.conn = r.conn
  BY <1>2 DEF Request
<1>3. Done(r) = [NoRequest EXCEPT !.at = "done", !.peer = r.peer, !.conn = r.conn]
  BY DEF Done
<1> QED
  BY <1>1, <1>2, <1>3, NoRequestIs

\* Only q is touched.
Others(q) == \A r \in Reqs : r # q => req'[r] = req[r]

\* q goes to label l, and stays the request that it is.
Moves(q, l) ==
    /\ req' \in [Reqs -> Request] /\ Others(q)
    /\ req'[q].at = l /\ req'[q].peer = req[q].peer

Identity(q) ==
    req'[q].conn = req[q].conn /\ req'[q].kind = req[q].kind /\ req'[q].mid = req[q].mid

LEMMA GotoMoves ==
    ASSUME TypeOK, NEW q \in Reqs, NEW l \in Labels, Goto(q, l)
    PROVE  Moves(q, l) /\ Identity(q) /\ req'[q].ok = req[q].ok /\ req'[q].body = req[q].body
<1>1. req \in [Reqs -> Request] /\ req' = [req EXCEPT ![q].at = l]
  BY DEF TypeOK, Goto
<1>2. req[q] \in Request
  BY <1>1
<1>3. req'[q] = [req[q] EXCEPT !.at = l] /\ Others(q)
  BY <1>1 DEF Others
<1>4. req'[q] \in Request
  BY <1>2, <1>3 DEF Request
<1>5. req' \in [Reqs -> Request]
  BY <1>1, <1>4
<1> QED
  BY <1>2, <1>3, <1>5 DEF Moves, Identity, Request

LEMMA OkMoves ==
    ASSUME TypeOK, NEW q \in Reqs, req' = [req EXCEPT ![q].at = "answer", ![q].ok = TRUE]
    PROVE  Moves(q, "answer") /\ Identity(q) /\ req'[q].ok /\ req'[q].body = req[q].body
<1>1. req \in [Reqs -> Request]
  BY DEF TypeOK
<1>2. req[q] \in Request
  BY <1>1
<1>3. req'[q] = [req[q] EXCEPT !.at = "answer", !.ok = TRUE] /\ Others(q)
  BY <1>1 DEF Others
<1>4. req'[q] \in Request
  <2>1. "answer" \in Labels /\ TRUE \in BOOLEAN
    BY DEF Labels
  <2> QED
    BY <1>2, <1>3, <2>1, OkRecord
<1>5. req' \in [Reqs -> Request]
  BY <1>1, <1>4
<1> QED
  BY <1>2, <1>3, <1>5 DEF Moves, Identity, Request

LEMMA ReadMoves ==
    ASSUME TypeOK, NEW q \in Reqs, NEW made \in BOOLEAN,
           req' = [req EXCEPT ![q].at = "replace", ![q].ok = made, ![q].body = value]
    PROVE  Moves(q, "replace") /\ Identity(q) /\ req'[q].body = value
<1>1. req \in [Reqs -> Request] /\ value \in Versions
  BY DEF TypeOK
<1>2. req[q] \in Request
  BY <1>1
<1>3. req'[q] = [req[q] EXCEPT !.at = "replace", !.ok = made, !.body = value] /\ Others(q)
  BY <1>1 DEF Others
<1>4. req'[q] \in Request
  BY <1>1, <1>2, <1>3 DEF Request, Labels
<1>5. req' \in [Reqs -> Request]
  BY <1>1, <1>4
<1> QED
  BY <1>2, <1>3, <1>5 DEF Moves, Identity, Request

LEMMA GetMoves ==
    ASSUME TypeOK, NEW q \in Reqs, GetHandler(q)
    PROVE  /\ Identity(q)
           /\ \/ /\ Moves(q, "replace") /\ req'[q].body = value
                 /\ subscriptions' = subscriptions
              \/ /\ Moves(q, "answer") /\ req'[q].ok = req[q].ok
                 /\ subscriptions' = subscriptions \ {q}
<1>1. CASE /\ \E made \in BOOLEAN :
                 req' = [req EXCEPT ![q].at = "replace", ![q].ok = made, ![q].body = value]
           /\ subscriptions' = subscriptions
  BY <1>1, ReadMoves
<1>2. CASE Goto(q, "answer") /\ subscriptions' = subscriptions \ {q}
  BY <1>2, GotoMoves DEF Labels
<1> QED
  BY <1>1, <1>2 DEF GetHandler

LEMMA DoneMoves ==
    ASSUME TypeOK, NEW q \in Reqs, req' = [req EXCEPT ![q] = Done(req[q])]
    PROVE  Moves(q, "done") /\ req'[q].conn = req[q].conn
<1>1. req \in [Reqs -> Request]
  BY DEF TypeOK
<1>2. req[q] \in Request
  BY <1>1
<1>3. req'[q] = Done(req[q]) /\ Others(q)
  BY <1>1 DEF Others
<1>4. req'[q] \in Request
  BY <1>2, <1>3, DoneRecord
<1>5. req' \in [Reqs -> Request]
  BY <1>1, <1>4
<1> QED
  BY <1>2, <1>3, <1>5, DoneRecord DEF Moves

LEMMA SendMoves ==
    ASSUME TypeOK, NEW p \in Peers, NEW kind \in {"observe", "cancel"}, Send(p, kind)
    PROVE  /\ NextFree \in Reqs /\ req[NextFree].at = "free"
           /\ req' \in [Reqs -> Request] /\ Others(NextFree)
           /\ req'[NextFree].at = "sent" /\ req'[NextFree].peer = p
           /\ req'[NextFree].mid = NextFree /\ req'[NextFree].conn = 0 /\ ~req'[NextFree].ok
<1>1. req \in [Reqs -> Request]
  BY DEF TypeOK
<1>2. NextFree \in Reqs /\ req[NextFree].at = "free"
  BY NextFreeIsFree DEF Send, Free
<1>n. PICK n \in Request : n = NoRequest /\ n.conn = 0 /\ ~n.ok
  BY NoRequestIs
<1>3. PICK new : /\ req' = [req EXCEPT ![NextFree] = new]
                 /\ new = [n EXCEPT !.at = "sent", !.peer = p, !.kind = kind, !.mid = NextFree]
  BY <1>n, Zenon DEF Send
<1>4. /\ new \in Request
      /\ new.at = "sent" /\ new.peer = p /\ new.mid = NextFree /\ new.conn = 0 /\ ~new.ok
  <2>1. [n EXCEPT !.at = "sent", !.peer = p, !.kind = kind, !.mid = NextFree] \in Request
    BY <1>2 DEF Request, Labels
  <2> QED
    BY <1>n, <1>3, <2>1 DEF Request
<1>5. req'[NextFree] = new /\ Others(NextFree)
  BY <1>1, <1>2, <1>3 DEF Others
<1>6. req' \in [Reqs -> Request]
  BY <1>1, <1>3, <1>4
<1> QED
  BY <1>2, <1>4, <1>5, <1>6

LEMMA DuplicateMoves ==
    ASSUME TypeOK, NEW q \in Reqs, Duplicate(q)
    PROVE  /\ NextFree \in Reqs /\ req[NextFree].at = "free" /\ req[q].at = "sent"
           /\ req' \in [Reqs -> Request] /\ Others(NextFree)
           /\ req'[NextFree] = req[q]
<1>1. req \in [Reqs -> Request]
  BY DEF TypeOK
<1>2. NextFree \in Reqs /\ req[NextFree].at = "free"
  BY NextFreeIsFree DEF Duplicate, Free
<1>3. req' = [req EXCEPT ![NextFree] = req[q]]
  BY DEF Duplicate
<1>4. req'[NextFree] = req[q] /\ Others(NextFree)
  BY <1>1, <1>2, <1>3 DEF Others
<1>6. req' \in [Reqs -> Request]
  BY <1>1, <1>3
<1> QED
  BY <1>2, <1>4, <1>6 DEF Duplicate

\* ServeCOAP drops the request or answers it with an error, or starts to
\* handle it.
Refused(q) ==
    /\ Moves(q, "done") /\ req'[q].conn = req[q].conn
    /\ req[q].mid \in cache => dialog' = dialog
    /\ \A p \in Peers : dialog'[p] # dialog[p] => p = req[q].peer /\ dialog[p] = req[q].mid
                                                  /\ req[q].mid \notin cache /\ dialog'[p] = None
Accepted(q) ==
    /\ \E l \in {"subscribe", "remove"} : Moves(q, l)
    /\ req'[q].at = "subscribe" => req[q].kind = "observe"
    /\ req'[q].at = "remove" => req[q].kind = "cancel"
    /\ req'[q].conn = conn'[req[q].peer] /\ req'[q].kind = req[q].kind /\ req'[q].mid = req[q].mid
    /\ req'[q].ok = req[q].ok
    /\ req[q].mid \notin cache /\ dialog' = dialog

LEMMA ServeMoves ==
    ASSUME TypeOK, NEW q \in Reqs, ServeCOAP(q), req[q].peer \in Peers
    PROVE  /\ conn' \in [Peers -> 0..MaxConns] /\ dialog' \in [Peers -> Reqs \union {None}]
           /\ \A p \in Peers : conn[p] <= conn'[p]
           /\ \A p \in Peers : alive[p] => alive'[p] /\ conn'[p] = conn[p]
           /\ \A p \in Peers : ~alive[p] /\ alive'[p] => conn'[p] > conn[p]
           /\ alive' \in [Peers -> BOOLEAN]
           /\ Refused(q) \/ Accepted(q)
<1> DEFINE p == req[q].peer
           drop == req[q].mid \in cache
<1>0. /\ req \in [Reqs -> Request] /\ conn \in [Peers -> 0..MaxConns]
      /\ alive \in [Peers -> BOOLEAN] /\ dialog \in [Peers -> Reqs \union {None}]
  BY DEF TypeOK
<1>1. alive' \in [Peers -> BOOLEAN] /\ alive'[p] /\ \A x \in Peers : x # p => alive'[x] = alive[x]
  BY <1>0 DEF ServeCOAP
<1>2. conn'[p] = (IF alive[p] THEN conn[p] ELSE conn[p] + 1) /\ \A x \in Peers : x # p => conn'[x] = conn[x]
  BY <1>0 DEF ServeCOAP
<1>3. conn[p] < MaxConns \/ alive[p]
  BY DEF ServeCOAP
<1>4. conn'[p] \in 0..MaxConns
  BY <1>0, <1>2, <1>3, BoundsAssumption
<1>5. conn' \in [Peers -> 0..MaxConns]
  BY <1>0, <1>4 DEF ServeCOAP
<1>6. \A x \in Peers : conn[x] <= conn'[x]
  BY <1>0, <1>2, BoundsAssumption
<1>7. \A x \in Peers : alive[x] => alive'[x] /\ conn'[x] = conn[x]
  BY <1>1, <1>2
<1>8. \A x \in Peers : ~alive[x] /\ alive'[x] => conn'[x] > conn[x]
  BY <1>0, <1>1, <1>2, BoundsAssumption
<1>9. CASE drop \/ ~LoadDevice \/ ~GetResource
  <2>1. req' = [req EXCEPT ![q] = Done(req[q])]
    BY <1>0, <1>9 DEF ServeCOAP
  <2>2. dialog' = [dialog EXCEPT ![p] = IF ~drop /\ dialog[p] = req[q].mid THEN None ELSE dialog[p]]
    BY <1>0, <1>9 DEF ServeCOAP
  <2>3. dialog' \in [Peers -> Reqs \union {None}]
    BY <1>0, <2>2
  <2>4. drop => dialog' = dialog
    BY <1>0, <2>2
  <2>5. \A x \in Peers : dialog'[x] # dialog[x] => x = p /\ dialog[x] = req[q].mid /\ ~drop /\ dialog'[x] = None
    BY <1>0, <2>2
  <2> QED
    BY <1>1, <1>5, <1>6, <1>7, <1>8, <2>1, <2>3, <2>4, <2>5, DoneMoves DEF Refused
<1>10. CASE ~(drop \/ ~LoadDevice \/ ~GetResource)
  <2> DEFINE l == HandleRequest(req[q].kind)
  <2>1. req' = [req EXCEPT ![q].at = l, ![q].conn = conn'[p]] /\ dialog' = dialog
    BY <1>10 DEF ServeCOAP
  <2>2. req[q] \in Request
    BY <1>0
  <2>3. req'[q] = [req[q] EXCEPT !.at = l, !.conn = conn'[p]] /\ Others(q)
    BY <1>0, <2>1 DEF Others
  <2>4. /\ l \in {"subscribe", "remove"}
        /\ l = "subscribe" => req[q].kind = "observe"
        /\ l = "remove" => req[q].kind = "cancel"
    BY <2>2 DEF HandleRequest, Request
  <2>5. l \in Labels
    BY <2>4 DEF Labels
  <2> HIDE DEF l
  <2>6. req'[q] \in Request
    BY <1>4, <2>2, <2>3, <2>5 DEF Request
  <2>7. req' \in [Reqs -> Request]
    BY <1>0, <2>1, <2>6
  <2>8. req'[q].at = l /\ req'[q].conn = conn'[p] /\ req'[q].kind = req[q].kind
        /\ req'[q].mid = req[q].mid /\ req'[q].peer = req[q].peer /\ req'[q].ok = req[q].ok
    BY <2>2, <2>3 DEF Request
  <2>9. Moves(q, l)
    BY <2>3, <2>7, <2>8 DEF Moves
  <2>10. Accepted(q)
    BY <1>10, <2>1, <2>4, <2>8, <2>9 DEF Accepted
  <2> QED
    BY <1>0, <1>1, <1>5, <1>6, <1>7, <1>8, <2>1, <2>10
<1> QED
  BY <1>9, <1>10

\* What removeSubscription does, whoever calls it.
LEMMA RemoveEffect ==
    ASSUME TypeOK, NEW p \in Peers, NEW c \in Int, NEW failed, RemoveSubscription(p, c, failed)
    PROVE  /\ createdSubscription' \in [Peers -> Reqs \union {None}]
           /\ stolen' \in [Peers -> BOOLEAN]
           /\ subscriptions' = subscriptions \ {createdSubscription[p]}
           /\ createdSubscription'[p] = None
           /\ \A x \in Peers : x # p => createdSubscription'[x] = createdSubscription[x]
           /\ \A x \in Peers : x # p => stolen'[x] = stolen[x]
           /\ stolen[p] \/ failed => stolen'[p]
           /\ createdSubscription[p] # None /\ req[createdSubscription[p]].conn > c => stolen'[p]
<1>0. createdSubscription \in [Peers -> Reqs \union {None}] /\ stolen \in [Peers -> BOOLEAN]
  BY DEF TypeOK
<1> DEFINE q == createdSubscription[p]
           b == stolen[p] \/ failed \/ (q # None /\ req[q].conn > c)
<1>1. createdSubscription' = [createdSubscription EXCEPT ![p] = None] /\ subscriptions' = subscriptions \ {q}
  BY DEF RemoveSubscription
<1>2. stolen' = [stolen EXCEPT ![p] = b]
  BY Zenon DEF RemoveSubscription
<1>3. b \in BOOLEAN
  OBVIOUS
<1>4. stolen[p] \/ failed \/ (q # None /\ req[q].conn > c) => b
  OBVIOUS
<1> HIDE DEF b
<1>5. stolen' \in [Peers -> BOOLEAN] /\ stolen'[p] = b /\ \A x \in Peers : x # p => stolen'[x] = stolen[x]
  BY <1>0, <1>2, <1>3
<1> QED
  BY <1>0, <1>1, <1>4, <1>5

-----------------------------------------------------------------------------
(* Types                                                                    *)

LEMMA TypesOf ==
    ASSUME TypeOK
    PROVE  /\ closed \in BOOLEAN /\ subChan \in BOOLEAN
           /\ subscriptions \subseteq Reqs /\ telling \subseteq Reqs /\ todo \subseteq Reqs
           /\ visited \subseteq Reqs /\ watched \subseteq Reqs /\ sent \subseteq Reqs
           /\ \A q \in Reqs : req[q] \in Request
  BY DEF TypeOK

LEMMA InitTypeOK == Init => TypeOK
<1> SUFFICES ASSUME Init PROVE TypeOK
  OBVIOUS
<1>1. req \in [Reqs -> Request]
  BY NoRequestIs DEF Init
<1>2. /\ alive \in [Peers -> BOOLEAN] /\ stolen \in [Peers -> BOOLEAN]
      /\ {closed, subChan} \subseteq BOOLEAN
  BY DEF Init
<1> QED
  BY <1>1, <1>2, BoundsAssumption DEF Init, TypeOK, Versions

\* The variables of every group have their types, one by one.
NetTypes ==
    /\ cache \subseteq Reqs
    /\ conn \in [Peers -> 0..MaxConns] /\ alive \in [Peers -> BOOLEAN]
    /\ dialog \in [Peers -> Reqs \union {None}]
    /\ status \in [Peers -> {"unknown", "observed", "cancelled", "silent"}]
    /\ req \in [Reqs -> Request]
DeviceTypes ==
    /\ closed \in BOOLEAN /\ closer \in {"open", "td", "tell", "closed"} /\ telling \subseteq Reqs
    /\ value \in Versions /\ notifier \in {"idle", "send"} /\ subChan \in BOOLEAN
    /\ lastTD \in Versions \union {None}
LoopTypes ==
    /\ subscriptions \subseteq Reqs /\ todo \subseteq Reqs /\ visited \subseteq Reqs
    /\ watched \subseteq Reqs /\ sent \subseteq Reqs
    /\ createdSubscription \in [Peers -> Reqs \union {None}]
    /\ deduplicationNotification \in [Reqs -> Versions \union {None, ErrorBody}]
    /\ loop \in {"select", "notify", "stopped"}
    /\ td \in Versions \union {None} /\ (loop = "notify" => td # None)
    /\ stolen \in [Peers -> BOOLEAN]

LEMMA TypesSplit == TypeOK <=> NetTypes /\ DeviceTypes /\ LoopTypes
<1>1. {subscriptions, telling, todo, visited, watched, sent} \subseteq SUBSET Reqs
      <=> /\ subscriptions \subseteq Reqs /\ telling \subseteq Reqs /\ todo \subseteq Reqs
          /\ visited \subseteq Reqs /\ watched \subseteq Reqs /\ sent \subseteq Reqs
  OBVIOUS
<1>2. {closed, subChan} \subseteq BOOLEAN <=> closed \in BOOLEAN /\ subChan \in BOOLEAN
  OBVIOUS
<1> QED
  BY <1>1, <1>2, Zenon DEF TypeOK, NetTypes, DeviceTypes, LoopTypes

LEMMA TypesJoin == NetTypes' /\ DeviceTypes' /\ LoopTypes' => TypeOK'
<1>1. {subscriptions', telling', todo', visited', watched', sent'} \subseteq SUBSET Reqs
      <=> /\ subscriptions' \subseteq Reqs /\ telling' \subseteq Reqs /\ todo' \subseteq Reqs
          /\ visited' \subseteq Reqs /\ watched' \subseteq Reqs /\ sent' \subseteq Reqs
  OBVIOUS
<1>2. {closed', subChan'} \subseteq BOOLEAN <=> closed' \in BOOLEAN /\ subChan' \in BOOLEAN
  OBVIOUS
<1> QED
  BY <1>1, <1>2, Zenon DEF TypeOK, NetTypes, DeviceTypes, LoopTypes

LEMMA NetTypesKept ==
    ASSUME TypeOK, UNCHANGED <<cache, peerVars, req>>
    PROVE  NetTypes'
  BY TypesSplit DEF NetTypes, peerVars

LEMMA DeviceTypesKept ==
    ASSUME TypeOK, UNCHANGED <<devVars, tdVars>>
    PROVE  DeviceTypes'
  BY TypesSplit DEF DeviceTypes, devVars, tdVars

LEMMA LoopTypesKept ==
    ASSUME TypeOK, UNCHANGED <<subVars, loopVars, ghosts>>
    PROVE  LoopTypes'
  BY TypesSplit DEF LoopTypes, subVars, loopVars, ghosts

LEMMA NextTypeOK ==
    ASSUME TypeOK, RequestsInv, StoreInv, Next
    PROVE  TypeOK'
<1>0. NetTypes /\ DeviceTypes /\ LoopTypes
  BY TypesSplit
<1>r. ASSUME NEW q \in Reqs, req[q].at # "free"
      PROVE  req[q].peer \in Peers /\ req[q].conn \in Int /\ (req[q].at = "sent" => req[q].mid \in Reqs)
             /\ req[q].body \in Versions
  BY <1>0, <1>r DEF RequestsInv, RequestInv, NetTypes, Request
<1>1. CASE DeleteAndCloseDevice \/ Shutdown
  <2>1. DeviceTypes'
    BY <1>0, <1>1 DEF DeleteAndCloseDevice, Shutdown, DeviceTypes, tdVars
  <2> QED
    BY <1>1, <2>1, NetTypesKept, LoopTypesKept, TypesJoin DEF DeleteAndCloseDevice, Shutdown
<1>2. CASE CloseManager
  <2>1. DeviceTypes' /\ LoopTypes'
    BY <1>0, <1>2 DEF CloseManager, DeviceTypes, LoopTypes, loopVars, ghosts
  <2> QED
    BY <1>2, <2>1, NetTypesKept, TypesJoin DEF CloseManager
<1>3. ASSUME NEW q \in Reqs, Tell(q), req[q].at # "free" PROVE TypeOK'
  <2>1. RemoveSubscription(req[q].peer, req[q].conn, Live(q))
    BY <1>3 DEF Tell, ObserveError
  <2>2. /\ createdSubscription' \in [Peers -> Reqs \union {None}]
        /\ stolen' \in [Peers -> BOOLEAN] /\ subscriptions' \subseteq Reqs
    BY <1>0, <1>r, <1>3, <2>1, RemoveEffect DEF LoopTypes
  <2>3. LoopTypes'
    BY <1>0, <1>3, <2>2 DEF Tell, LoopTypes, loopVars
  <2>4. NetTypes'
    BY <1>0, <1>3 DEF Tell, ObserveError, NetTypes
  <2>5. DeviceTypes'
    BY <1>0, <1>3 DEF Tell, DeviceTypes, tdVars
  <2> QED
    BY <2>3, <2>4, <2>5, TypesJoin
<1>4. CASE CloseResources
  <2>1. DeviceTypes' /\ LoopTypes'
    BY <1>0, <1>4 DEF CloseResources, DeviceTypes, LoopTypes, tdVars, loopVars, ghosts
  <2> QED
    BY <1>4, <2>1, NetTypesKept, TypesJoin DEF CloseResources
<1>5. CASE CloseAndDeleteResource
  <2>1. DeviceTypes' /\ LoopTypes'
    BY <1>0, <1>5 DEF CloseAndDeleteResource, DeviceTypes, LoopTypes, tdVars, loopVars, ghosts
  <2>2. NetTypes'
    BY <1>0, <1>5 DEF CloseAndDeleteResource, NetTypes
  <2> QED
    BY <2>1, <2>2, TypesJoin
<1>6. ASSUME NEW p \in Peers, Disconnect(p) PROVE TypeOK'
  <2>1. NetTypes'
    BY <1>0, <1>6 DEF Disconnect, NetTypes
  <2> QED
    BY <1>6, <2>1, DeviceTypesKept, LoopTypesKept, TypesJoin DEF Disconnect
<1>7. ASSUME NEW p \in Peers, NEW kind \in {"observe", "cancel"}, Send(p, kind) PROVE TypeOK'
  <2>1. NextFree \in Reqs /\ req' \in [Reqs -> Request]
    BY <1>7, SendMoves
  <2>2. NetTypes'
    BY <1>0, <1>7, <2>1 DEF Send, NetTypes
  <2> QED
    BY <1>7, <2>2, DeviceTypesKept, LoopTypesKept, TypesJoin DEF Send
<1>8. ASSUME NEW q \in Reqs, Duplicate(q) PROVE TypeOK'
  <2>1. req' \in [Reqs -> Request]
    BY <1>8, DuplicateMoves
  <2>2. NetTypes'
    BY <1>0, <1>8, <2>1 DEF Duplicate, NetTypes, peerVars
  <2> QED
    BY <1>8, <2>2, DeviceTypesKept, LoopTypesKept, TypesJoin DEF Duplicate
<1>9. ASSUME NEW q \in Reqs, ServeCOAP(q) PROVE TypeOK'
  <2>1. req[q].at = "sent"
    BY <1>9 DEF ServeCOAP
  <2>2. /\ conn' \in [Peers -> 0..MaxConns] /\ dialog' \in [Peers -> Reqs \union {None}]
        /\ alive' \in [Peers -> BOOLEAN] /\ req' \in [Reqs -> Request]
    BY <1>r, <1>9, <2>1, ServeMoves DEF Refused, Accepted, Moves
  <2>3. cache' \subseteq Reqs /\ status' = status
    BY <1>0, <1>r, <1>9, <2>1 DEF ServeCOAP, Remember, NetTypes
  <2>4. NetTypes'
    BY <1>0, <2>2, <2>3 DEF NetTypes
  <2> QED
    BY <1>9, <2>4, DeviceTypesKept, LoopTypesKept, TypesJoin DEF ServeCOAP
<1>10. ASSUME NEW q \in Reqs, CreateSubscription(q) PROVE TypeOK'
  <2>1. req' \in [Reqs -> Request]
    BY <1>10, GotoMoves DEF CreateSubscription, Moves, Labels
  <2>2. NetTypes' /\ LoopTypes'
    BY <1>0, <1>10, <2>1 DEF CreateSubscription, NetTypes, peerVars, LoopTypes, loopVars, ghosts
  <2> QED
    BY <1>10, <2>2, DeviceTypesKept, TypesJoin DEF CreateSubscription
<1>11. ASSUME NEW q \in Reqs, GetHandler(q) PROVE TypeOK'
  <2>1. req' \in [Reqs -> Request] /\ subscriptions' \subseteq Reqs
    BY <1>0, <1>11, GetMoves DEF Moves, LoopTypes
  <2>2. NetTypes' /\ LoopTypes'
    BY <1>0, <1>11, <2>1 DEF GetHandler, NetTypes, peerVars, LoopTypes, loopVars, ghosts
  <2> QED
    BY <1>11, <2>2, DeviceTypesKept, TypesJoin DEF GetHandler
<1>12. ASSUME NEW q \in Reqs, Replace(q) PROVE TypeOK'
  <2>1. req' \in [Reqs -> Request] /\ subscriptions' \subseteq Reqs
    BY <1>0, <1>12, GotoMoves DEF Replace, Moves, LoopTypes, Labels
  <2>2. NetTypes'
    BY <1>0, <1>12, <2>1 DEF Replace, NetTypes, peerVars
  <2>3. stolen' \in [Peers -> BOOLEAN]
    BY <1>0, <1>12 DEF Replace, LoopTypes
  <2>4. /\ createdSubscription' \in [Peers -> Reqs \union {None}]
        /\ deduplicationNotification' \in [Reqs -> Versions \union {None, ErrorBody}]
    BY <1>0, <1>r, <1>12 DEF Replace, Body, LoopTypes
  <2>5. LoopTypes'
    BY <1>0, <1>12, <2>1, <2>3, <2>4 DEF Replace, LoopTypes
  <2> QED
    BY <1>12, <2>2, <2>5, DeviceTypesKept, TypesJoin DEF Replace
<1>13. ASSUME NEW q \in Reqs, Cancel(q) PROVE TypeOK'
  <2>1. req' \in [Reqs -> Request]
    BY <1>13, OkMoves DEF Cancel, Moves
  <2>2. NetTypes'
    BY <1>0, <1>13, <2>1 DEF Cancel, NetTypes, peerVars
  <2>3. /\ createdSubscription' \in [Peers -> Reqs \union {None}]
        /\ stolen' \in [Peers -> BOOLEAN] /\ subscriptions' \subseteq Reqs
    BY <1>0, <1>r, <1>13, RemoveEffect DEF Cancel, LoopTypes
  <2>4. LoopTypes'
    BY <1>0, <1>13, <2>3 DEF Cancel, LoopTypes, loopVars
  <2> QED
    BY <1>13, <2>2, <2>4, DeviceTypesKept, TypesJoin DEF Cancel
<1>14. ASSUME NEW q \in Reqs, Answer(q) PROVE TypeOK'
  <2>1. req' \in [Reqs -> Request]
    BY <1>14, DoneMoves DEF Answer, Moves
  <2>2. /\ dialog' \in [Peers -> Reqs \union {None}]
        /\ status' \in [Peers -> {"unknown", "observed", "cancelled", "silent"}]
    BY <1>0, <1>14 DEF Answer, NetTypes
  <2>3. NetTypes'
    BY <1>0, <1>14, <2>1, <2>2 DEF Answer, NetTypes
  <2>4. sent' \subseteq Reqs
    BY <1>0, <1>14 DEF Answer, Sent, LoopTypes
  <2>5. LoopTypes'
    BY <1>0, <1>14, <2>4 DEF Answer, LoopTypes, subVars, loopVars
  <2> QED
    BY <1>14, <2>3, <2>5, DeviceTypesKept, TypesJoin DEF Answer
<1>15. CASE NotifySubscriptions
  <2>1. value' \in Versions /\ lastTD' \in Versions
    BY <1>0, <1>15, BoundsAssumption DEF NotifySubscriptions, DeviceTypes, Versions
  <2>2. DeviceTypes' /\ LoopTypes'
    BY <1>0, <1>15, <2>1 DEF NotifySubscriptions, DeviceTypes, LoopTypes, devVars, subVars, loopVars
  <2> QED
    BY <1>15, <2>2, NetTypesKept, TypesJoin DEF NotifySubscriptions
<1>16. CASE NotifySend
  <2>1. DeviceTypes'
    BY <1>0, <1>16 DEF NotifySend, DeviceTypes, devVars
  <2> QED
    BY <1>16, <2>1, NetTypesKept, LoopTypesKept, TypesJoin DEF NotifySend
<1>17. CASE SubscriptionHandler
  <2>1. DeviceTypes' /\ LoopTypes'
    BY <1>0, <1>17 DEF SubscriptionHandler, DeviceTypes, LoopTypes, devVars, subVars, ghosts
  <2> QED
    BY <1>17, <2>1, NetTypesKept, TypesJoin DEF SubscriptionHandler
<1>18. CASE SubscriptionHandlerReturns
  <2>1. DeviceTypes' /\ LoopTypes'
    BY <1>0, <1>18 DEF SubscriptionHandlerReturns, ClearLastTD, DeviceTypes, LoopTypes, devVars,
       subVars, ghosts
  <2> QED
    BY <1>18, <2>1, NetTypesKept, TypesJoin DEF SubscriptionHandlerReturns
<1>19. CASE LoopStops
  <2>1. LoopTypes'
    BY <1>0, <1>19 DEF LoopStops, LoopTypes, subVars, ghosts
  <2> QED
    BY <1>19, <2>1, NetTypesKept, DeviceTypesKept, TypesJoin DEF LoopStops
<1>20. ASSUME NEW q \in Reqs, NotifySubscription(q), req[q].at # "free" PROVE TypeOK'
  <2>r. \/ UNCHANGED <<subscriptions, createdSubscription, stolen>>
        \/ RemoveSubscription(req[q].peer, req[q].conn, Live(q))
    BY <1>20 DEF NotifySubscription
  <2>1. /\ createdSubscription' \in [Peers -> Reqs \union {None}]
        /\ stolen' \in [Peers -> BOOLEAN] /\ subscriptions' \subseteq Reqs
    BY <1>0, <1>r, <1>20, <2>r, RemoveEffect DEF LoopTypes
  <2>2. sent' \subseteq Reqs /\ visited' \subseteq Reqs
        /\ deduplicationNotification' \in [Reqs -> Versions \union {None, ErrorBody}]
    BY <1>0, <1>20 DEF NotifySubscription, Sent, LoopTypes
  <2>3. LoopTypes'
    BY <1>0, <1>20, <2>1, <2>2 DEF NotifySubscription, LoopTypes
  <2> QED
    BY <1>20, <2>3, NetTypesKept, DeviceTypesKept, TypesJoin DEF NotifySubscription
<1>21. ASSUME NEW q \in Reqs, ConnectionDone(q), req[q].at # "free" PROVE TypeOK'
  <2>1. /\ createdSubscription' \in [Peers -> Reqs \union {None}]
        /\ stolen' \in [Peers -> BOOLEAN] /\ subscriptions' \subseteq Reqs
    BY <1>0, <1>r, <1>21, RemoveEffect DEF ConnectionDone, LoopTypes
  <2>2. LoopTypes'
    BY <1>0, <1>21, <2>1 DEF ConnectionDone, LoopTypes
  <2> QED
    BY <1>21, <2>2, NetTypesKept, DeviceTypesKept, TypesJoin DEF ConnectionDone
<1>e. ASSUME NEW q \in Reqs, NotifyError(q), req[q].at # "free" PROVE TypeOK'
  <2>1. RemoveSubscription(req[q].peer, req[q].conn, Live(q))
    BY <1>e DEF NotifyError, ObserveError
  <2>2. /\ createdSubscription' \in [Peers -> Reqs \union {None}]
        /\ stolen' \in [Peers -> BOOLEAN] /\ subscriptions' \subseteq Reqs
    BY <1>0, <1>r, <1>e, <2>1, RemoveEffect DEF LoopTypes
  <2>3. sent' \subseteq Reqs /\ visited' \subseteq Reqs
    BY <1>0, <1>e DEF NotifyError, Sent, LoopTypes
  <2>4. LoopTypes'
    BY <1>0, <1>e, <2>2, <2>3 DEF NotifyError, LoopTypes
  <2>5. NetTypes'
    BY <1>0, <1>e DEF NotifyError, ObserveError, NetTypes
  <2> QED
    BY <1>e, <2>4, <2>5, DeviceTypesKept, TypesJoin DEF NotifyError
<1>22. ASSUME NEW q \in Reqs, q \in subscriptions \union telling \union watched
       PROVE  req[q].at # "free"
  BY <1>22 DEF StoreInv, SubscriptionInv, Registering, Through
<1>23. ASSUME NEW q \in Reqs,
              Tell(q) \/ NotifySubscription(q) \/ NotifyError(q) \/ ConnectionDone(q)
       PROVE  TypeOK'
  <2>1. req[q].at # "free"
    BY <1>22, <1>23 DEF Tell, NotifySubscription, NotifyError, ConnectionDone
  <2> QED
    BY <1>3, <1>20, <1>21, <1>e, <1>23, <2>1
<1> QED
  BY <1>1, <1>2, <1>4, <1>5, <1>6, <1>7, <1>8, <1>9, <1>10, <1>11, <1>12, <1>13, <1>14, <1>15,
     <1>16, <1>17, <1>18, <1>19, <1>23 DEF Next, CloseStep, RequestStep, LoopStep

-----------------------------------------------------------------------------
(* At most one request of a peer that knows is being handled                *)

LEMMA InitRequests == Init => RequestsInv
<1> SUFFICES ASSUME Init PROVE RequestsInv
  OBVIOUS
<1>1. \A q \in Reqs : req[q].at = "free"
  BY DEF Init, NoRequest
<1> QED
  BY <1>1 DEF RequestsInv, RequestInv, OneActive, Active, ActiveLabels

LEMMA RequestsKept ==
    ASSUME RequestsInv, UNCHANGED <<cache, conn, dialog, req>>, \A p \in Peers : Sure(p)' => Sure(p)
    PROVE  RequestsInv'
<1>1. ASSUME NEW q \in Reqs PROVE RequestInv(q)'
  <2>1. RequestInv(q)
    BY DEF RequestsInv
  <2>2. Active(q)' <=> Active(q)
    BY DEF Active
  <2>3. req[q].at # "free" => (Sure(req[q].peer)' => Sure(req[q].peer))
    BY <2>1 DEF RequestInv
  <2>4. Active(q) => req[q].at # "free"
    BY DEF Active, ActiveLabels
  <2> QED
    BY <2>1, <2>2, <2>3, <2>4 DEF RequestInv, Sure
<1>2. OneActive'
  <2> SUFFICES ASSUME NEW q \in Reqs, NEW r \in Reqs, Active(q), Active(r),
                      req[q].peer = req[r].peer, Sure(req[q].peer)'
               PROVE  q = r
    BY DEF OneActive, Active, Sure
  <2>1. req[q].peer \in Peers
    BY DEF RequestsInv, RequestInv, Active, ActiveLabels
  <2> QED
    BY <2>1 DEF RequestsInv, OneActive
<1> QED
  BY <1>1, <1>2 DEF RequestsInv

\* A goroutine goes on with its request.
LEMMA ActiveStep ==
    ASSUME TypeOK, RequestsInv, NEW q \in Reqs, NEW l \in ActiveLabels \ {"remove"},
           Active(q), Moves(q, l), Identity(q), UNCHANGED <<cache, conn, dialog, status>>,
           l \in {"subscribe", "get", "replace"} => req[q].kind = "observe",
           l \in {"subscribe", "get"} => ~req'[q].ok
    PROVE  RequestsInv'
<1>1. ASSUME NEW r \in Reqs, r # q PROVE RequestInv(r)' /\ (Active(r)' <=> Active(r)) /\ req'[r].peer = req[r].peer
  <2>1. req'[r] = req[r]
    BY <1>1 DEF Moves, Others
  <2> QED
    BY <2>1 DEF RequestsInv, RequestInv, Active, Sure
<1>2. RequestInv(q)'
  <2>1. RequestInv(q) /\ req[q].at # "free"
    BY DEF RequestsInv, Active, ActiveLabels
  <2> QED
    BY <2>1 DEF RequestInv, Moves, Identity, Active, ActiveLabels, Sure
<1>3. OneActive'
  BY <1>1 DEF RequestsInv, OneActive, Moves, Sure
<1> QED
  BY <1>1, <1>2, <1>3 DEF RequestsInv

LEMMA NextRequests ==
    ASSUME TypeOK, RequestsInv, Next
    PROVE  RequestsInv'
<1>0. /\ conn \in [Peers -> 0..MaxConns] /\ dialog \in [Peers -> Reqs \union {None}]
      /\ status \in [Peers -> {"unknown", "observed", "cancelled", "silent"}]
      /\ cache \subseteq Reqs /\ None \notin Reqs /\ \A q \in Reqs : req[q] \in Request
  BY NoneAssumption DEF TypeOK, Reqs
<1>n. \A p \in Peers : conn[p] \in Nat /\ 0 <= conn[p]
  BY <1>0
<1>1. ASSUME NEW p \in Peers, NEW kind \in {"observe", "cancel"}, Send(p, kind) PROVE RequestsInv'
  <2>1. PICK f \in Reqs :
           /\ f = NextFree /\ req[f].at = "free" /\ Others(f)
           /\ req'[f].at = "sent" /\ req'[f].peer = p /\ req'[f].mid = f /\ req'[f].conn = 0
           /\ ~req'[f].ok
    BY <1>1, SendMoves
  <2>2. /\ UNCHANGED <<cache, conn>>
        /\ dialog' = [dialog EXCEPT ![p] = IF UnderWay(p) = {} THEN f ELSE None]
        /\ status' = [status EXCEPT ![p] = "unknown"]
    BY <1>1, <2>1 DEF Send
  <2>3. /\ dialog'[p] = (IF UnderWay(p) = {} THEN f ELSE None) /\ status'[p] = "unknown"
        /\ \A x \in Peers : x # p => dialog'[x] = dialog[x] /\ status'[x] = status[x]
    BY <1>0, <2>2
  <2>s. /\ Sure(p)' => UnderWay(p) = {} /\ dialog'[p] = f
        /\ \A x \in Peers : x # p => (Sure(x)' <=> Sure(x))
    BY <2>3 DEF Sure
  <2>4. ASSUME NEW r \in Reqs, r # f PROVE RequestInv(r)' /\ (Active(r)' <=> Active(r)) /\ req'[r].peer = req[r].peer
    <3>1. req'[r] = req[r] /\ RequestInv(r)
      BY <2>1, <2>4 DEF Others, RequestsInv
    <3>2. Active(r) => req[r].peer \in Peers /\ (req[r].peer = p => ~Sure(p)')
      BY <2>s, <3>1 DEF RequestInv, Active, ActiveLabels, UnderWay
    <3>3. req[r].at = "sent" /\ req[r].mid \notin cache =>
             req[r].peer \in Peers /\ (req[r].peer = p => ~Sure(p)')
      BY <2>s, <3>1 DEF RequestInv, UnderWay
    <3> QED
      BY <2>2, <2>3, <2>s, <3>1, <3>2, <3>3 DEF RequestInv, Active
  <2>5. RequestInv(f)' /\ ~Active(f)'
    BY <1>n, <2>1, <2>2, <2>s DEF RequestInv, Active, ActiveLabels
  <2>a. ASSUME NEW r \in Reqs, Active(r)' PROVE Active(r) /\ req[r].peer \in Peers /\ req'[r].peer = req[r].peer
                                             /\ (req[r].peer = p => ~Sure(p)')
    <3>1. r # f /\ Active(r) /\ req'[r].peer = req[r].peer
      BY <2>4, <2>5, <2>a
    <3> QED
      BY <2>s, <3>1 DEF RequestsInv, RequestInv, Active, ActiveLabels, UnderWay
  <2>6. OneActive'
    BY <2>s, <2>a DEF RequestsInv, OneActive
  <2> QED
    BY <2>4, <2>5, <2>6 DEF RequestsInv
<1>2. ASSUME NEW q \in Reqs, Duplicate(q) PROVE RequestsInv'
  <2>1. PICK f \in Reqs :
           f = NextFree /\ req[f].at = "free" /\ req[q].at = "sent" /\ Others(f) /\ req'[f] = req[q]
    BY <1>2, DuplicateMoves
  <2>2. UNCHANGED <<cache, conn, dialog, status>>
    BY <1>2 DEF Duplicate, peerVars
  <2>4. ASSUME NEW r \in Reqs, r # f PROVE RequestInv(r)' /\ (Active(r)' <=> Active(r)) /\ req'[r].peer = req[r].peer
    <3>1. req'[r] = req[r] /\ RequestInv(r)
      BY <2>1, <2>4 DEF Others, RequestsInv
    <3> QED
      BY <2>2, <3>1 DEF RequestInv, Active, Sure
  <2>5. RequestInv(f)' /\ ~Active(f)'
    BY <2>1, <2>2 DEF RequestsInv, RequestInv, Active, ActiveLabels, Sure
  <2>6. OneActive'
    BY <2>2, <2>4, <2>5 DEF RequestsInv, OneActive, Sure
  <2> QED
    BY <2>4, <2>5, <2>6 DEF RequestsInv
<1>3. ASSUME NEW q \in Reqs, ServeCOAP(q) PROVE RequestsInv'
  <2>0. req[q].at = "sent" /\ cache' = cache \union {req[q].mid} /\ status' = status
    BY <1>3 DEF ServeCOAP, Remember
  <2>1. RequestInv(q) /\ req[q].peer \in Peers /\ req[q].mid \in Reqs
    BY <2>0 DEF RequestsInv, RequestInv
  <2>2. /\ conn' \in [Peers -> 0..MaxConns] /\ \A p \in Peers : conn[p] <= conn'[p]
        /\ Refused(q) \/ Accepted(q)
    BY <1>3, <2>1, ServeMoves
  <2>3. Others(q) /\ req'[q].peer = req[q].peer
    BY <2>2 DEF Refused, Accepted, Moves
  <2>s. \A x \in Peers : Sure(x)' => Sure(x)
    BY <2>0, <2>2 DEF Refused, Accepted, Sure
  <2>4. ASSUME NEW r \in Reqs, req[r].at # "free" PROVE req[r].conn <= conn'[req[r].peer]
    BY <1>0, <2>2, <2>4 DEF RequestsInv, RequestInv, Request
  <2>5. CASE Refused(q)
    <3>1. ASSUME NEW r \in Reqs, r # q PROVE RequestInv(r)' /\ (Active(r)' <=> Active(r)) /\ req'[r].peer = req[r].peer
      <4>1. req'[r] = req[r] /\ RequestInv(r)
        BY <2>3, <3>1 DEF Others, RequestsInv
      <4>2. Active(r) /\ Sure(req[r].peer) => dialog'[req[r].peer] = dialog[req[r].peer]
        BY <2>1, <2>5, <4>1 DEF Refused, RequestInv, Active, ActiveLabels
      <4>3. req[r].at = "sent" /\ req[r].mid \notin cache' /\ Sure(req[r].peer) =>
               dialog'[req[r].peer] = dialog[req[r].peer]
        BY <2>0, <2>1, <2>5, <4>1 DEF Refused, RequestInv
      <4>4. req[r].at # "free" => (Sure(req[r].peer)' => Sure(req[r].peer))
        BY <2>s, <4>1 DEF RequestInv
      <4>5. Active(r) => req[r].at # "free"
        BY DEF Active, ActiveLabels
      <4> QED
        BY <2>0, <2>4, <4>1, <4>2, <4>3, <4>4, <4>5 DEF RequestInv, Active
    <3>2. RequestInv(q)' /\ ~Active(q)'
      BY <2>0, <2>1, <2>3, <2>4, <2>5 DEF Refused, Moves, RequestInv, Active, ActiveLabels
    <3>a. ASSUME NEW r \in Reqs, Active(r)' PROVE Active(r) /\ req'[r].peer = req[r].peer
                                               /\ req[r].peer \in Peers
      <4>1. Active(r) /\ req'[r].peer = req[r].peer
        BY <3>1, <3>2, <3>a
      <4> QED
        BY <4>1 DEF RequestsInv, RequestInv, Active, ActiveLabels
    <3>3. OneActive'
      BY <2>s, <3>a DEF RequestsInv, OneActive
    <3> QED
      BY <3>1, <3>2, <3>3 DEF RequestsInv
  <2>6. CASE Accepted(q)
    <3>1. ASSUME NEW r \in Reqs, r # q PROVE RequestInv(r)' /\ (Active(r)' <=> Active(r)) /\ req'[r].peer = req[r].peer
      <4>1. req'[r] = req[r] /\ RequestInv(r) /\ dialog' = dialog
        BY <2>3, <2>6, <3>1 DEF Others, RequestsInv, Accepted
      <4> QED
        BY <2>0, <2>4, <4>1 DEF RequestInv, Active, Sure
    <3>2. /\ req[q].mid \notin cache /\ dialog' = dialog
          /\ Sure(req[q].peer) => dialog[req[q].peer] = req[q].mid
      BY <2>0, <2>1, <2>6 DEF Accepted, RequestInv
    <3>s. \A x : Sure(x)' <=> Sure(x)
      BY <2>0, <3>2 DEF Sure
    <3>3. conn'[req[q].peer] \in Nat
      BY <2>1, <2>2
    <3>4. req'[q].at \in {"subscribe", "remove"}
      BY <2>6 DEF Accepted, Moves
    <3>5. RequestInv(q)'
      BY <2>0, <2>1, <2>3, <2>6, <3>2, <3>3, <3>4, <3>s DEF Accepted, RequestInv, Active, ActiveLabels
    <3>6. ASSUME NEW r \in Reqs, r # q, Active(r), Sure(req[q].peer) PROVE req[r].peer # req[q].peer
      BY <3>2, <3>6 DEF RequestsInv, RequestInv
    <3>7. OneActive'
      BY <2>3, <3>1, <3>6, <3>s DEF RequestsInv, OneActive
    <3> QED
      BY <3>1, <3>5, <3>7 DEF RequestsInv
  <2> QED
    BY <2>2, <2>5, <2>6
<1>4. ASSUME NEW q \in Reqs, CreateSubscription(q) PROVE RequestsInv'
  <2>1. req[q].at = "subscribe" /\ Goto(q, "get") /\ UNCHANGED <<cache, conn, dialog, status>>
    BY <1>4 DEF CreateSubscription, peerVars
  <2>2. Moves(q, "get") /\ Identity(q) /\ req'[q].ok = req[q].ok
    BY <2>1, GotoMoves DEF Labels
  <2>3. req[q].kind = "observe" /\ Active(q) /\ ~req[q].ok
    BY <2>1 DEF RequestsInv, RequestInv, Active, ActiveLabels
  <2> QED
    BY <2>1, <2>2, <2>3, ActiveStep DEF ActiveLabels
<1>5. ASSUME NEW q \in Reqs, GetHandler(q) PROVE RequestsInv'
  <2>1. req[q].at = "get" /\ UNCHANGED <<cache, conn, dialog, status>>
    BY <1>5 DEF GetHandler, peerVars
  <2>2. (Moves(q, "replace") \/ Moves(q, "answer")) /\ Identity(q)
    BY <1>5, GetMoves
  <2>3. req[q].kind = "observe" /\ Active(q)
    BY <2>1 DEF RequestsInv, RequestInv, Active, ActiveLabels
  <2> QED
    BY <2>1, <2>2, <2>3, ActiveStep DEF ActiveLabels
<1>6. ASSUME NEW q \in Reqs, Replace(q) \/ Cancel(q) PROVE RequestsInv'
  <2>1. req[q].at \in {"replace", "remove"} /\ UNCHANGED <<cache, conn, dialog, status>>
    BY <1>6 DEF Replace, Cancel, peerVars
  <2>2. Moves(q, "answer") /\ Identity(q)
    BY <1>6, GotoMoves, OkMoves DEF Replace, Cancel, Labels
  <2>3. Active(q)
    BY <2>1 DEF Active, ActiveLabels
  <2> QED
    BY <2>1, <2>2, <2>3, ActiveStep DEF ActiveLabels
<1>7. ASSUME NEW q \in Reqs, Answer(q) PROVE RequestsInv'
  <2>1. req[q].at = "answer" /\ UNCHANGED <<cache, conn>>
    BY <1>7 DEF Answer
  <2>2. Moves(q, "done") /\ req'[q].conn = req[q].conn
    BY <1>7, DoneMoves DEF Answer
  <2>3. RequestInv(q) /\ Active(q) /\ req[q].peer \in Peers
    BY <2>1 DEF RequestsInv, RequestInv, Active, ActiveLabels
  <2>4. \A x \in Peers : x # req[q].peer => dialog'[x] = dialog[x] /\ status'[x] = status[x]
    BY <1>0, <1>7 DEF Answer
  <2>d. /\ dialog'[req[q].peer] \in {dialog[req[q].peer], None}
        /\ dialog[req[q].peer] = req[q].mid => dialog'[req[q].peer] = None
        /\ status'[req[q].peer] # status[req[q].peer] => dialog[req[q].peer] = req[q].mid
    BY <1>0, <1>7, <2>3 DEF Answer
  <2>m. req[q].mid # None
    BY <1>0, <2>3 DEF RequestInv
  <2>s. \A x \in Peers : Sure(x)' => Sure(x)
    BY <2>3, <2>4, <2>d, <2>m DEF Sure
  <2>5. ASSUME NEW r \in Reqs, r # q PROVE RequestInv(r)' /\ (Active(r)' <=> Active(r)) /\ req'[r].peer = req[r].peer
    <3>1. req'[r] = req[r] /\ RequestInv(r)
      BY <2>2, <2>5 DEF Moves, Others, RequestsInv
    <3>2. Active(r) /\ Sure(req[r].peer) => req[r].peer # req[q].peer /\ req[r].peer \in Peers
      BY <2>3, <2>5, <3>1 DEF RequestsInv, OneActive, RequestInv, Active, ActiveLabels
    <3>3. req[r].at = "sent" /\ req[r].mid \notin cache /\ Sure(req[r].peer) =>
             req[r].peer # req[q].peer /\ req[r].peer \in Peers
      BY <2>3, <3>1 DEF RequestInv
    <3>4. req[r].at # "free" => (Sure(req[r].peer)' => Sure(req[r].peer))
      BY <2>s, <3>1 DEF RequestInv
    <3>5. Active(r) => req[r].at # "free"
      BY DEF Active, ActiveLabels
    <3> QED
      BY <2>1, <2>4, <3>1, <3>2, <3>3, <3>4, <3>5 DEF RequestInv, Active
  <2>6. RequestInv(q)' /\ ~Active(q)'
    BY <2>1, <2>2, <2>3 DEF Moves, RequestInv, Active, ActiveLabels
  <2>a. ASSUME NEW r \in Reqs, Active(r)' PROVE Active(r) /\ req'[r].peer = req[r].peer
                                             /\ req[r].peer \in Peers
    <3>1. Active(r) /\ req'[r].peer = req[r].peer
      BY <2>5, <2>6, <2>a
    <3> QED
      BY <3>1 DEF RequestsInv, RequestInv, Active, ActiveLabels
  <2>7. OneActive'
    BY <2>s, <2>a DEF RequestsInv, OneActive
  <2> QED
    BY <2>5, <2>6, <2>7 DEF RequestsInv
<1>8. ASSUME \/ DeleteAndCloseDevice \/ Shutdown \/ CloseStep \/ CloseAndDeleteResource
             \/ \E p \in Peers : Disconnect(p)
             \/ NotifySubscriptions \/ NotifySend \/ LoopStep
      PROVE  RequestsInv'
  <2>1. UNCHANGED <<cache, conn, dialog, req>>
    BY <1>8 DEF DeleteAndCloseDevice, Shutdown, CloseStep, CloseManager, Tell, CloseResources,
       CloseAndDeleteResource, Disconnect, NotifySubscriptions, NotifySend, LoopStep,
       SubscriptionHandler, SubscriptionHandlerReturns, LoopStops, NotifySubscription,
       NotifyError, ConnectionDone, peerVars
  <2>2. \/ status' = status
        \/ CloseAndDeleteResource
        \/ \E p \in Peers : status' = [status EXCEPT ![p] = "unknown"]
        \/ \E q \in Reqs : status' = [status EXCEPT ![req[q].peer] = "unknown"]
    BY <1>8 DEF DeleteAndCloseDevice, Shutdown, CloseStep, CloseManager, Tell, CloseResources,
       Disconnect, NotifySubscriptions, NotifySend, LoopStep,
       SubscriptionHandler, SubscriptionHandlerReturns, LoopStops, NotifySubscription,
       NotifyError, ObserveError, ConnectionDone, peerVars
  <2>3. \A x \in Peers : status'[x] \in {status[x], "unknown", "silent"}
    BY <1>0, <2>2 DEF CloseAndDeleteResource
  <2>4. \A x \in Peers : Sure(x)' => Sure(x)
    BY <2>1, <2>3 DEF Sure
  <2> QED
    BY <2>1, <2>4, RequestsKept
<1> QED
  BY <1>1, <1>2, <1>3, <1>4, <1>5, <1>6, <1>7, <1>8 DEF Next, RequestStep

-----------------------------------------------------------------------------
(* What is registered is stored, or about to be                             *)

LEMMA InitStore == Init => StoreInv
<1> SUFFICES ASSUME Init PROVE StoreInv
  OBVIOUS
<1>1. \A q \in Reqs : req[q].at = "free"
  BY DEF Init, NoRequest
<1> QED
  BY <1>1 DEF Init, StoreInv, Registering

storeVars == <<subscriptions, createdSubscription, watched, telling, closer>>

LEMMA StoreKept ==
    ASSUME StoreInv, UNCHANGED <<storeVars, req>>
    PROVE  StoreInv'
  BY DEF StoreInv, SubscriptionInv, storeVars

\* A step of a request that has nothing to do with a subscription yet.
LEMMA StoreEarly ==
    ASSUME TypeOK, StoreInv, UNCHANGED storeVars, NEW q \in Reqs, Others(q),
           req[q].at \in {"free", "sent"}, req'[q].at \notin Registering
    PROVE  StoreInv'
<1>0. /\ subscriptions \subseteq Reqs /\ telling \subseteq Reqs /\ watched \subseteq Reqs
      /\ createdSubscription \in [Peers -> Reqs \union {None}]
  BY TypesOf DEF TypeOK
<1>1. \A r \in Reqs : req[r].at \in Registering \union Through => req'[r] = req[r]
  BY DEF Others, Registering, Through
<1>2. \A r \in Reqs : req'[r].at \in Registering => req'[r] = req[r]
  BY DEF Others
<1>3. \A r \in subscriptions : SubscriptionInv(r)'
  BY <1>0, <1>1 DEF StoreInv, SubscriptionInv, storeVars
<1>4. \A p \in Peers : createdSubscription[p] # None =>
          req'[createdSubscription[p]] = req[createdSubscription[p]]
  BY <1>0, <1>1 DEF StoreInv
<1>5. \A r \in watched \union telling : req'[r] = req[r]
  BY <1>0, <1>1 DEF StoreInv
<1> QED
  BY <1>0, <1>2, <1>3, <1>4, <1>5 DEF StoreInv, storeVars

\* removeSubscription, whoever calls it.
LEMMA StoreRemove ==
    ASSUME TypeOK, StoreInv, NEW p \in Peers, NEW c \in Int, NEW failed,
           RemoveSubscription(p, c, failed),
           closer' = closer, telling' \subseteq telling, watched' \subseteq watched,
           \A r \in watched : req[r].peer # p => r \in watched',
           NEW q \in Reqs, Others(q),
           req'[q] = req[q] \/ (req[q].at = "remove" /\ req'[q].at = "answer")
    PROVE  StoreInv'
<1>0. /\ subscriptions \subseteq Reqs /\ telling \subseteq Reqs /\ watched \subseteq Reqs
      /\ createdSubscription \in [Peers -> Reqs \union {None}]
  BY TypesOf DEF TypeOK
<1>1. \A r \in Reqs : req[r].at \in Registering \union Through => req'[r] = req[r]
  BY DEF Others, Registering, Through
<1>2. \A r \in Reqs : req'[r].at \in Registering => req'[r] = req[r]
  BY DEF Others, Registering
<1>3. /\ subscriptions' = subscriptions \ {createdSubscription[p]}
      /\ createdSubscription'[p] = None
      /\ \A x \in Peers : x # p => createdSubscription'[x] = createdSubscription[x]
  BY RemoveEffect
<1>4. ASSUME NEW r \in subscriptions' PROVE SubscriptionInv(r)'
  <2>1. r \in subscriptions /\ r \in Reqs /\ r # createdSubscription[p] /\ SubscriptionInv(r)
    BY <1>0, <1>3, <1>4 DEF StoreInv
  <2>2. req'[r] = req[r]
    BY <1>1, <2>1 DEF SubscriptionInv
  <2>3. CASE req[r].at \in Registering
    BY <2>2, <2>3 DEF SubscriptionInv
  <2>4. CASE req[r].at \notin Registering
    <3>1. createdSubscription[req[r].peer] = r /\ r \in watched /\ req[r].peer # p
      BY <2>1, <2>4 DEF SubscriptionInv
    <3>2. req[r].peer \in Peers => createdSubscription'[req[r].peer] = r
      BY <1>3, <3>1
    <3>3. req[r].peer \notin Peers => createdSubscription'[req[r].peer] = r
      BY <1>0, <3>1 DEF RemoveSubscription
    <3> QED
      BY <2>1, <2>2, <3>1, <3>2, <3>3 DEF SubscriptionInv
  <2> QED
    BY <2>3, <2>4
<1>5. \A x \in Peers : createdSubscription'[x] # None =>
         LET r == createdSubscription[x]
         IN  createdSubscription'[x] = r /\ r \in Reqs /\ req'[r] = req[r]
  BY <1>0, <1>1, <1>3 DEF StoreInv
<1>6. \A r \in watched \union telling : req'[r] = req[r]
  BY <1>0, <1>1 DEF StoreInv
<1>7. ASSUME NEW r \in Reqs, req'[r].at \in Registering, closer \in {"open", "td"}
      PROVE  r \in subscriptions'
  <2>1. r \in subscriptions /\ req[r].at \in Registering
    BY <1>2, <1>7 DEF StoreInv
  <2>2. createdSubscription[p] # None => req[createdSubscription[p]].at \in Through
    BY DEF StoreInv
  <2>3. r # createdSubscription[p]
    BY <1>0, <2>1, <2>2, NoneAssumption DEF Registering, Through, Reqs
  <2> QED
    BY <1>3, <2>1, <2>3
<1>8. \A x \in Peers : LET r == createdSubscription'[x]
                       IN r # None => req'[r].peer = x /\ req'[r].at \in Through
  BY <1>5 DEF StoreInv
<1>9. \A r \in watched' : req'[r].at \in Through
  BY <1>6 DEF StoreInv
<1>10. \A r \in telling' : req'[r].at \in Registering \union Through
  BY <1>6 DEF StoreInv
<1>11. (\A r \in subscriptions : SubscriptionInv(r))'
  BY <1>4
<1> QED
  BY <1>7, <1>8, <1>9, <1>10, <1>11 DEF StoreInv

LEMMA NextStore ==
    ASSUME TypeOK, RequestsInv, StoreInv, Next
    PROVE  StoreInv'
<1>0. /\ subscriptions \subseteq Reqs /\ telling \subseteq Reqs /\ watched \subseteq Reqs
      /\ createdSubscription \in [Peers -> Reqs \union {None}] /\ None \notin Reqs
  BY TypesOf, NoneAssumption DEF TypeOK, Reqs
<1>r. ASSUME NEW q \in Reqs, req[q].at # "free"
      PROVE  req[q].peer \in Peers /\ req[q].conn \in Int
  BY <1>r, TypesOf DEF RequestsInv, RequestInv, Request
<1>t. \A q \in subscriptions \union telling \union watched : req[q].at # "free"
  BY DEF StoreInv, SubscriptionInv, Registering, Through
<1>o. req' = req => \A q \in Reqs : Others(q) /\ req'[q] = req[q]
  BY DEF Others
<1>1. ASSUME NEW p \in Peers, NEW kind \in {"observe", "cancel"}, Send(p, kind) PROVE StoreInv'
  BY <1>1, SendMoves, StoreEarly DEF Send, storeVars, subVars, devVars, loopVars, Registering
<1>2. ASSUME NEW q \in Reqs, Duplicate(q) PROVE StoreInv'
  BY <1>2, DuplicateMoves, StoreEarly DEF Duplicate, storeVars, subVars, devVars, loopVars, Registering
<1>3. ASSUME NEW q \in Reqs, ServeCOAP(q) PROVE StoreInv'
  <2>1. req[q].at = "sent" /\ UNCHANGED storeVars
    BY <1>3 DEF ServeCOAP, storeVars, subVars, devVars, loopVars
  <2>2. Refused(q) \/ Accepted(q)
    BY <1>r, <1>3, <2>1, ServeMoves
  <2>3. Others(q) /\ req'[q].at \in {"done", "subscribe", "remove"}
    BY <2>2 DEF Refused, Accepted, Moves
  <2> QED
    BY <2>1, <2>3, StoreEarly DEF Registering
<1>4. ASSUME NEW q \in Reqs, CreateSubscription(q) PROVE StoreInv'
  <2>1. /\ req[q].at = "subscribe" /\ subscriptions' = subscriptions \union {q}
        /\ UNCHANGED <<createdSubscription, watched, telling, closer>>
    BY <1>4 DEF CreateSubscription, devVars, loopVars
  <2>2. Others(q) /\ req'[q].at = "get"
    BY <1>4, GotoMoves DEF CreateSubscription, Labels, Moves
  <2>3. \A r \in Reqs : req[r].at \in Registering \union Through => req'[r] = req[r]
    BY <2>1, <2>2 DEF Others, Registering, Through
  <2>4. \A r \in subscriptions' : SubscriptionInv(r)'
    BY <1>0, <2>1, <2>2, <2>3 DEF StoreInv, SubscriptionInv, Registering
  <2>5. \A r \in Reqs : req'[r].at \in Registering /\ closer \in {"open", "td"} => r \in subscriptions'
    BY <2>1, <2>2 DEF StoreInv, Others
  <2>6. \A p \in Peers : LET r == createdSubscription[p]
                         IN r # None => req'[r].peer = p /\ req'[r].at \in Through
    BY <1>0, <2>3 DEF StoreInv
  <2>7. \A r \in watched \union telling : req'[r] = req[r]
    BY <1>0, <2>3 DEF StoreInv
  <2>8. (\A r \in subscriptions : SubscriptionInv(r))'
    BY <2>4
  <2> QED
    BY <2>1, <2>5, <2>6, <2>7, <2>8 DEF StoreInv
<1>5. ASSUME NEW q \in Reqs, GetHandler(q) PROVE StoreInv'
  <2>1. req[q].at = "get" /\ UNCHANGED <<createdSubscription, watched, telling, closer>>
    BY <1>5 DEF GetHandler, devVars, loopVars
  <2>2. /\ Others(q)
        /\ \/ req'[q].at = "replace" /\ subscriptions' = subscriptions
           \/ req'[q].at = "answer" /\ subscriptions' = subscriptions \ {q}
    BY <1>5, GetMoves DEF Moves
  <2>3. \A r \in Reqs : req[r].at \in Through => req'[r] = req[r]
    BY <2>1, <2>2 DEF Others, Through
  <2>4. \A r \in subscriptions' : SubscriptionInv(r)'
    <3> TAKE r \in subscriptions'
    <3>1. CASE r = q
      BY <2>2, <3>1 DEF SubscriptionInv, Registering
    <3>2. CASE r # q
      BY <1>0, <2>1, <2>2, <3>2 DEF StoreInv, SubscriptionInv, Others
    <3> QED
      BY <3>1, <3>2
  <2>5. \A r \in Reqs : req'[r].at \in Registering /\ closer \in {"open", "td"} => r \in subscriptions'
    BY <2>1, <2>2 DEF StoreInv, Others, Registering
  <2>6. \A p \in Peers : LET r == createdSubscription[p]
                         IN r # None => req'[r].peer = p /\ req'[r].at \in Through
    BY <1>0, <2>3 DEF StoreInv
  <2>7. \A r \in watched : req'[r] = req[r]
    BY <1>0, <2>3 DEF StoreInv
  <2>8. \A r \in telling : req'[r].at \in Registering \union Through
    BY <1>0, <2>2 DEF StoreInv, Others, Registering, Through
  <2>9. (\A r \in subscriptions : SubscriptionInv(r))'
    BY <2>4
  <2> QED
    BY <2>1, <2>5, <2>6, <2>7, <2>8, <2>9 DEF StoreInv
<1>6. ASSUME NEW q \in Reqs, Replace(q) PROVE StoreInv'
  <2> DEFINE p == req[q].peer
             old == createdSubscription[p]
  <2>1. /\ req[q].at = "replace" /\ req[q].kind = "observe" /\ p \in Peers
        /\ UNCHANGED <<telling, closer>>
    BY <1>r, <1>6 DEF Replace, devVars, RequestsInv, RequestInv
  <2>2. /\ Others(q) /\ req'[q].at = "answer"
        /\ req'[q].kind = "observe" /\ req'[q].peer = p
    BY <1>6, <2>1, GotoMoves DEF Replace, Moves, Identity, Labels
  <2>3. /\ subscriptions' = subscriptions \ {old} /\ watched' = watched \union {q}
        /\ createdSubscription'[p] = q
        /\ \A x \in Peers : x # p => createdSubscription'[x] = createdSubscription[x]
    BY <1>0, <1>6, <2>1 DEF Replace
  <2>4. \A r \in Reqs : req[r].at \in Through => req'[r] = req[r]
    BY <2>1, <2>2 DEF Others, Through
  <2>5. ASSUME NEW r \in subscriptions' PROVE SubscriptionInv(r)'
    <3>1. r \in subscriptions /\ r \in Reqs /\ r # old /\ SubscriptionInv(r)
      BY <1>0, <2>3 DEF StoreInv
    <3>2. CASE r = q
      BY <2>2, <2>3, <3>2 DEF SubscriptionInv, Through
    <3>3. CASE r # q
      <4>1. req'[r] = req[r] /\ req[r].peer \in Peers
        BY <1>r, <1>t, <2>2, <3>1, <3>3 DEF Others
      <4>2. req[r].at \in Registering \/ req[r].peer # p
        BY <3>1 DEF SubscriptionInv
      <4> QED
        BY <2>3, <3>1, <4>1, <4>2 DEF SubscriptionInv
    <3> QED
      BY <3>2, <3>3
  <2>6. old # None => req[old].at \in Through
    BY <2>1 DEF StoreInv
  <2>7. \A r \in Reqs : req'[r].at \in Registering /\ closer \in {"open", "td"} => r \in subscriptions'
    BY <1>0, <2>2, <2>3, <2>6 DEF StoreInv, Others, Registering, Through
  <2>8. \A x \in Peers : LET r == createdSubscription'[x]
                         IN r # None => req'[r].peer = x /\ req'[r].at \in Through
    <3> TAKE x \in Peers
    <3>1. CASE x = p
      BY <2>2, <2>3, <3>1 DEF Through
    <3>2. CASE x # p
      BY <1>0, <2>3, <2>4, <3>2 DEF StoreInv
    <3> QED
      BY <3>1, <3>2
  <2>9. \A r \in watched' : req'[r].at \in Through
    BY <1>0, <2>2, <2>3, <2>4 DEF StoreInv, Through
  <2>10. \A r \in telling : req'[r].at \in Registering \union Through
    BY <1>0, <2>2 DEF StoreInv, Others, Registering, Through
  <2>11. (\A r \in subscriptions : SubscriptionInv(r))'
    BY <2>5
  <2> QED
    BY <2>1, <2>7, <2>8, <2>9, <2>10, <2>11 DEF StoreInv
<1>7. ASSUME NEW q \in Reqs, Cancel(q) PROVE StoreInv'
  <2>1. /\ req[q].at = "remove" /\ RemoveSubscription(req[q].peer, req[q].conn, FALSE)
        /\ UNCHANGED <<watched, telling, closer>>
    BY <1>7 DEF Cancel, devVars, loopVars
  <2>2. Others(q) /\ req'[q].at = "answer"
    BY <1>7, OkMoves DEF Cancel, Moves
  <2> QED
    BY <1>r, <2>1, <2>2, StoreRemove
<1>8. ASSUME NEW q \in Reqs, Answer(q) PROVE StoreInv'
  <2>1. req[q].at = "answer" /\ UNCHANGED storeVars
    BY <1>8 DEF Answer, storeVars, devVars, subVars, loopVars
  <2>2. Others(q) /\ req'[q].at = "done" /\ req'[q].peer = req[q].peer
    BY <1>8, DoneMoves DEF Answer, Moves
  <2>3. \A r \in Reqs : /\ req'[r].peer = req[r].peer
                        /\ req[r].at \in Through => req'[r].at \in Through
                        /\ req[r].at \in Registering <=> req'[r].at \in Registering
    BY <2>1, <2>2 DEF Others, Registering, Through
  <2>4. \A r \in subscriptions : SubscriptionInv(r)'
    <3> TAKE r \in subscriptions
    <3>1. CASE r = q
      BY <1>0, <2>1, <2>2, <3>1 DEF StoreInv, SubscriptionInv, storeVars, Registering, Through
    <3>2. CASE r # q
      BY <1>0, <2>1, <2>2, <3>2 DEF StoreInv, SubscriptionInv, Others, storeVars
    <3> QED
      BY <3>1, <3>2
  <2>5. (\A r \in subscriptions : SubscriptionInv(r))'
    BY <2>1, <2>4 DEF storeVars
  <2> QED
    BY <1>0, <2>1, <2>3, <2>5 DEF StoreInv, storeVars
<1>9. ASSUME NEW q \in Reqs, Tell(q) PROVE StoreInv'
  <2>1. /\ q \in telling /\ RemoveSubscription(req[q].peer, req[q].conn, Live(q)) /\ req' = req
        /\ telling' \subseteq telling /\ UNCHANGED <<watched, closer>>
    BY <1>9 DEF Tell, ObserveError, loopVars
  <2> QED
    BY <1>r, <1>t, <1>o, <2>1, StoreRemove
<1>10. ASSUME NEW q \in Reqs, NotifySubscription(q) \/ NotifyError(q) PROVE StoreInv'
  <2>1. q \in subscriptions /\ UNCHANGED <<req, watched, telling, closer>>
    BY <1>10 DEF NotifySubscription, NotifyError, devVars
  <2>2. \/ RemoveSubscription(req[q].peer, req[q].conn, Live(q))
        \/ UNCHANGED <<subscriptions, createdSubscription>>
    BY <1>10 DEF NotifySubscription, NotifyError, ObserveError
  <2>3. CASE RemoveSubscription(req[q].peer, req[q].conn, Live(q))
    BY <1>r, <1>t, <1>o, <2>1, <2>3, StoreRemove
  <2>4. CASE UNCHANGED <<subscriptions, createdSubscription>>
    BY <2>1, <2>4, StoreKept DEF storeVars
  <2> QED
    BY <2>2, <2>3, <2>4
<1>11. ASSUME NEW q \in Reqs, ConnectionDone(q) PROVE StoreInv'
  <2>1. /\ q \in watched /\ RemoveSubscription(req[q].peer, req[q].conn, FALSE) /\ req' = req
        /\ UNCHANGED <<telling, closer>>
        /\ watched' = {r \in watched : <<req[r].peer, req[r].conn>> # <<req[q].peer, req[q].conn>>}
    BY <1>11 DEF ConnectionDone, devVars
  <2>2. watched' \subseteq watched /\ \A r \in watched : req[r].peer # req[q].peer => r \in watched'
    BY <2>1
  <2> QED
    BY <1>r, <1>t, <1>o, <2>1, <2>2, StoreRemove
<1>12. CASE CloseManager
  <2>1. /\ subscriptions' = {} /\ telling' = subscriptions /\ closer' = "tell"
        /\ UNCHANGED <<req, createdSubscription, watched>>
    BY <1>12 DEF CloseManager, loopVars
  <2> QED
    BY <2>1 DEF StoreInv, SubscriptionInv
<1>13. CASE CloseResources \/ CloseAndDeleteResource
  <2>1. /\ subscriptions' \subseteq subscriptions /\ closer' \in {"open", "closed"}
        /\ UNCHANGED <<req, createdSubscription, watched, telling>>
        /\ closer' = "open" => /\ closer = "open"
                               /\ subscriptions' = subscriptions \ {createdSubscription[p] : p \in Peers}
    BY <1>13 DEF CloseResources, CloseAndDeleteResource, loopVars
  <2>2. ASSUME NEW q \in Reqs, req[q].at \in Registering, closer' = "open" PROVE q \in subscriptions'
    <3>1. q \in subscriptions
      BY <2>1, <2>2 DEF StoreInv
    <3>2. \A p \in Peers : createdSubscription[p] # q
      BY <1>0, <2>2 DEF StoreInv, Registering, Through
    <3> QED
      BY <2>1, <2>2, <3>1, <3>2
  <2> QED
    BY <2>1, <2>2 DEF StoreInv, SubscriptionInv
<1>14. CASE DeleteAndCloseDevice \/ Shutdown
  <2>1. closer = "open" /\ closer' = "td"
        /\ UNCHANGED <<req, subscriptions, createdSubscription, watched, telling>>
    BY <1>14 DEF DeleteAndCloseDevice, Shutdown, LoadDevice, subVars, loopVars
  <2> QED
    BY <2>1 DEF StoreInv, SubscriptionInv
<1>15. ASSUME \/ \E p \in Peers : Disconnect(p)
              \/ NotifySubscriptions \/ NotifySend
              \/ SubscriptionHandler \/ SubscriptionHandlerReturns \/ LoopStops
       PROVE  StoreInv'
  <2>1. UNCHANGED <<storeVars, req>>
    BY <1>15 DEF Disconnect, NotifySubscriptions, NotifySend, SubscriptionHandler,
       SubscriptionHandlerReturns, LoopStops, storeVars, subVars, loopVars, devVars
  <2> QED
    BY <2>1, StoreKept
<1> QED
  BY <1>1, <1>2, <1>3, <1>4, <1>5, <1>6, <1>7, <1>8, <1>9, <1>10, <1>11, <1>12, <1>13, <1>14, <1>15
     DEF Next, CloseStep, RequestStep, LoopStep

-----------------------------------------------------------------------------
(* Connections                                                              *)

\* A request that was received stays one, of the same connection.
LEMMA SameConnection ==
    ASSUME TypeOK, RequestsInv, Next, NEW q \in Reqs, req[q].at \notin {"free", "sent"}
    PROVE  /\ req'[q].peer = req[q].peer /\ req'[q].conn = req[q].conn
           /\ req'[q].at \notin {"free", "sent"}
<1>1. ASSUME req' # req
      PROVE  \/ \E p \in Peers, kind \in {"observe", "cancel"} : Send(p, kind)
             \/ \E r \in Reqs : Duplicate(r) \/ ServeCOAP(r) \/ RequestStep(r)
  BY <1>1 DEF Next, DeleteAndCloseDevice, Shutdown, CloseStep, CloseManager, Tell, CloseResources,
     CloseAndDeleteResource, Disconnect, NotifySubscriptions, NotifySend, LoopStep,
     SubscriptionHandler, SubscriptionHandlerReturns, LoopStops, NotifySubscription, NotifyError,
     ConnectionDone
<1>2. ASSUME NEW p \in Peers, NEW kind \in {"observe", "cancel"}, Send(p, kind) PROVE req'[q] = req[q]
  BY <1>2, SendMoves DEF Others
<1>3. ASSUME NEW r \in Reqs, Duplicate(r) PROVE req'[q] = req[q]
  BY <1>3, DuplicateMoves DEF Others
<1>4. ASSUME NEW r \in Reqs, ServeCOAP(r) PROVE req'[q] = req[q]
  <2>1. req[r].at = "sent"
    BY <1>4 DEF ServeCOAP
  <2>2. req[r].peer \in Peers
    BY <2>1 DEF RequestsInv, RequestInv
  <2>3. Others(r)
    BY <1>4, <2>2, ServeMoves DEF Refused, Accepted, Moves
  <2> QED
    BY <2>1, <2>3 DEF Others
<1>5. ASSUME NEW r \in Reqs, RequestStep(r)
      PROVE  /\ Others(r) /\ req'[r].peer = req[r].peer /\ req'[r].conn = req[r].conn
             /\ req'[r].at \notin {"free", "sent"}
  <2>1. CASE CreateSubscription(r)
    BY <2>1, GotoMoves DEF CreateSubscription, Moves, Identity, Labels
  <2>2. CASE GetHandler(r)
    BY <2>2, GetMoves DEF Moves, Identity
  <2>3. CASE Replace(r) \/ Cancel(r)
    BY <2>3, GotoMoves, OkMoves DEF Replace, Cancel, Moves, Identity, Labels
  <2>4. CASE Answer(r)
    BY <2>4, DoneMoves DEF Answer, Moves
  <2> QED
    BY <1>5, <2>1, <2>2, <2>3, <2>4 DEF RequestStep
<1>6. ASSUME NEW r \in Reqs, RequestStep(r), r # q PROVE req'[q] = req[q]
  BY <1>5, <1>6 DEF Others
<1> QED
  BY <1>1, <1>2, <1>3, <1>4, <1>5, <1>6

\* A connection that is over stays over, and only Disconnect ends one.
LEMMA LiveStep ==
    ASSUME TypeOK, RequestsInv, Next, NEW q \in Reqs, req[q].at \notin {"free", "sent"}
    PROVE  /\ Live(q)' => Live(q)
           /\ Live(q) => Live(q)' \/ Disconnect(req[q].peer)
<1> DEFINE p == req[q].peer
<1>1. req'[q].peer = p /\ req'[q].conn = req[q].conn /\ p \in Peers /\ req[q].conn <= conn[p]
  BY SameConnection DEF RequestsInv, RequestInv
<1>2. conn \in [Peers -> 0..MaxConns] /\ req[q].conn \in Int /\ alive \in [Peers -> BOOLEAN]
  BY TypesOf DEF TypeOK, Request
<1>3. CASE UNCHANGED <<conn, alive>>
  BY <1>1, <1>3 DEF Live
<1>4. ASSUME NEW r \in Reqs, ServeCOAP(r) PROVE (Live(q)' => Live(q)) /\ (Live(q) => Live(q)')
  <2>1. req[r].at = "sent"
    BY <1>4 DEF ServeCOAP
  <2>2. req[r].peer \in Peers
    BY <2>1 DEF RequestsInv, RequestInv
  <2>3. /\ alive[p] => alive'[p] /\ conn'[p] = conn[p]
        /\ ~alive[p] /\ alive'[p] => conn'[p] > conn[p]
        /\ conn' \in [Peers -> 0..MaxConns]
    BY <1>1, <1>4, <2>2, ServeMoves
  <2>4. conn[p] \in Int /\ conn'[p] \in Int
    BY <1>1, <1>2, <2>3
  <2> QED
    BY <1>1, <1>2, <2>3, <2>4 DEF Live
<1>5. ASSUME NEW x \in Peers, Disconnect(x)
      PROVE  (Live(q)' => Live(q)) /\ (Live(q) => Live(q)' \/ x = p)
  BY <1>1, <1>2, <1>5 DEF Disconnect, Live
<1>6. \/ UNCHANGED <<conn, alive>>
      \/ \E r \in Reqs : ServeCOAP(r)
      \/ \E x \in Peers : Disconnect(x)
  BY DEF Next, DeleteAndCloseDevice, Shutdown, CloseStep, CloseManager, Tell, CloseResources,
     CloseAndDeleteResource, NotifySubscriptions, NotifySend, LoopStep, Send, Duplicate,
     RequestStep, CreateSubscription, GetHandler, Replace, Cancel, Answer,
     SubscriptionHandler, SubscriptionHandlerReturns, LoopStops, NotifySubscription, NotifyError,
     ConnectionDone, peerVars
<1> QED
  BY <1>3, <1>4, <1>5, <1>6

\* Of two connections of a peer the one that is over is the earlier.
LEMMA EarlierConnection ==
    ASSUME TypeOK, RequestsInv, NEW q \in Reqs, NEW r \in Reqs, req[q].at # "free",
           req[q].peer = req[r].peer, ~Live(q), Live(r)
    PROVE  req[r].conn > req[q].conn
<1>1. req[q].conn \in Int /\ req[r].conn \in Int
  BY TypesOf DEF Request
<1>2. req[q].conn <= req[r].conn
  BY DEF RequestsInv, RequestInv, Live
<1>3. req[q].conn # req[r].conn
  BY DEF Live
<1> QED
  BY <1>1, <1>2, <1>3

-----------------------------------------------------------------------------
(* What a peer was told is so                                               *)

LEMMA InitTold == Init => ToldInv
<1> SUFFICES ASSUME Init PROVE ToldInv
  OBVIOUS
<1>1. \A q \in Reqs : req[q].at = "free"
  BY DEF Init, NoRequest
<1>2. \A p \in Peers : status[p] = "unknown"
  BY DEF Init
<1> QED
  BY <1>1, <1>2 DEF ToldInv, PeerInv

\* A step leaves the subscriptions of x alone, or takes one that is not live,
\* or is noted as a theft.
QuietFor(x) ==
    /\ stolen[x] => stolen'[x]
    /\ \A r \in subscriptions' : req'[r].peer = x => r \in subscriptions /\ req[r].peer = x
    /\ \A r \in Reqs : r = createdSubscription[x] /\ Live(r) /\ ~stolen'[x] =>
          createdSubscription'[x] = r /\ (r \in subscriptions => r \in subscriptions')

LEMMA QuietKept ==
    ASSUME NEW x \in Peers, UNCHANGED <<stolen, subscriptions, createdSubscription>>,
           \A r \in subscriptions : req'[r].peer = req[r].peer
    PROVE  QuietFor(x)
  BY DEF QuietFor

LEMMA PeerKept ==
    ASSUME TypeOK, NEW x \in Peers, PeerInv(x), QuietFor(x), status'[x] = status[x],
           dialog'[x] \in {dialog[x], None}, UNCHANGED <<closed, closer>>,
           \A r \in Reqs : r = createdSubscription[x] /\ Live(r) /\ ~stolen'[x] =>
              Live(r)' /\ (r \in telling => r \in telling')
    PROVE  PeerInv(x)'
<1>0. createdSubscription[x] \in Reqs \union {None}
  BY DEF TypeOK
<1>1. ASSUME status[x] = "observed", ~stolen'[x] PROVE Served(x)'
  <2>1. ~stolen[x] /\ Served(x)
    BY <1>1 DEF QuietFor, PeerInv
  <2>2. PICK r \in Reqs : r = createdSubscription[x] /\ Live(r)
    BY <1>0, <2>1 DEF Served
  <2>3. createdSubscription'[x] = r /\ Live(r)' /\ r # None
        /\ (r \in subscriptions => r \in subscriptions') /\ (r \in telling => r \in telling')
    BY <1>1, <2>1, <2>2 DEF QuietFor, Served
  <2>4. createdSubscription'[x] # None /\ Live(createdSubscription[x])'
    <3> SUFFICES Live(r)' /\ createdSubscription'[x] = r /\ r # None
      BY <2>3 DEF Live
    <3> QED
      BY <2>3
  <2> QED
    BY <2>1, <2>2, <2>3, <2>4 DEF Served
<1>2. status[x] = "cancelled" => Unsubscribed(x)'
  BY DEF PeerInv, Unsubscribed, QuietFor
<1> QED
  BY <1>1, <1>2 DEF PeerInv

LEMMA AnswerKept ==
    ASSUME NEW r \in Reqs, NEW x, x = req[r].peer, AnswerInv(r), QuietFor(x), req'[r] = req[r],
           dialog'[x] # None => dialog[x] # None, Live(r)' => Live(r), closed => closed',
           closer' \in {"open", "td"} => closer \in {"open", "td"}
    PROVE  AnswerInv(r)'
<1> SUFFICES ASSUME dialog'[x] # None PROVE AnswerInv(r)'
  BY DEF AnswerInv
<1>1. req'[r].kind = "cancel" => Unsubscribed(x)'
  BY DEF AnswerInv, Unsubscribed, QuietFor
<1>2. ASSUME req'[r].kind = "observe", req'[r].ok, Live(r)', ~stolen'[x], ~closed',
             closer' \in {"open", "td"}
      PROVE  createdSubscription'[x] = r /\ r \in subscriptions'
  <2>1. createdSubscription[x] = r /\ r \in subscriptions /\ Live(r)
    BY <1>2 DEF AnswerInv, QuietFor
  <2> QED
    BY <1>2, <2>1 DEF QuietFor
<1>3. req'[r].peer = x
  OBVIOUS
<1> QED
  BY <1>1, <1>2, <1>3 DEF AnswerInv, Unsubscribed

\* removeSubscription on behalf of a connection that is over: the peer loses
\* nothing, unless it has another connection by now.  A failure is noted.
LEMMA RemoveQuiet ==
    ASSUME TypeOK, RequestsInv, StoreInv, NEW q \in Reqs, req[q].at # "free",
           NEW failed, failed \/ ~Live(q),
           RemoveSubscription(req[q].peer, req[q].conn, failed), req' = req, NEW x \in Peers
    PROVE  QuietFor(x)
<1> DEFINE p == req[q].peer
<1>0. p \in Peers /\ req[q].conn \in Int
  BY TypesOf DEF RequestsInv, RequestInv, Request
<1>1. /\ subscriptions' = subscriptions \ {createdSubscription[p]}
      /\ \A y \in Peers : y # p => createdSubscription'[y] = createdSubscription[y] /\ stolen'[y] = stolen[y]
      /\ stolen[p] \/ failed => stolen'[p]
      /\ createdSubscription[p] # None /\ req[createdSubscription[p]].conn > req[q].conn => stolen'[p]
  BY <1>0, RemoveEffect
<1>2. \A y \in Peers : \A r \in Reqs : r = createdSubscription[y] => req[r].peer = y /\ r # None
  BY NoneAssumption DEF StoreInv, Reqs
<1>3. CASE x = p
  <2>1. ASSUME NEW r \in Reqs, r = createdSubscription[p], Live(r) PROVE stolen'[p]
    <3>1. req[r].peer = p /\ r # None
      BY <1>0, <1>2, <2>1
    <3>2. ~Live(q) => req[r].conn > req[q].conn
      BY <2>1, <3>1, EarlierConnection
    <3> QED
      BY <1>1, <2>1, <3>1, <3>2
  <2> QED
    BY <1>1, <1>3, <2>1 DEF QuietFor
<1>4. CASE x # p
  <2>1. \A r \in Reqs : r = createdSubscription[x] => r # createdSubscription[p]
    BY <1>0, <1>2, <1>4
  <2> QED
    BY <1>1, <1>4, <2>1 DEF QuietFor
<1> QED
  BY <1>3, <1>4

\* The peer of a request that is being handled has been told nothing yet.
LEMMA NothingTold ==
    ASSUME TypeOK, RequestsInv, ToldInv, NEW q \in Reqs, Active(q)
    PROVE  status[req[q].peer] \notin {"observed", "cancelled"}
<1>1. req[q].peer \in Peers /\ req[q].mid \in Reqs
  BY DEF RequestsInv, RequestInv, Active, ActiveLabels, TypeOK
<1>2. req[q].mid # None
  BY <1>1, NoneAssumption DEF Reqs
<1>3. Sure(req[q].peer) => dialog[req[q].peer] # None
  BY <1>2 DEF RequestsInv, RequestInv
<1> QED
  BY <1>1, <1>3 DEF ToldInv, PeerInv, Sure

\* A step of goroutine q, which leaves the subscriptions of other peers alone.
LEMMA ToldByRequest ==
    ASSUME TypeOK, RequestsInv, StoreInv, ToldInv, Next, NEW q \in Reqs, Active(q),
           Others(q), req'[q].peer = req[q].peer,
           UNCHANGED <<dialog, status, conn, alive, closed, closer, telling>>,
           \A x \in Peers : x # req[q].peer => QuietFor(x),
           req'[q].at = "answer" => AnswerInv(q)'
    PROVE  ToldInv'
<1> DEFINE p == req[q].peer
<1>0. p \in Peers /\ createdSubscription \in [Peers -> Reqs \union {None}]
  BY DEF RequestsInv, RequestInv, Active, ActiveLabels, TypeOK
<1>1. \A r \in Reqs : req[r].at \notin {"free", "sent"} => (Live(r) <=> Live(r)')
  <2> SUFFICES ASSUME NEW r \in Reqs, req[r].at \notin {"free", "sent"} PROVE Live(r) <=> Live(r)'
    OBVIOUS
  <2>1. req'[r].peer = req[r].peer /\ req'[r].conn = req[r].conn
    BY SameConnection
  <2> QED
    BY <2>1 DEF Live
<1>2. ASSUME NEW x \in Peers PROVE PeerInv(x)'
  <2>1. CASE x = p
    BY <2>1, NothingTold DEF PeerInv
  <2>2. CASE x # p
    <3>1. \A r \in Reqs : r = createdSubscription[x] => req[r].at \notin {"free", "sent"}
      BY NoneAssumption DEF StoreInv, Through, Reqs
    <3>2. PeerInv(x) /\ QuietFor(x)
      BY <2>2 DEF ToldInv
    <3> QED
      BY <1>1, <3>1, <3>2, PeerKept
  <2> QED
    BY <2>1, <2>2
<1>3. ASSUME NEW r \in Reqs, req'[r].at = "answer" PROVE AnswerInv(r)'
  <2>1. CASE r = q
    BY <1>3, <2>1
  <2>2. CASE r # q
    <3>1. req'[r] = req[r] /\ req[r].at = "answer"
      BY <1>3, <2>2 DEF Others
    <3>2. CASE dialog[req[r].peer] = None
      BY <3>1, <3>2 DEF AnswerInv
    <3>3. CASE dialog[req[r].peer] # None
      <4>1. req[r].peer # p /\ req[r].peer \in Peers
        BY <2>2, <3>1, <3>3 DEF RequestsInv, RequestInv, OneActive, Active, ActiveLabels, Sure
      <4>2. AnswerInv(r) /\ QuietFor(req[r].peer)
        BY <3>1, <4>1 DEF ToldInv
      <4>3. Live(r)' => Live(r)
        BY <1>1, <3>1
      <4> QED
        BY <3>1, <3>3, <4>2, <4>3, AnswerKept
    <3> QED
      BY <3>2, <3>3
  <2> QED
    BY <2>1, <2>2
<1> QED
  BY <1>2, <1>3 DEF ToldInv

\* A step that leaves the subscriptions of all peers alone, and tells them
\* nothing but that they do not observe.
LEMMA ToldByOther ==
    ASSUME TypeOK, RequestsInv, StoreInv, ToldInv, Next, req' = req,
           UNCHANGED <<dialog, conn, alive, closed, closer>>,
           \A x \in Peers : status'[x] \in {status[x], "unknown"},
           \A x \in Peers : QuietFor(x),
           \A x \in Peers : \A r \in Reqs : r = createdSubscription[x] /\ Live(r) /\ ~stolen'[x] =>
              (r \in telling => r \in telling')
    PROVE  ToldInv'
<1>1. \A r \in Reqs : Live(r) <=> Live(r)'
  BY DEF Live
<1>2. ASSUME NEW x \in Peers PROVE PeerInv(x)'
  <2>1. CASE status'[x] = "unknown"
    BY <2>1 DEF PeerInv
  <2>2. CASE status'[x] = status[x]
    BY <1>1, <2>2, PeerKept DEF ToldInv
  <2> QED
    BY <2>1, <2>2
<1>3. ASSUME NEW r \in Reqs, req'[r].at = "answer" PROVE AnswerInv(r)'
  <2>1. AnswerInv(r) /\ req[r].peer \in Peers
    BY <1>3 DEF ToldInv, RequestsInv, RequestInv
  <2> QED
    BY <1>1, <2>1, AnswerKept
<1> QED
  BY <1>2, <1>3 DEF ToldInv

\* A step that receives, sends or copies a request q that had not been
\* received yet.
LEMMA ToldByEarly ==
    ASSUME TypeOK, RequestsInv, StoreInv, ToldInv, Next, NEW q \in Reqs, Others(q),
           req[q].at \in {"free", "sent"}, req'[q].at # "answer",
           UNCHANGED <<devVars, subVars, stolen>>, NEW p \in Peers,
           \A x \in Peers : x # p => status'[x] = status[x] /\ dialog'[x] = dialog[x],
           \/ status'[p] = "unknown"
           \/ status'[p] = status[p] /\ dialog'[p] \in {dialog[p], None},
           \A r \in Reqs : req[r].at = "answer" /\ req[r].peer = p /\ dialog'[p] # None =>
              dialog[p] # None,
           \A x \in Peers : ~Disconnect(x)
    PROVE  ToldInv'
<1>0. /\ subscriptions \subseteq Reqs /\ createdSubscription \in [Peers -> Reqs \union {None}]
      /\ None \notin Reqs /\ dialog \in [Peers -> Reqs \union {None}]
  BY TypesOf, NoneAssumption DEF TypeOK, Reqs
<1>1. \A r \in Reqs : req[r].at \notin {"free", "sent"} => req'[r] = req[r]
  BY DEF Others
<1>2. ASSUME NEW r \in Reqs, req[r].at \notin {"free", "sent"} PROVE Live(r) <=> Live(r)'
  <2>1. req[r].peer \in Peers
    BY <1>2 DEF RequestsInv, RequestInv
  <2> QED
    BY <1>2, <2>1, LiveStep
<1>3. \A r \in subscriptions : req[r].at \notin {"free", "sent"}
  BY DEF StoreInv, SubscriptionInv, Registering, Through
<1>4. \A x \in Peers : QuietFor(x)
  BY <1>0, <1>1, <1>3, QuietKept DEF subVars
<1>5. \A x \in Peers : \A r \in Reqs : r = createdSubscription[x] => req[r].at \notin {"free", "sent"}
  BY <1>0 DEF StoreInv, Through
<1>6. ASSUME NEW x \in Peers PROVE PeerInv(x)'
  <2>1. CASE status'[x] = "unknown"
    BY <2>1 DEF PeerInv
  <2>2. CASE status'[x] = status[x] /\ dialog'[x] \in {dialog[x], None}
    <3>1. PeerInv(x) /\ QuietFor(x)
      BY <1>4 DEF ToldInv
    <3>2. \A r \in Reqs : r = createdSubscription[x] => (Live(r) => Live(r)') /\ (r \in telling => r \in telling')
      BY <1>2, <1>5 DEF devVars
    <3> QED
      BY <2>2, <3>1, <3>2, PeerKept DEF devVars
  <2> QED
    BY <2>1, <2>2
<1>7. ASSUME NEW r \in Reqs, req'[r].at = "answer" PROVE AnswerInv(r)'
  <2>1. req'[r] = req[r] /\ req[r].at = "answer"
    BY <1>7 DEF Others
  <2>2. AnswerInv(r) /\ req[r].peer \in Peers /\ (Live(r)' => Live(r))
    BY <1>2, <2>1 DEF ToldInv, RequestsInv, RequestInv
  <2>3. dialog'[req[r].peer] # None => dialog[req[r].peer] # None
    BY <2>1, <2>2
  <2> QED
    BY <1>4, <2>1, <2>2, <2>3, AnswerKept DEF devVars
<1> QED
  BY <1>6, <1>7 DEF ToldInv

LEMMA ToldSend ==
    ASSUME TypeOK, RequestsInv, StoreInv, ToldInv, Next,
           NEW p \in Peers, NEW kind \in {"observe", "cancel"}, Send(p, kind)
    PROVE  ToldInv'
<1>0. /\ dialog \in [Peers -> Reqs \union {None}] /\ alive \in [Peers -> BOOLEAN]
      /\ status \in [Peers -> {"unknown", "observed", "cancelled", "silent"}]
  BY DEF TypeOK
<1>1. PICK f \in Reqs : f = NextFree /\ req[f].at = "free" /\ Others(f) /\ req'[f].at = "sent"
  BY SendMoves
<1>2. /\ status'[p] = "unknown" /\ UNCHANGED <<devVars, subVars, stolen, alive>>
      /\ \A x \in Peers : x # p => status'[x] = status[x] /\ dialog'[x] = dialog[x]
  BY <1>0 DEF Send, ghosts
<1>3. \A x \in Peers : ~Disconnect(x)
  BY <1>0, <1>2 DEF Disconnect
<1>4. UnderWay(p) # {} => dialog'[p] = None
  BY <1>0 DEF Send
<1>5. ASSUME NEW r \in Reqs, req[r].at = "answer", req[r].peer = p PROVE dialog'[p] = None
  BY <1>4, <1>5 DEF UnderWay
<1> QED
  BY <1>1, <1>2, <1>3, <1>5, ToldByEarly

LEMMA ToldDuplicate ==
    ASSUME TypeOK, RequestsInv, StoreInv, ToldInv, Next, NEW q \in Reqs, Duplicate(q)
    PROVE  ToldInv'
<1>0. alive \in [Peers -> BOOLEAN] /\ req[q].peer \in Peers
  BY DEF TypeOK, RequestsInv, RequestInv, Duplicate
<1>1. PICK f \in Reqs : f = NextFree /\ req[f].at = "free" /\ Others(f) /\ req'[f].at = "sent"
  BY DuplicateMoves
<1>2. UNCHANGED <<status, dialog, devVars, subVars, stolen, alive>>
  BY DEF Duplicate, ghosts, peerVars
<1>3. \A x \in Peers : ~Disconnect(x)
  BY <1>0, <1>2 DEF Disconnect
<1> QED
  BY <1>0, <1>1, <1>2, <1>3, ToldByEarly

LEMMA ToldServe ==
    ASSUME TypeOK, RequestsInv, StoreInv, ToldInv, Next, NEW q \in Reqs, ServeCOAP(q)
    PROVE  ToldInv'
<1>0. alive \in [Peers -> BOOLEAN] /\ req[q].at = "sent" /\ req[q].peer \in Peers
  BY DEF TypeOK, RequestsInv, RequestInv, ServeCOAP
<1>1. /\ Refused(q) \/ Accepted(q)
      /\ \A p \in Peers : alive[p] => alive'[p]
  BY <1>0, ServeMoves
<1>2. UNCHANGED <<status, devVars, subVars, stolen>>
  BY DEF ServeCOAP, ghosts
<1>3. \A x \in Peers : ~Disconnect(x)
  BY <1>0, <1>1 DEF Disconnect
<1>4. /\ \A x \in Peers : x # req[q].peer => dialog'[x] = dialog[x]
      /\ dialog'[req[q].peer] \in {dialog[req[q].peer], None}
  BY <1>0, <1>1 DEF Refused, Accepted
<1>5. Others(q) /\ req'[q].at # "answer"
  BY <1>1 DEF Refused, Accepted, Moves
<1> QED
  BY <1>0, <1>2, <1>3, <1>4, <1>5, ToldByEarly

LEMMA ToldSteps ==
    ASSUME TypeOK, RequestsInv, StoreInv, ToldInv, Next, NEW q \in Reqs,
           CreateSubscription(q) \/ GetHandler(q) \/ Replace(q) \/ Cancel(q)
    PROVE  ToldInv'
<1> DEFINE p == req[q].peer
<1>0. /\ subscriptions \subseteq Reqs /\ createdSubscription \in [Peers -> Reqs \union {None}]
      /\ None \notin Reqs
  BY TypesOf, NoneAssumption DEF TypeOK, Reqs
<1>1. Active(q) /\ p \in Peers /\ req[q].conn \in Int
  <2>1. Active(q) /\ req[q].at # "free"
    BY DEF CreateSubscription, GetHandler, Replace, Cancel, Active, ActiveLabels
  <2> QED
    BY <2>1, TypesOf DEF RequestsInv, RequestInv, Request
<1>2. UNCHANGED <<dialog, status, conn, alive, closed, closer, telling>>
  BY DEF CreateSubscription, GetHandler, Replace, Cancel, peerVars, devVars
<1>c. \A x \in Peers : \A r \in Reqs :
         r = createdSubscription[x] => req[r].peer = x /\ req[r].at \in Through /\ r # None
  BY <1>0 DEF StoreInv
<1>3. CASE CreateSubscription(q)
  <2>1. Others(q) /\ req'[q].at = "get" /\ req'[q].peer = p
    BY <1>3, GotoMoves DEF CreateSubscription, Moves, Labels
  <2>2. UNCHANGED <<stolen, createdSubscription>> /\ subscriptions' = subscriptions \union {q}
    BY <1>3 DEF CreateSubscription, ghosts
  <2>3. \A x \in Peers : x # p => QuietFor(x)
    BY <1>0, <2>1, <2>2 DEF QuietFor, Others
  <2> QED
    BY <1>1, <1>2, <2>1, <2>3, ToldByRequest
<1>4. CASE GetHandler(q)
  <2>1. req[q].at = "get" /\ UNCHANGED <<stolen, createdSubscription>>
    BY <1>4 DEF GetHandler, ghosts
  <2>2. \/ /\ Moves(q, "replace") /\ subscriptions' = subscriptions
        \/ /\ Moves(q, "answer") /\ Identity(q) /\ req'[q].ok = req[q].ok
           /\ subscriptions' = subscriptions \ {q}
    BY <1>4, GetMoves
  <2>3. Others(q) /\ req'[q].peer = p /\ subscriptions' \in {subscriptions, subscriptions \ {q}}
    BY <2>2 DEF Moves
  <2>4. \A x \in Peers : QuietFor(x)
    BY <1>0, <1>c, <2>1, <2>3 DEF QuietFor, Others, Through
  <2>5. ASSUME req'[q].at = "answer" PROVE AnswerInv(q)'
    <3>1. req'[q].kind = "observe" /\ req'[q].ok = req[q].ok
      BY <2>1, <2>2, <2>5 DEF Moves, Identity, RequestsInv, RequestInv
    <3>2. ~req[q].ok
      BY <2>1 DEF RequestsInv, RequestInv
    <3> QED
      BY <3>1, <3>2 DEF AnswerInv
  <2> QED
    BY <1>1, <1>2, <2>3, <2>4, <2>5, ToldByRequest
<1>5. CASE Replace(q)
  <2>1. /\ Others(q) /\ req'[q].at = "answer" /\ req'[q].peer = p
        /\ req'[q].kind = req[q].kind /\ req[q].kind = "observe" /\ req[q].at = "replace"
    BY <1>5, GotoMoves DEF Replace, Moves, Identity, RequestsInv, RequestInv, Labels
  <2>2. /\ subscriptions' = subscriptions \ {createdSubscription[p]}
        /\ createdSubscription'[p] = q
        /\ \A x \in Peers : x # p => createdSubscription'[x] = createdSubscription[x]
    BY <1>0, <1>1, <1>5 DEF Replace
  <2>3. \A x \in Peers : x # p => stolen'[x] = stolen[x]
    BY <1>1, <1>5 DEF Replace, TypeOK
  <2>4. ASSUME NEW x \in Peers, x # p PROVE QuietFor(x)
    BY <1>0, <1>1, <1>c, <2>1, <2>2, <2>3, <2>4 DEF QuietFor, Others
  <2>5. AnswerInv(q)'
    <3>1. closer \in {"open", "td"} => q \in subscriptions
      BY <2>1 DEF StoreInv, Registering
    <3>2. q # createdSubscription[p]
      BY <1>1, <1>c, <2>1 DEF Through
    <3> QED
      BY <1>2, <2>1, <2>2, <3>1, <3>2 DEF AnswerInv
  <2> QED
    BY <1>1, <1>2, <2>1, <2>4, <2>5, ToldByRequest
<1>6. CASE Cancel(q)
  <2>0. req[q].at = "remove" /\ req[q].kind = "cancel"
    BY <1>6 DEF Cancel, RequestsInv, RequestInv
  <2>1. /\ Others(q) /\ req'[q].at = "answer" /\ req'[q].peer = p
        /\ req'[q].kind = "cancel" /\ req[q].at = "remove"
    BY <1>6, <2>0, OkMoves DEF Cancel, Moves, Identity
  <2>2. /\ subscriptions' = subscriptions \ {createdSubscription[p]}
        /\ \A x \in Peers : x # p => createdSubscription'[x] = createdSubscription[x]
        /\ \A x \in Peers : x # p => stolen'[x] = stolen[x]
    BY <1>1, <1>6, RemoveEffect DEF Cancel
  <2>3. ASSUME NEW x \in Peers, x # p PROVE QuietFor(x)
    BY <1>0, <1>1, <1>c, <2>1, <2>2, <2>3 DEF QuietFor, Others
  <2>4. ASSUME dialog[p] # None PROVE Unsubscribed(p)'
    <3> SUFFICES ASSUME NEW s \in subscriptions', req'[s].peer = p PROVE FALSE
      BY <1>1, <2>1 DEF Unsubscribed
    <3>1. s \in subscriptions /\ s \in Reqs /\ s # createdSubscription[p] /\ SubscriptionInv(s)
      BY <1>0, <2>2 DEF StoreInv
    <3>2. req[s].peer = p
      BY <2>1, <3>1 DEF Others
    <3>3. req[s].at \in Registering
      BY <3>1, <3>2 DEF SubscriptionInv
    <3> QED
      BY <1>1, <2>1, <2>4, <3>1, <3>2, <3>3 DEF Registering, RequestsInv, OneActive, Active,
         ActiveLabels, Sure
  <2>5. AnswerInv(q)'
    BY <1>2, <2>1, <2>4 DEF AnswerInv, Unsubscribed
  <2> QED
    BY <1>1, <1>2, <2>1, <2>3, <2>5, ToldByRequest
<1> QED
  BY <1>3, <1>4, <1>5, <1>6

LEMMA ToldAnswer ==
    ASSUME TypeOK, RequestsInv, StoreInv, ToldInv, Next, NEW q \in Reqs, Answer(q)
    PROVE  ToldInv'
<1> DEFINE p == req[q].peer
<1>0. /\ req[q].at = "answer" /\ p \in Peers /\ req[q].kind \in {"observe", "cancel"}
      /\ dialog \in [Peers -> Reqs \union {None}] /\ subscriptions \subseteq Reqs
      /\ status \in [Peers -> {"unknown", "observed", "cancelled", "silent"}]
      /\ closer \in {"open", "td", "tell", "closed"}
  BY TypesOf DEF Answer, RequestsInv, RequestInv, TypeOK, Request
<1>1. Others(q) /\ req'[q].at = "done" /\ req'[q].peer = p
  BY DoneMoves DEF Answer, Moves
<1>2. UNCHANGED <<conn, alive, closed, closer, telling, subscriptions, createdSubscription, stolen>>
  BY DEF Answer, devVars, subVars
<1>3. /\ \A x \in Peers : x # p => dialog'[x] = dialog[x] /\ status'[x] = status[x]
      /\ dialog'[p] \in {dialog[p], None}
  BY <1>0 DEF Answer
<1>m. req[q].mid # None
  <2>1. RequestInv(q) /\ Active(q)
    BY <1>0 DEF RequestsInv, Active, ActiveLabels
  <2>2. req[q].mid \in Reqs
    BY <2>1 DEF RequestInv, TypeOK
  <2> QED
    BY <2>2, NoneAssumption DEF Reqs
<1>4. \/ status'[p] = status[p]
      \/ /\ dialog'[p] = None /\ dialog[p] # None /\ Live(q) /\ req[q].ok
         /\ \/ req[q].kind = "cancel" /\ status'[p] = "cancelled"
            \/ req[q].kind = "observe" /\ status'[p] = "silent"
            \/ /\ req[q].kind = "observe" /\ status'[p] = "observed"
               /\ ~closed /\ closer \in {"open", "td"}
  BY <1>0, <1>m DEF Answer
<1>5. \A r \in Reqs : req[r].at \notin {"free", "sent"} => (Live(r) <=> Live(r)')
  <2> SUFFICES ASSUME NEW r \in Reqs, req[r].at \notin {"free", "sent"} PROVE Live(r) <=> Live(r)'
    OBVIOUS
  <2>1. req'[r].peer = req[r].peer /\ req'[r].conn = req[r].conn
    BY SameConnection
  <2> QED
    BY <1>2, <2>1 DEF Live
<1>6. \A r \in Reqs : req'[r].peer = req[r].peer
  BY <1>1 DEF Others
<1>7. \A x \in Peers : QuietFor(x)
  BY <1>0, <1>2, <1>6, QuietKept
<1>8. \A x \in Peers : \A r \in Reqs : r = createdSubscription[x] => req[r].at \notin {"free", "sent"}
  BY NoneAssumption DEF StoreInv, Through, Reqs
<1>9. ASSUME NEW x \in Peers, status'[x] = status[x] PROVE PeerInv(x)'
  <2>1. PeerInv(x) /\ QuietFor(x) /\ dialog'[x] \in {dialog[x], None}
    BY <1>3, <1>7 DEF ToldInv
  <2> QED
    BY <1>2, <1>5, <1>8, <1>9, <2>1, PeerKept
<1>10. AnswerInv(q)
  BY <1>0 DEF ToldInv
<1>11. ASSUME NEW x \in Peers, x = p, status'[x] # status[x] PROVE PeerInv(x)'
  <2>1. CASE req[q].kind = "cancel" /\ status'[p] = "cancelled"
    <3>1. Unsubscribed(x)
      BY <1>4, <1>10, <1>11, <2>1 DEF AnswerInv
    <3>2. Unsubscribed(x)'
      BY <1>0, <1>2, <1>6, <3>1 DEF Unsubscribed
    <3> QED
      BY <1>4, <1>11, <2>1, <3>2 DEF PeerInv
  <2>2. CASE status'[p] = "silent"
    BY <1>4, <1>11, <2>2 DEF PeerInv
  <2>3. CASE /\ req[q].kind = "observe" /\ status'[p] = "observed"
             /\ ~closed /\ closer \in {"open", "td"}
    <3>1. req[q].ok /\ Live(q) /\ dialog'[p] = None /\ dialog[p] # None
      BY <1>4, <1>11
    <3>2. ASSUME ~stolen[x] PROVE createdSubscription[x] = q /\ q \in subscriptions
      BY <1>10, <1>11, <2>3, <3>1, <3>2 DEF AnswerInv
    <3>3. Live(q)'
      BY <1>0, <1>5, <3>1
    <3>4. q # None
      BY NoneAssumption DEF Reqs
    <3>5. ASSUME ~stolen'[x] PROVE Served(x)'
      <4>1. createdSubscription'[x] = q /\ q \in subscriptions'
        BY <1>2, <3>2, <3>5
      <4>2. Live(createdSubscription[x])'
        BY <3>3, <4>1 DEF Live
      <4> QED
        BY <1>2, <2>3, <3>4, <4>1, <4>2 DEF Served
    <3> QED
      BY <1>2, <1>11, <2>3, <3>1, <3>5 DEF PeerInv
  <2> QED
    BY <1>4, <1>11, <2>1, <2>2, <2>3
<1>12. ASSUME NEW x \in Peers PROVE PeerInv(x)'
  BY <1>3, <1>9, <1>11
<1>13. ASSUME NEW r \in Reqs, req'[r].at = "answer" PROVE AnswerInv(r)'
  <2>1. req'[r] = req[r] /\ req[r].at = "answer"
    BY <1>1, <1>13 DEF Others
  <2>2. AnswerInv(r) /\ req[r].peer \in Peers /\ (Live(r)' => Live(r))
    BY <1>5, <2>1 DEF ToldInv, RequestsInv, RequestInv
  <2>3. dialog'[req[r].peer] # None => dialog[req[r].peer] # None
    BY <1>3, <2>2
  <2> QED
    BY <1>2, <1>7, <2>1, <2>2, <2>3, AnswerKept
<1> QED
  BY <1>12, <1>13 DEF ToldInv

LEMMA ToldTell ==
    ASSUME TypeOK, RequestsInv, StoreInv, ToldInv, Next, NEW q \in Reqs, Tell(q) \/ NotifyError(q)
    PROVE  ToldInv'
<1> DEFINE p == req[q].peer
<1>0. /\ q \in telling \union subscriptions /\ ObserveError(q) /\ req' = req
      /\ telling \ {q} \subseteq telling' /\ UNCHANGED <<conn, alive, dialog, closer, closed>>
  BY DEF Tell, NotifyError, devVars
<1>1. req[q].at # "free" /\ p \in Peers /\ req[q].conn \in Int
  <2>1. req[q].at # "free"
    BY <1>0 DEF StoreInv, SubscriptionInv, Registering, Through
  <2> QED
    BY <2>1, TypesOf DEF RequestsInv, RequestInv, Request
<1>2. \A x \in Peers : status'[x] \in {status[x], "unknown"}
  BY <1>0, <1>1 DEF ObserveError, TypeOK
<1>3. RemoveSubscription(req[q].peer, req[q].conn, Live(q))
  BY <1>0 DEF ObserveError
<1>4. Live(q) => stolen'[p]
  BY <1>1, <1>3 DEF RemoveSubscription, TypeOK
<1>5. \A x \in Peers : QuietFor(x)
  <2>1. req[q].at # "free" /\ req' = req
    BY <1>0, <1>1
  <2> QED
    BY <1>3, <2>1, RemoveQuiet
<1>6. ASSUME NEW x \in Peers, NEW r \in Reqs, r = createdSubscription[x], Live(r), ~stolen'[x],
             r \in telling
      PROVE  r \in telling'
  <2>1. req[r].peer = x
    BY <1>6, NoneAssumption DEF StoreInv, Reqs
  <2>2. r # q
    BY <1>4, <1>6, <2>1
  <2> QED
    BY <1>0, <1>6, <2>2
<1> QED
  BY <1>0, <1>2, <1>5, <1>6, ToldByOther

LEMMA ToldClose ==
    ASSUME TypeOK, RequestsInv, StoreInv, ToldInv, Next,
           \/ DeleteAndCloseDevice \/ Shutdown \/ CloseManager \/ CloseResources
           \/ CloseAndDeleteResource
    PROVE  ToldInv'
<1>0. /\ UNCHANGED <<conn, alive, dialog, req, stolen, createdSubscription>>
      /\ subscriptions' \subseteq subscriptions
  BY DEF DeleteAndCloseDevice, Shutdown, CloseManager, CloseResources, CloseAndDeleteResource,
     peerVars, subVars, ghosts
<1>1. \A r : Live(r)' <=> Live(r)
  BY <1>0 DEF Live
<1>2. \A x \in Peers : Unsubscribed(x) => Unsubscribed(x)'
  BY <1>0 DEF Unsubscribed
<1>u. \A r \in Reqs : req[r].at = "answer" /\ req[r].kind = "cancel" /\ dialog[req[r].peer] # None =>
         Unsubscribed(req[r].peer)'
  <2> TAKE r \in Reqs
  <2>1. req[r].at = "answer" => req[r].peer \in Peers
    BY DEF RequestsInv, RequestInv
  <2> QED
    BY <1>0, <2>1 DEF ToldInv, AnswerInv, Unsubscribed
<1>s. \A x \in Peers : Live(createdSubscription[x])' <=> Live(createdSubscription[x])
  BY <1>0 DEF Live
<1>3. CASE DeleteAndCloseDevice \/ Shutdown
  <2>1. /\ closer = "open" /\ closer' = "td"
        /\ UNCHANGED <<status, closed, telling, subscriptions>>
    BY <1>3 DEF DeleteAndCloseDevice, Shutdown, LoadDevice, peerVars, subVars
  <2>2. \A x \in Peers : Served(x) => Served(x)'
    BY <1>0, <1>s, <2>1 DEF Served
  <2>3. \A x \in Peers : PeerInv(x)'
    BY <1>0, <1>2, <2>1, <2>2 DEF ToldInv, PeerInv
  <2>4. \A r \in Reqs : req[r].at = "answer" => AnswerInv(r)'
    BY <1>0, <1>1, <1>u, <2>1 DEF ToldInv, AnswerInv
  <2> QED
    BY <1>0, <2>3, <2>4 DEF ToldInv
<1>4. CASE CloseManager
  <2>1. /\ closer = "td" /\ closer' = "tell" /\ telling' = subscriptions
        /\ UNCHANGED <<status, closed>>
    BY <1>4 DEF CloseManager, peerVars
  <2>2. \A x \in Peers : Served(x) => Served(x)'
    BY <1>0, <1>s, <2>1 DEF Served
  <2>3. \A x \in Peers : PeerInv(x)'
    BY <1>0, <1>2, <2>1, <2>2 DEF ToldInv, PeerInv
  <2>4. \A r \in Reqs : req[r].at = "answer" => AnswerInv(r)'
    BY <1>0, <1>u, <2>1 DEF AnswerInv
  <2> QED
    BY <1>0, <2>3, <2>4 DEF ToldInv
<1>5. CASE CloseResources
  <2>1. closer = "tell" /\ telling = {} /\ closer' = "closed" /\ UNCHANGED status
    BY <1>5 DEF CloseResources, peerVars
  <2>2. \A x \in Peers : ~Served(x)
    BY <2>1 DEF Served
  <2>3. \A x \in Peers : PeerInv(x)'
    BY <1>0, <1>2, <2>1, <2>2 DEF ToldInv, PeerInv
  <2>4. \A r \in Reqs : req[r].at = "answer" => AnswerInv(r)'
    BY <1>0, <1>u, <2>1 DEF AnswerInv
  <2> QED
    BY <1>0, <2>3, <2>4 DEF ToldInv
<1>6. CASE CloseAndDeleteResource
  <2>1. closed' /\ \A x \in Peers : status'[x] # "observed" /\ (status'[x] = "cancelled" => status[x] = "cancelled")
    BY <1>6 DEF CloseAndDeleteResource
  <2>3. \A x \in Peers : PeerInv(x)'
    BY <1>0, <1>2, <2>1 DEF ToldInv, PeerInv
  <2>4. \A r \in Reqs : req[r].at = "answer" => AnswerInv(r)'
    BY <1>0, <1>u, <2>1 DEF AnswerInv
  <2> QED
    BY <1>0, <2>3, <2>4 DEF ToldInv
<1> QED
  BY <1>3, <1>4, <1>5, <1>6

LEMMA ToldDisconnect ==
    ASSUME TypeOK, RequestsInv, StoreInv, ToldInv, Next, NEW p \in Peers, Disconnect(p)
    PROVE  ToldInv'
<1>0. /\ status'[p] = "unknown" /\ \A x \in Peers : x # p => status'[x] = status[x]
      /\ \A x \in Peers : x # p => alive'[x] = alive[x]
      /\ UNCHANGED <<conn, dialog, req, closed, closer, telling, subscriptions,
                     createdSubscription, stolen>>
  BY DEF Disconnect, TypeOK, devVars, subVars, ghosts
<1>1. \A x \in Peers : QuietFor(x)
  BY <1>0, QuietKept
<1>c. \A x \in Peers : \A r \in Reqs : r = createdSubscription[x] => req[r].peer = x /\ r # None
  BY NoneAssumption DEF StoreInv, Reqs
<1>2. ASSUME NEW x \in Peers PROVE PeerInv(x)'
  <2>1. CASE x = p
    BY <1>0, <2>1 DEF PeerInv
  <2>2. CASE x # p
    <3>1. \A r \in Reqs : r = createdSubscription[x] => (Live(r) => Live(r)')
      BY <1>0, <1>c, <2>2 DEF Live
    <3>2. PeerInv(x) /\ QuietFor(x)
      BY <1>1 DEF ToldInv
    <3> QED
      BY <1>0, <2>2, <3>1, <3>2, PeerKept
  <2> QED
    BY <2>1, <2>2
<1>3. ASSUME NEW r \in Reqs, req'[r].at = "answer" PROVE AnswerInv(r)'
  <2>1. AnswerInv(r) /\ req[r].peer \in Peers /\ req[r].at = "answer"
    BY <1>0, <1>3 DEF ToldInv, RequestsInv, RequestInv
  <2>2. Live(r)' => Live(r)
    BY <2>1, LiveStep
  <2> QED
    BY <1>0, <1>1, <2>1, <2>2, AnswerKept
<1> QED
  BY <1>2, <1>3 DEF ToldInv

LEMMA NextTold ==
    ASSUME TypeOK, RequestsInv, StoreInv, ToldInv, Next
    PROVE  ToldInv'
<1>t. \A q \in subscriptions \union watched : q \in Reqs /\ req[q].at # "free"
  BY TypesOf DEF StoreInv, SubscriptionInv, Registering, Through
<1>1. ASSUME NEW q \in Reqs, NotifySubscription(q) PROVE ToldInv'
  <2>1. /\ q \in subscriptions /\ req' = req
        /\ UNCHANGED <<dialog, status, conn, alive, closed, closer, telling>>
    BY <1>1 DEF NotifySubscription, peerVars, devVars
  <2>2. \/ RemoveSubscription(req[q].peer, req[q].conn, Live(q))
        \/ UNCHANGED <<stolen, subscriptions, createdSubscription>>
    BY <1>1 DEF NotifySubscription
  <2>3. \A x \in Peers : QuietFor(x)
    BY <1>t, <2>1, <2>2, RemoveQuiet, QuietKept
  <2> QED
    BY <2>1, <2>3, ToldByOther
<1>2. ASSUME NEW q \in Reqs, ConnectionDone(q) PROVE ToldInv'
  <2>1. /\ q \in watched /\ req' = req /\ ~Live(q) /\ RemoveSubscription(req[q].peer, req[q].conn, FALSE)
        /\ UNCHANGED <<dialog, status, conn, alive, closed, closer, telling>>
    BY <1>2 DEF ConnectionDone, peerVars, devVars
  <2>2. \A x \in Peers : QuietFor(x)
    BY <1>t, <2>1, RemoveQuiet
  <2> QED
    BY <2>1, <2>2, ToldByOther
<1>3. CASE NotifySubscriptions \/ NotifySend \/ SubscriptionHandler \/ SubscriptionHandlerReturns \/ LoopStops
  <2>1. UNCHANGED <<req, dialog, status, conn, alive, closed, closer, telling,
                    stolen, subscriptions, createdSubscription>>
    BY <1>3 DEF NotifySubscriptions, NotifySend, SubscriptionHandler, SubscriptionHandlerReturns,
       LoopStops, peerVars, devVars, subVars, ghosts
  <2>2. \A x \in Peers : QuietFor(x)
    BY <2>1, QuietKept
  <2> QED
    BY <2>1, <2>2, ToldByOther
<1> QED
  BY <1>1, <1>2, <1>3, ToldSend, ToldDuplicate, ToldServe, ToldSteps, ToldAnswer, ToldTell,
     ToldClose, ToldDisconnect DEF Next, CloseStep, RequestStep, LoopStep

-----------------------------------------------------------------------------
(* Every observer is sent the last description                              *)

LEMMA InitDelivery == Init => DeliveryInv
<1> SUFFICES ASSUME Init PROVE DeliveryInv
  OBVIOUS
<1>1. \A q \in Reqs : req[q].at = "free" /\ deduplicationNotification[q] = None
  BY DEF Init, NoRequest
<1> QED
  BY <1>1 DEF Init, DeliveryInv, NotesInv, Past

\* What is due stays due while the thing description manager and the loop do
\* nothing.
LEMMA DueKept ==
    ASSUME NEW q \in Reqs, Due(q), UNCHANGED <<value, lastTD, notifier, subChan, loop, td, todo, visited>>,
           sent \subseteq sent', req'[q] = req[q]
    PROVE  Due(q)'
  BY DEF Due, Pending

\* A step of anything but the manager and the loop, which touches request q.
LEMMA DeliveryKept ==
    ASSUME TypeOK, RequestsInv, StoreInv, DeliveryInv, Next,
           UNCHANGED <<tdVars, loop, td, todo, visited>>, sent \subseteq sent',
           closer' = "open" => closer = "open",
           NEW q \in Reqs, Others(q),
           \A r \in Reqs : r # q => deduplicationNotification'[r] = deduplicationNotification[r],
           NotesInv(q)',
           subscriptions' \subseteq subscriptions \union {q},
           q \in subscriptions' /\ Live(q)' /\ closer' = "open" =>
               NotedIsSent(q)' /\ (req'[q].at # "get" => Due(q)')
    PROVE  DeliveryInv'
<1>0. subscriptions \subseteq Reqs
  BY TypesOf
<1>1. Past(lastTD)' /\ Past(td)' /\ \A r \in Reqs : NotesInv(r)'
  BY DEF DeliveryInv, NotesInv, Past, tdVars, Others
<1>2. ASSUME NEW r \in subscriptions', closer' = "open", Live(r)'
      PROVE  NotedIsSent(r)' /\ (req'[r].at # "get" => Due(r)')
  <2>1. CASE r = q
    BY <1>2, <2>1
  <2>2. CASE r # q
    <3>1. r \in subscriptions /\ r \in Reqs /\ closer = "open" /\ req'[r] = req[r]
      BY <1>0, <1>2, <2>2 DEF Others
    <3>2. req[r].at \notin {"free", "sent"}
      BY <3>1 DEF StoreInv, SubscriptionInv, Registering, Through
    <3>3. Live(r)
      BY <1>2, <3>1, <3>2, LiveStep
    <3>4. NotedIsSent(r) /\ (req[r].at # "get" => Due(r))
      BY <3>1, <3>3 DEF DeliveryInv
    <3>5. NotedIsSent(r)'
      BY <2>2, <3>1, <3>4 DEF NotedIsSent, tdVars
    <3> QED
      BY <3>1, <3>4, <3>5, DueKept DEF tdVars
  <2> QED
    BY <2>1, <2>2
<1> QED
  BY <1>1, <1>2 DEF DeliveryInv

\* A step of anything but the manager and the loop, which touches no request.
LEMMA DeliverySame ==
    ASSUME TypeOK, RequestsInv, StoreInv, DeliveryInv, Next,
           UNCHANGED <<tdVars, loop, td, todo, visited, sent, req, deduplicationNotification>>,
           closer' = "open" => closer = "open", subscriptions' \subseteq subscriptions
    PROVE  DeliveryInv'
<1>0. subscriptions \subseteq Reqs
  BY TypesOf
<1>1. Past(lastTD)' /\ Past(td)' /\ \A r \in Reqs : NotesInv(r)'
  BY DEF DeliveryInv, NotesInv, Past, tdVars
<1>2. ASSUME NEW r \in subscriptions', closer' = "open", Live(r)'
      PROVE  NotedIsSent(r)' /\ (req'[r].at # "get" => Due(r)')
  <2>1. r \in subscriptions /\ r \in Reqs /\ closer = "open" /\ req'[r] = req[r]
    BY <1>0, <1>2
  <2>2. req[r].at \notin {"free", "sent"}
    BY <2>1 DEF StoreInv, SubscriptionInv, Registering, Through
  <2>3. Live(r)
    BY <1>2, <2>1, <2>2, LiveStep
  <2>4. NotedIsSent(r) /\ (req[r].at # "get" => Due(r))
    BY <2>1, <2>3 DEF DeliveryInv
  <2>5. NotedIsSent(r)'
    BY <2>1, <2>4 DEF NotedIsSent, tdVars
  <2> QED
    BY <2>1, <2>4, <2>5, DueKept DEF tdVars
<1> QED
  BY <1>1, <1>2 DEF DeliveryInv

LEMMA DeliveryByRequest ==
    ASSUME TypeOK, RequestsInv, StoreInv, DeliveryInv, Next, NEW q \in Reqs, RequestStep(q)
    PROVE  DeliveryInv'
<1>0. /\ subscriptions \subseteq Reqs /\ value \in Nat
      /\ deduplicationNotification \in [Reqs -> Versions \union {None, ErrorBody}]
  BY TypesOf DEF TypeOK, Versions
<1>1. /\ UNCHANGED <<tdVars, loop, td, todo, visited, closer>> /\ sent \subseteq sent'
      /\ req[q].at \in ActiveLabels
  BY DEF RequestStep, CreateSubscription, GetHandler, Replace, Cancel, Answer, Sent, loopVars,
     devVars, ghosts, ActiveLabels
<1>v. value' = value
  BY <1>1 DEF tdVars
<1>n. NotesInv(q)
  BY DEF DeliveryInv
<1>l. Live(q)' => Live(q)
  BY <1>1, LiveStep DEF ActiveLabels
<1>d. q \in subscriptions /\ closer = "open" /\ Live(q) => NotedIsSent(q) /\ (req[q].at # "get" => Due(q))
  BY DEF DeliveryInv
<1>2. CASE CreateSubscription(q)
  <2>1. Others(q) /\ req'[q].at = "get"
    BY <1>2, GotoMoves DEF CreateSubscription, Moves, Labels
  <2>2. /\ deduplicationNotification' = deduplicationNotification /\ req[q].at = "subscribe"
        /\ subscriptions' = subscriptions \union {q}
    BY <1>2 DEF CreateSubscription
  <2>3. deduplicationNotification[q] = None /\ None # value
    BY <1>0, <1>n, <2>2, NoneAssumption DEF NotesInv, TypeOK, Versions
  <2>4. NotedIsSent(q)' /\ NotesInv(q)'
    BY <1>v, <2>1, <2>2, <2>3 DEF NotedIsSent, NotesInv, Past
  <2> QED
    BY <1>1, <2>1, <2>2, <2>4, DeliveryKept
<1>3. CASE GetHandler(q)
  <2>1. req[q].at = "get" /\ deduplicationNotification' = deduplicationNotification /\ sent' = sent
    BY <1>3 DEF GetHandler, ghosts
  <2>2. /\ Others(q)
        /\ \/ req'[q].at = "replace" /\ req'[q].body = value /\ subscriptions' = subscriptions
           \/ req'[q].at = "answer" /\ subscriptions' = subscriptions \ {q}
    BY <1>3, GetMoves DEF Moves
  <2>3. NotesInv(q)'
    BY <1>0, <1>n, <1>v, <2>1, <2>2 DEF NotesInv, Past
  <2>4. ASSUME q \in subscriptions', Live(q)', closer = "open"
        PROVE  NotedIsSent(q)' /\ Due(q)'
    BY <1>d, <1>l, <1>v, <2>1, <2>2, <2>4 DEF NotedIsSent, Due
  <2> QED
    BY <1>1, <2>1, <2>2, <2>3, <2>4, DeliveryKept
<1>4. CASE Replace(q)
  <2>1. /\ req[q].at = "replace" /\ sent' = sent /\ subscriptions' \subseteq subscriptions
        /\ deduplicationNotification' = [deduplicationNotification EXCEPT ![q] = Body(q)]
    BY <1>4 DEF Replace
  <2>2. Others(q) /\ req'[q].at = "answer" /\ req'[q].body = req[q].body
    BY <1>4, GotoMoves DEF Replace, Moves, Labels
  <2>b. Body(q) \in {req[q].body, -1} /\ value # -1 /\ -1 <= value
    BY <1>0 DEF Body, ErrorBody
  <2>3. /\ deduplicationNotification'[q] \in {req[q].body, -1}
        /\ \A r \in Reqs : r # q => deduplicationNotification'[r] = deduplicationNotification[r]
    BY <1>0, <2>1, <2>b
  <2>4. NotesInv(q)'
    BY <1>n, <1>v, <2>1, <2>2, <2>3, <2>b DEF NotesInv, Past
  <2>5. ASSUME q \in subscriptions', Live(q)', closer = "open"
        PROVE  NotedIsSent(q)' /\ Due(q)'
    <3>1. Due(q)
      BY <1>d, <1>l, <2>1, <2>5
    <3>2. Due(q)'
      BY <1>1, <1>v, <2>1, <2>2, <3>1 DEF Due, Pending, tdVars
    <3>3. NotedIsSent(q)'
      BY <1>v, <2>2, <2>3, <2>b DEF NotedIsSent
    <3> QED
      BY <3>2, <3>3
  <2> QED
    BY <1>1, <2>1, <2>2, <2>3, <2>4, <2>5, DeliveryKept
<1>5. CASE Cancel(q)
  <2>1. /\ req[q].at = "remove" /\ deduplicationNotification' = deduplicationNotification
        /\ subscriptions' \subseteq subscriptions
    BY <1>5 DEF Cancel, RemoveSubscription
  <2>2. Others(q) /\ req'[q].at = "answer"
    BY <1>5, OkMoves DEF Cancel, Moves
  <2>3. q \notin subscriptions
    BY <2>1 DEF StoreInv, SubscriptionInv, Registering, Through
  <2>4. NotesInv(q)'
    BY <1>n, <1>v, <2>1, <2>2 DEF NotesInv, Past
  <2> QED
    BY <1>1, <2>1, <2>2, <2>3, <2>4, DeliveryKept
<1>6. CASE Answer(q)
  <2>1. /\ req[q].at = "answer" /\ UNCHANGED <<subscriptions, deduplicationNotification>>
        /\ sent' = IF req[q].kind = "observe" THEN Sent(q, req[q].body) ELSE sent
    BY <1>6 DEF Answer, subVars
  <2>2. Others(q) /\ req'[q].at = "done"
    BY <1>6, DoneMoves DEF Answer, Moves
  <2>3. NotesInv(q)'
    BY <1>n, <1>v, <2>1, <2>2 DEF NotesInv, Past
  <2>4. ASSUME q \in subscriptions', Live(q)', closer = "open"
        PROVE  NotedIsSent(q)' /\ Due(q)'
    <3>1. Due(q) /\ NotedIsSent(q) /\ Live(q)
      BY <1>d, <1>l, <2>1, <2>4
    <3>2. req[q].kind = "observe"
      BY <2>1, <2>4 DEF StoreInv, SubscriptionInv, Registering
    <3>3. req[q].body = value => q \in sent'
      BY <2>1, <3>1, <3>2 DEF Sent
    <3>4. Due(q)'
      BY <1>1, <1>v, <2>2, <3>1, <3>3 DEF Due, Pending, tdVars
    <3>5. NotedIsSent(q)'
      BY <1>1, <1>v, <2>1, <3>1, <3>3 DEF NotedIsSent
    <3> QED
      BY <3>4, <3>5
  <2> QED
    BY <1>1, <2>1, <2>2, <2>3, <2>4, DeliveryKept
<1> QED
  BY <1>2, <1>3, <1>4, <1>5, <1>6 DEF RequestStep

\* A step that touches a request which nobody has begun to handle.
LEMMA DeliveryByEarly ==
    ASSUME TypeOK, RequestsInv, StoreInv, DeliveryInv, Next,
           UNCHANGED <<devVars, tdVars, subVars, loop, td, todo, visited, sent>>,
           NEW q \in Reqs, req[q].at \in {"free", "sent"}, Others(q),
           req'[q].at \in {"sent", "subscribe", "remove", "done"}
    PROVE  DeliveryInv'
<1>1. q \notin subscriptions'
  BY DEF StoreInv, SubscriptionInv, Registering, Through, subVars
<1>2. deduplicationNotification[q] = None /\ deduplicationNotification' = deduplicationNotification
  BY DEF DeliveryInv, NotesInv, subVars
<1>3. NotesInv(q)'
  BY <1>2 DEF NotesInv, Past
<1>4. subscriptions' = subscriptions /\ closer' = closer /\ sent' = sent
  BY DEF subVars, devVars
<1> QED
  BY <1>1, <1>2, <1>3, <1>4, DeliveryKept

LEMMA DeliveryByPeer ==
    ASSUME TypeOK, RequestsInv, StoreInv, DeliveryInv, Next,
           \/ \E p \in Peers, kind \in {"observe", "cancel"} : Send(p, kind)
           \/ \E q \in Reqs : Duplicate(q) \/ ServeCOAP(q)
    PROVE  DeliveryInv'
<1>1. ASSUME NEW p \in Peers, NEW kind \in {"observe", "cancel"}, Send(p, kind) PROVE DeliveryInv'
  <2>1. PICK f \in Reqs : req[f].at = "free" /\ Others(f) /\ req'[f].at = "sent"
    BY <1>1, SendMoves
  <2>2. UNCHANGED <<devVars, tdVars, subVars, loop, td, todo, visited, sent>>
    BY <1>1 DEF Send, loopVars, ghosts
  <2> QED
    BY <2>1, <2>2, DeliveryByEarly
<1>2. ASSUME NEW q \in Reqs, Duplicate(q) PROVE DeliveryInv'
  <2>1. PICK f \in Reqs : req[f].at = "free" /\ Others(f) /\ req'[f].at = "sent"
    BY <1>2, DuplicateMoves
  <2>2. UNCHANGED <<devVars, tdVars, subVars, loop, td, todo, visited, sent>>
    BY <1>2 DEF Duplicate, loopVars, ghosts
  <2> QED
    BY <2>1, <2>2, DeliveryByEarly
<1>3. ASSUME NEW q \in Reqs, ServeCOAP(q) PROVE DeliveryInv'
  <2>1. req[q].at = "sent" /\ UNCHANGED <<devVars, tdVars, subVars, loop, td, todo, visited, sent>>
    BY <1>3 DEF ServeCOAP, loopVars, ghosts
  <2>2. req[q].peer \in Peers
    BY <2>1 DEF RequestsInv, RequestInv
  <2>3. Refused(q) \/ Accepted(q)
    BY <1>3, <2>2, ServeMoves
  <2>4. Others(q) /\ req'[q].at \in {"subscribe", "remove", "done"}
    BY <2>3 DEF Refused, Accepted, Moves
  <2> QED
    BY <2>1, <2>4, DeliveryByEarly
<1> QED
  BY <1>1, <1>2, <1>3

\* Publishing a description: everybody is due, and is going to be notified.
LEMMA DeliveryByPublish ==
    ASSUME TypeOK, DeliveryInv, NotifySubscriptions
    PROVE  DeliveryInv'
<1>0. /\ value \in Nat /\ None \notin Int /\ subscriptions \subseteq Reqs
      /\ td \in Nat \union {None} /\ \A q \in Reqs : req[q] \in Request
      /\ \A q \in Reqs : deduplicationNotification[q] \in Int \union {None}
  BY TypesOf, NoneAssumption DEF TypeOK, Versions, ErrorBody
<1>1. /\ value' = value + 1 /\ lastTD' = value' /\ notifier' = "send"
      /\ UNCHANGED <<req, td, loop, subscriptions, deduplicationNotification>>
  BY DEF NotifySubscriptions, subVars, loopVars
<1>2. \A q \in Reqs : req[q].body \in Nat
  BY <1>0 DEF Request, Versions
<1>3. Past(td) /\ \A q \in Reqs : NotesInv(q)
  BY DEF DeliveryInv
<1>4. td # value' /\ Past(td)' /\ Past(lastTD)'
  BY <1>0, <1>1, <1>3 DEF Past
<1>5. ASSUME NEW q \in Reqs PROVE deduplicationNotification[q] # value' /\ NotesInv(q)'
  <2>1. Past(deduplicationNotification[q])
    BY <1>3 DEF NotesInv
  <2>2. deduplicationNotification[q] # value' /\ Past(deduplicationNotification[q])'
    BY <1>0, <1>1, <2>1 DEF Past
  <2>3. req[q].at = "replace" => Past(req[q].body)'
    BY <1>0, <1>1, <1>2, <1>3 DEF NotesInv, Past
  <2> QED
    BY <1>1, <1>3, <2>2, <2>3 DEF NotesInv
<1>6. ASSUME NEW q \in subscriptions' PROVE NotedIsSent(q)' /\ Due(q)'
  <2>1. q \in Reqs
    BY <1>0, <1>1
  <2>2. NotedIsSent(q)'
    BY <1>1, <1>5, <2>1 DEF NotedIsSent
  <2>3. Pending(q)'
    BY <1>1, <1>4 DEF Pending
  <2> QED
    BY <2>2, <2>3 DEF Due
<1> QED
  BY <1>4, <1>5, <1>6 DEF DeliveryInv

\* A step of the manager or the loop that changes no description and no
\* request keeps what is due, if it keeps what is pending.
LEMMA DeliveryByLoop ==
    ASSUME TypeOK, StoreInv, DeliveryInv,
           UNCHANGED <<value, req, conn, alive, closer, deduplicationNotification, subscriptions, sent>>,
           Past(lastTD)', Past(td)',
           \A q \in subscriptions : Pending(q) => Pending(q)'
    PROVE  DeliveryInv'
<1>1. \A q \in Reqs : NotesInv(q)'
  BY DEF DeliveryInv, NotesInv, Past
<1>2. ASSUME NEW q \in subscriptions', closer' = "open", Live(q)'
      PROVE  NotedIsSent(q)' /\ (req'[q].at # "get" => Due(q)')
  <2>1. q \in subscriptions /\ closer = "open" /\ Live(q)
    BY <1>2 DEF Live
  <2>2. NotedIsSent(q) /\ (req[q].at # "get" => Due(q))
    BY <2>1 DEF DeliveryInv
  <2>3. NotedIsSent(q)'
    BY <2>2 DEF NotedIsSent
  <2> QED
    BY <2>1, <2>2, <2>3 DEF Due
<1> QED
  BY <1>1, <1>2 DEF DeliveryInv

LEMMA DeliveryByHandler ==
    ASSUME TypeOK, StoreInv, DeliveryInv,
           NotifySend \/ SubscriptionHandler \/ SubscriptionHandlerReturns
    PROVE  DeliveryInv'
<1>0. value \in Nat /\ None \notin Nat /\ Past(lastTD) /\ Past(td)
  BY NoneAssumption DEF TypeOK, Versions, DeliveryInv
<1>1. UNCHANGED <<value, req, conn, alive, closer, deduplicationNotification, subscriptions, sent>>
  BY DEF NotifySend, SubscriptionHandler, SubscriptionHandlerReturns, peerVars, devVars, subVars, ghosts
<1>2. CASE NotifySend
  <2>1. subChan' /\ UNCHANGED <<lastTD, loop, td, todo, visited>>
    BY <1>2 DEF NotifySend, loopVars
  <2>2. \A q \in subscriptions : Pending(q) => Pending(q)'
    BY <1>1, <2>1 DEF Pending
  <2>3. Past(lastTD)' /\ Past(td)'
    BY <1>0, <1>1, <2>1 DEF Past
  <2> QED
    BY <1>1, <2>2, <2>3, DeliveryByLoop
<1>3. CASE SubscriptionHandler
  <2>1. /\ loop = "select" /\ td' = lastTD /\ lastTD' = lastTD
        /\ lastTD # None => loop' = "notify" /\ todo' = subscriptions /\ visited' = {}
    BY <1>3 DEF SubscriptionHandler
  <2>2. \A q \in subscriptions : Pending(q) => Pending(q)'
    BY <1>0, <1>1, <2>1 DEF Pending
  <2>3. Past(lastTD)' /\ Past(td)'
    BY <1>0, <1>1, <2>1 DEF Past
  <2> QED
    BY <1>1, <2>2, <2>3, DeliveryByLoop
<1>4. CASE SubscriptionHandlerReturns
  <2>1. /\ loop = "notify" /\ todo \intersect subscriptions \subseteq visited
        /\ lastTD' = (IF lastTD = td THEN None ELSE lastTD)
        /\ loop' = "select" /\ td' = None /\ UNCHANGED <<notifier, subChan>>
    BY <1>4 DEF SubscriptionHandlerReturns, ClearLastTD
  <2>2. ASSUME NEW q \in subscriptions, Pending(q) PROVE Pending(q)'
    <3>1. td # value
      BY <2>1, <2>2 DEF Pending
    <3> QED
      BY <1>1, <2>1, <2>2, <3>1 DEF Pending
  <2>3. Past(lastTD)' /\ Past(td)'
    BY <1>0, <1>1, <2>1 DEF Past
  <2> QED
    BY <1>1, <2>2, <2>3, DeliveryByLoop
<1> QED
  BY <1>2, <1>3, <1>4

LEMMA DeliveryByNotification ==
    ASSUME TypeOK, RequestsInv, StoreInv, DeliveryInv, NEW q \in Reqs,
           NotifySubscription(q) \/ NotifyError(q)
    PROVE  DeliveryInv'
<1>0. /\ deduplicationNotification \in [Reqs -> Versions \union {None, ErrorBody}]
      /\ subscriptions \subseteq Reqs /\ value \in Nat
      /\ Past(lastTD) /\ Past(td) /\ \A r \in Reqs : NotesInv(r)
  BY TypesOf DEF TypeOK, DeliveryInv, Versions
<1>1. /\ loop = "notify" /\ q \in subscriptions /\ visited' = visited \union {q}
      /\ UNCHANGED <<value, lastTD, notifier, subChan, closer, req, conn, alive, loop, td, todo>>
      /\ subscriptions' \subseteq subscriptions
      /\ sent' = Sent(q, td) \/ (sent' = sent /\ deduplicationNotification[q] = td)
  BY DEF NotifySubscription, NotifyError, ObserveError, RemoveSubscription, peerVars, devVars, tdVars
<1>d. \/ deduplicationNotification' = deduplicationNotification /\ sent' = Sent(q, td)
      \/ \E body \in {td, ErrorBody} :
            deduplicationNotification' = [deduplicationNotification EXCEPT ![q] = body]
  BY DEF NotifySubscription, NotifyError
<1>2. /\ deduplicationNotification'[q] \in {td, -1, deduplicationNotification[q]}
      /\ deduplicationNotification'[q] \in {td, -1} \/ sent' = Sent(q, td)
      /\ \A r \in Reqs : r # q => deduplicationNotification'[r] = deduplicationNotification[r]
  BY <1>0, <1>d DEF ErrorBody
<1>3. req[q].at \notin {"free", "sent", "subscribe"}
  BY <1>1 DEF StoreInv, SubscriptionInv, Registering, Through
<1>n. NotesInv(q)'
  BY <1>0, <1>1, <1>2, <1>3 DEF NotesInv, Past
<1>4. Past(lastTD)' /\ Past(td)' /\ \A r \in Reqs : NotesInv(r)'
  BY <1>0, <1>1, <1>2, <1>n DEF NotesInv, Past
<1>5. sent \subseteq sent'
  BY <1>1 DEF Sent
<1>6. ASSUME NEW r \in subscriptions', closer' = "open", Live(r)'
      PROVE  NotedIsSent(r)' /\ (req'[r].at # "get" => Due(r)')
  <2>1. r \in subscriptions /\ r \in Reqs /\ closer = "open" /\ Live(r)
    BY <1>0, <1>1, <1>6 DEF Live
  <2>2. NotedIsSent(r) /\ (req[r].at # "get" => Due(r))
    BY <2>1 DEF DeliveryInv
  <2>3. CASE r # q
    <3>1. NotedIsSent(r)'
      BY <1>1, <1>2, <1>5, <2>1, <2>2, <2>3 DEF NotedIsSent
    <3>2. Pending(r) => Pending(r)'
      BY <1>1, <2>3 DEF Pending
    <3> QED
      BY <1>1, <1>5, <2>2, <3>1, <3>2 DEF Due
  <2>4. CASE r = q /\ td = value
    <3>1. q \in sent' \/ (req[q].at = "answer" /\ req[q].body = value)
      BY <1>1, <2>1, <2>2, <2>4 DEF Sent, NotedIsSent
    <3> QED
      BY <1>1, <2>4, <3>1 DEF NotedIsSent, Due
  <2>5. CASE r = q /\ td # value
    <3>1. NotedIsSent(r)'
      BY <1>0, <1>1, <1>2, <1>5, <2>2, <2>5 DEF NotedIsSent
    <3>2. Pending(r) => Pending(r)'
      BY <1>1, <2>5 DEF Pending
    <3> QED
      BY <1>1, <1>5, <2>2, <3>1, <3>2 DEF Due
  <2> QED
    BY <2>3, <2>4, <2>5
<1> QED
  BY <1>4, <1>6 DEF DeliveryInv

LEMMA NextDelivery ==
    ASSUME TypeOK, RequestsInv, StoreInv, DeliveryInv, Next
    PROVE  DeliveryInv'
<1>1. CASE DeleteAndCloseDevice \/ Shutdown \/ CloseResources \/ CloseAndDeleteResource
  <2>1. /\ UNCHANGED <<tdVars, loop, td, todo, visited, sent, req, deduplicationNotification>>
        /\ closer' = "open" => closer = "open"
        /\ subscriptions' \subseteq subscriptions
    BY <1>1 DEF DeleteAndCloseDevice, Shutdown, CloseResources, CloseAndDeleteResource, loopVars,
       subVars, ghosts
  <2> QED
    BY <2>1, DeliverySame
<1>2. ASSUME NEW q \in Reqs, Tell(q) \/ ConnectionDone(q) PROVE DeliveryInv'
  <2>1. /\ UNCHANGED <<tdVars, loop, td, todo, visited, sent, req, deduplicationNotification>>
        /\ closer' = closer /\ subscriptions' \subseteq subscriptions
    BY <1>2 DEF Tell, ObserveError, ConnectionDone, RemoveSubscription, loopVars, devVars
  <2> QED
    BY <2>1, DeliverySame
<1>3. ASSUME NEW p \in Peers, Disconnect(p) PROVE DeliveryInv'
  <2>1. /\ UNCHANGED <<tdVars, loop, td, todo, visited, sent, req, deduplicationNotification>>
        /\ closer' = closer /\ subscriptions' \subseteq subscriptions
    BY <1>3 DEF Disconnect, loopVars, devVars, subVars, ghosts
  <2> QED
    BY <2>1, DeliverySame
<1>4. CASE CloseManager \/ LoopStops
  <2>1. closer' # "open" /\ UNCHANGED <<value, lastTD, td, req, deduplicationNotification>>
    BY <1>4 DEF CloseManager, LoopStops, loopVars, devVars, tdVars, subVars
  <2> QED
    BY <2>1 DEF DeliveryInv, NotesInv, Past
<1>5. CASE NotifySubscriptions
  BY <1>5, DeliveryByPublish
<1>6. CASE NotifySend \/ SubscriptionHandler \/ SubscriptionHandlerReturns
  BY <1>6, DeliveryByHandler
<1> QED
  BY <1>1, <1>2, <1>3, <1>4, <1>5, <1>6, DeliveryByPeer, DeliveryByRequest, DeliveryByNotification
  DEF Next, CloseStep, LoopStep

-----------------------------------------------------------------------------
(* The invariant, and what it says of the bridge                            *)

\* Nothing is lost, confused or forgotten: the four parts and the types hold
\* together, of every interleaving of requests, the loop and the closers.
LEMMA BridgeInvariant == Spec => []BridgeInv
<1>1. Init => BridgeInv
  BY InitTypeOK, InitRequests, InitStore, InitTold, InitDelivery DEF BridgeInv
<1>2. BridgeInv /\ [Next]_vars => BridgeInv'
  <2>1. CASE BridgeInv /\ Next
    BY <2>1, NextTypeOK, NextRequests, NextStore, NextTold, NextDelivery DEF BridgeInv
  <2>2. CASE BridgeInv /\ UNCHANGED vars
    <3>1. /\ UNCHANGED <<cache, conn, alive, dialog, status, req, closer, telling, closed, value, notifier,
                         lastTD, subChan, subscriptions, createdSubscription, deduplicationNotification>>
          /\ UNCHANGED <<loop, td, todo, visited, watched, sent, stolen>>
      BY <2>2 DEF vars, peerVars, devVars, tdVars, subVars, loopVars, ghosts
    <3>2. TypeOK'
      BY <2>2, <3>1 DEF BridgeInv, TypeOK
    <3>3. RequestsInv'
      BY <2>2, <3>1 DEF BridgeInv, RequestsInv, RequestInv, OneActive, Active, Sure
    <3>4. StoreInv'
      BY <2>2, <3>1 DEF BridgeInv, StoreInv, SubscriptionInv
    <3>5. ToldInv'
      BY <2>2, <3>1 DEF BridgeInv, ToldInv, PeerInv, AnswerInv, Served, Unsubscribed, Live
    <3>6. DeliveryInv'
      BY <2>2, <3>1 DEF BridgeInv, DeliveryInv, NotesInv, Past, NotedIsSent, Due, Pending, Live
    <3> QED
      BY <3>2, <3>3, <3>4, <3>5, <3>6 DEF BridgeInv
  <2> QED
    BY <2>1, <2>2
<1> QED
  BY <1>1, <1>2, PTL DEF Spec

\* Every subscription ends, however many peers and requests there are: what
\* createSubscription has registered is stored for its address as soon as its
\* request is through, so that a cancel finds it, and the loop has a handler
\* for the end of its connection (bridge/resources/resource.go).
THEOREM SubscriptionsInvHolds == Spec => []SubscriptionsInv
<1>1. BridgeInv => SubscriptionsInv
  <2> SUFFICES ASSUME BridgeInv PROVE NoOrphan /\ GonePeerIsWatched
    BY DEF SubscriptionsInv
  <2>1. StoreInv
    BY DEF BridgeInv
  <2>2. NoOrphan
    BY <2>1 DEF NoOrphan, StoreInv, SubscriptionInv, Registering
  <2>3. GonePeerIsWatched
    BY <2>1 DEF GonePeerIsWatched, StoreInv, SubscriptionInv, Registering
  <2> QED
    BY <2>2, <2>3
<1> QED
  BY <1>1, BridgeInvariant, PTL

\* What a peer was told about its observation is so: an observer is registered
\* and stored until it is told otherwise, a cancel is not undone by a late copy
\* of an earlier request, and Device.Close tells every observer, except those
\* whose subscription was taken by a late goroutine of an earlier connection of
\* the address, or because a notification could not be made or written.  A peer
\* that sends a request while another is under way has been told nothing.
THEOREM PeersInvHolds == Spec => []PeersInv
<1>1. BridgeInv => PeersInv
  <2> SUFFICES ASSUME BridgeInv PROVE TypeOK /\ AnsweredIsServed /\ CancelIsFinal /\ CloseIsTold
    BY DEF PeersInv
  <2>1. TypeOK /\ \A p \in Peers : PeerInv(p)
    BY DEF BridgeInv, ToldInv
  <2>2. AnsweredIsServed
    BY <2>1 DEF AnsweredIsServed, PeerInv, Served
  <2>3. CancelIsFinal
    BY <2>1 DEF CancelIsFinal, PeerInv, Unsubscribed
  <2>4. CloseIsTold
    BY <2>1 DEF CloseIsTold, PeerInv, Served, TypeOK
  <2> QED
    BY <2>1, <2>2, <2>3, <2>4
<1> QED
  BY <1>1, BridgeInvariant, PTL

\* Whenever the manager, the channel and the loop are at rest, every observer
\* whose connection lasts has been sent the description published last, or an
\* error where that could not be put into a message: the one-place channel, the
\* CompareAndSwap that clears lastTD, and the deduplication lose none, with any
\* number of publications and observers, and requests of a peer that overlap.
THEOREM LatestIsSentHolds == Spec => []LatestIsSent
<1>1. BridgeInv => LatestIsSent
  BY DEF BridgeInv, DeliveryInv, LatestIsSent, Due, Pending
<1> QED
  BY <1>1, BridgeInvariant, PTL
=============================================================================
