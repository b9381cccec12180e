---------------------------- MODULE Credentials ----------------------------
(* The credentials of a bridged device (bridge/device/credential): requests *)
(* to its credential resource add and replace credentials, each in a        *)
(* goroutine of its own, while the cloud manager removes those of a cloud   *)
(* it leaves and the device is closed, or crashes, and is created again     *)
(* from its saved configuration.                                            *)
EXTENDS Integers, FiniteSetsExt, Functions

CONSTANTS
    Posters,   \* goroutines of requests
    Creds,     \* credentials; each is posted once
    Subjects, SubjectOf, \* the subjects of the credentials
    MaxID      \* bound: the largest ID

ASSUME CredAssumption == SubjectOf \in [Creds -> Subjects] /\ MaxID \in Nat

VARIABLES
    credentials, \* Manager.credentials
    post,        \* where a request is, with which credential and ID
    doomed,      \* IDs that RemoveCredentialsBySubjects is about to delete
    saved,       \* what the application has saved
    closed,      \* the manager is closed
    \* history
    posted,      \* credentials that have been posted
    kept,        \* those that were stored and neither replaced nor removed
    answered,    \* those of them whose request was answered
    late         \* what was left after Close has been saved

credVars == <<credentials, post, doomed, saved, closed, posted, kept, answered, late>>

IDs == 0..MaxID
NoPost == [at |-> "idle", cred |-> CHOOSE c \in Creds : TRUE, id |-> 0]

CredInit ==
    /\ credentials = <<>> /\ saved = <<>>
    /\ post = [p \in Posters |-> NoPost]
    /\ doomed = {}
    /\ closed = FALSE
    /\ posted = {} /\ kept = {} /\ answered = {}
    /\ late = FALSE

\* sync.Map.Store
Put(id, c) == [i \in DOMAIN credentials \union {id} |-> IF i = id THEN c ELSE credentials[i]]
Without(I) == Restrict(credentials, DOMAIN credentials \ I)

\* Credentials that are not in f any more.
Gone(f) == {c \in Creds : \A i \in DOMAIN f : f[i] # c}

------------------------------------------------------------------------------
(* Post                                                                     *)

\* AddOrReplaceCredential: without an ID the credential is added, which starts
\* with ID 0; with one it replaces what has it.
AddOrReplaceCredential(p, c, id) ==
    /\ post[p].at = "idle"
    /\ c \notin posted
    /\ posted' = posted \union {c}
    /\ IF id = 0
       THEN /\ post' = [post EXCEPT ![p] = [at |-> "store", cred |-> c, id |-> 0]]
            /\ UNCHANGED <<credentials, kept, answered>>
       ELSE /\ credentials' = Put(id, c)
            /\ kept' = (kept \ Gone(credentials')) \union {c}
            /\ answered' = IF closed THEN answered ELSE answered \ Gone(credentials')
            /\ post' = [post EXCEPT ![p] = [at |-> "save", cred |-> c, id |-> id]]
    /\ UNCHANGED <<doomed, saved, closed, late>>

\* Mutation: the credential that has the ID is overwritten.
AddOverwrites(p) ==
    /\ post[p].at = "store"
    /\ credentials' = Put(post[p].id, post[p].cred)
    /\ kept' = kept \union {post[p].cred}
    /\ post' = [post EXCEPT ![p].at = "save"]
    /\ UNCHANGED <<doomed, saved, closed, posted, answered, late>>

\* add: LoadOrStore, and once more with another ID if this one is taken.
Add(p) ==
    LET r == post[p] IN
    /\ r.at = "store"
    /\ IF r.id \in DOMAIN credentials
       THEN /\ post' = [post EXCEPT ![p].at = "next"]
            /\ UNCHANGED <<credentials, kept>>
       ELSE /\ credentials' = Put(r.id, r.cred)
            /\ kept' = kept \union {r.cred}
            /\ post' = [post EXCEPT ![p].at = "save"]
    /\ UNCHANGED <<doomed, saved, closed, posted, answered, late>>

\* getNextID, which others may take before it is used.
GetNextID(p) ==
    LET id == Max({0} \union DOMAIN credentials) + 1 IN
    /\ post[p].at = "next" /\ id <= MaxID
    /\ post' = [post EXCEPT ![p].at = "store", ![p].id = id]
    /\ UNCHANGED <<credentials, doomed, saved, closed, posted, kept, answered, late>>

\* Post saves and answers.  The application writes what ExportConfig returns in
\* one step.
Post(p) ==
    /\ post[p].at = "save"
    /\ saved' = credentials
    /\ post' = [post EXCEPT ![p] = NoPost]
    /\ answered' = answered \union ({post[p].cred} \intersect kept)
    /\ late' = (late \/ closed)
    /\ UNCHANGED <<credentials, doomed, closed, posted, kept>>

\* The cloud manager saves the configuration of the whole device, too, a
\* handler of its loop perhaps after Close.
SaveByCloud ==
    /\ saved # credentials
    /\ saved' = credentials
    /\ late' = (late \/ closed)
    /\ UNCHANGED <<credentials, post, doomed, closed, posted, kept, answered>>

------------------------------------------------------------------------------
(* Removal, Close and a new start                                           *)

\* RemoveCredentialsBySubjects looks at a copy of the map
RemoveCredentialsBySubjects(s) ==
    /\ doomed = {}
    /\ doomed' = {i \in DOMAIN credentials : SubjectOf[credentials[i]] = s}
    /\ UNCHANGED <<credentials, post, saved, closed, posted, kept, answered, late>>

\* and deletes what has the IDs by then.
RemoveCredentials(i) ==
    /\ i \in doomed
    /\ doomed' = doomed \ {i}
    /\ credentials' = Without({i})
    /\ kept' = kept \ Gone(credentials')
    /\ answered' = IF closed THEN answered ELSE answered \ Gone(credentials')
    /\ UNCHANGED <<post, saved, closed, posted, late>>

\* Close: ClearCredentials; what is saved stays.
CloseCredentials ==
    /\ ~closed
    /\ closed' = TRUE
    /\ credentials' = <<>>
    /\ kept' = {}
    /\ UNCHANGED <<post, doomed, saved, posted, answered, late>>

\* A crash, or the end of the program; then New and importConfig: a credential
\* with ID 0 is added, the others are stored, and all have the ID they had.
ImportConfig ==
    /\ credentials' = saved
    /\ kept' = Creds \ Gone(saved)
    /\ post' = [p \in Posters |-> NoPost]
    /\ doomed' = {}
    /\ closed' = FALSE
    /\ answered' = IF late THEN answered \ Gone(saved) ELSE answered
    /\ late' = FALSE
    /\ UNCHANGED <<saved, posted>>

CredNext ==
    \/ \E p \in Posters, c \in Creds, id \in IDs : AddOrReplaceCredential(p, c, id)
    \/ \E p \in Posters : Add(p) \/ GetNextID(p) \/ Post(p)
    \/ \E s \in Subjects : RemoveCredentialsBySubjects(s)
    \/ \E i \in IDs : RemoveCredentials(i)
    \/ SaveByCloud \/ CloseCredentials \/ ImportConfig

CredSpec == CredInit /\ [][CredNext]_credVars

------------------------------------------------------------------------------
(* Properties                                                               *)

\* Credentials that are added at the same time get IDs of their own: none is
\* overwritten, although the next ID is computed before it is taken.  Only a
\* request with its ID, a removal or Close takes one away.
AddedIsKept == kept \intersect Gone(credentials) = {}

\* A credential whose request was answered is in the saved configuration, so
\* that it survives a crash and Close, unless it was replaced or removed, or a
\* request or a handler of the cloud manager that was under way when the device
\* was closed has saved what it found then.
AnsweredIsSaved == ~late => answered \intersect Gone(saved) = {}

\* No credential is lost, from the map or from what is saved.
CredentialsInv == AddedIsKept /\ AnsweredIsSaved
=============================================================================
