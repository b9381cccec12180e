\* Lifetimes below, at and above the margin, and one that never ends; every
\* delay of a tick; links with and without endpoints and policies.
SPECIFICATION AllSpec
CONSTANTS
    TickInterval = 3
    Lifetimes <- SomeLifetimes
    Horizon = 18
    a = a
    b = b
    c1 = c1
    c2 = c2
    c3 = c3
    p1 = p1
    p2 = p2
    p3 = p3
    i1 = i1
    o1 = o1
    o2 = o2
    Posters = {p1, p2}
    Creds = {c1, c2, c3}
    Subjects = {"cloud", "other"}
    SubjectOf <- SomeSubjects
    MaxID = 2
    DeviceID = a
    DeviceHref = "/oic/d"
    Unset = Unset
    DeviceIDs = {a, b}
    Procs = {p1, p2, p3}
    Unicast = 1
    Multicast = 1
    Ids = {i1}
    Objs = {o1, o2}
    None = None
    Answers <- SomeAnswers
    Responses <- SomeResponses
INVARIANTS TokenStaysValid LinksInv CredentialsInv OneCloses NothingLeftOpen
PROPERTY ShutdownReturns
\* The model stops at the horizon.
CHECK_DEADLOCK FALSE
