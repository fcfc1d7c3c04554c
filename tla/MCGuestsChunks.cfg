\* An ingestion without an error leaves chunks in the index under another's text.
SPECIFICATION Spec
CONSTANTS
    ann = ann  bob = bob
    j1 = j1  j2 = j2
    p1 = p1  p2 = p2
    w1 = w1
    Files <- mcFiles
    Jobs = {j1}
    Workers = {p1, p2}
    WalkIns = {w1}
    Party <- mcParty
    Capacity = 2
    Comps = 1
    MaxCrashes = 1
    MaxRevisions = 1
    MaxTakes = 2
    Nobody = Nobody
    q1 = q1  q2 = q2  q3 = q3  host = host  admin = admin
    Requests = {q1, q2, q3}
    By <- mcBy
    For <- mcFor
    Reviewers = {host, admin}
    n1 = n1  n2 = n2  a1 = a1  a2 = a2  a3 = a3
    Bookings = {n1, n2}
    Reachable <- mcReachable
    Schedulers = {p1, p2}
    EventTime = 1
    Lead = 1
    Horizon = 2
    Batch = 1
    MaxLost = 1
    Accounts = {a1, a2, a3}
    Phone <- mcPhone
    Email <- mcEmail
    i1 = i1  i2 = i2  c1 = c1  c2 = c2
    Records = {1, 2, 3}
    Table <- mcTable
    Length <- mcLength
    Unreadable = {}
    NoBio = {}
    EventLimit = 1
    RowLimit = 1
    ChunkSize = 3
    Overlap = 1
    BatchSize = 2
    Ingests = {i1, i2}
    Chats = {c1, c2}
    Lifetimes = 2
    MaxMemory = 2
    MaxSeen = 6
    v1 = v1  v2 = v2  v3 = v3  v4 = v4  v5 = v5  num = num  mail = mail
    Visits = {v1, v2, v3, v4, v5}
    Way <- mcWay
    PhoneOf <- mcPhoneOf
    EmailOf <- mcEmailOf
    NoPhone = NoPhone
    NoEmail = NoEmail
    NoVisit = NoVisit
    d1 = d1  d2 = d2
    Names = {1, 2, 3}
    Text <- mcText
    Runners = {d1, d2}
    Checkout <- mcCheckout
    MaxRuns = 2
INVARIANTS
    EveryChunkStored
CHECK_DEADLOCK FALSE
