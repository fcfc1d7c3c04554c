SPECIFICATION SeasonSpec
CONSTANTS
    b1 = b1
    b2 = b2
    h1 = h1
    h2 = h2
    None = None
    Bookings = {b1, b2}
    Handlers = {h1, h2}
    SlotOf <- mcSlotOf
    CreateRequests <- mcCreateRequests
    Updates <- mcUpdates
    PauseRequests <- mcPauseRequests
    MaxOperations = 2
    DayLength = 2
    WeekLength = 1
    LastInstant = 3
    HorizonDays = 2
    MaxSessions = 3
    MaxTries = 3
    MaxOffered = 2
    k1 = k1
    k2 = k2
    ann = ann
    bob = bob
    NoKey = NoKey
    Keys = {k1, k2}
    Guests = {ann, bob}
    Buyer <- mcBuyer
    Sessions = {1, 2}
    PassHandlers = {h1, h2}
    Prices = {1, 2}
    Capacity = 1
    Included = 1
    Seats = 1
    Validity = 1
    RefundWindow = 0
    LastTick = 1
    Deposit = 1
    hana = hana  hugo = hugo  evt = evt  u1 = u1  u2 = u2  u3 = u3
    x1 = x1  x2 = x2  q1 = q1  q2 = q2
    Slots = {u1, u2, u3}
    Stock <- mcStock
    Codes = {"vip", "gala"}
    Hosts = {hana, hugo}
    Events = {evt}
    Owner <- mcOwner
    Manages <- mcManages
    Forms <- mcForms
    Bodies <- mcBodies
    Edits = {x1, x2}
    Checkouts = {q1, q2}
    HostOf <- mcHostOf
    GuestOf <- mcGuestOf
    EventOf <- mcEventOf
    CodeOf <- mcCodeOf
    MaxBatch = 2
    Attempts = 2
    Everywhere = Everywhere
    NoLimit = NoLimit
    NoCoupon = NoCoupon
    Callers = {ann, bob}
    Burst = 3
    Token = 2
    IdleFor = 3
    ThrottleEnd = 9
    NoBucket = NoBucket
INVARIANTS
    ViewsAgree
    PassesHold
    CodesKeepTheirLimits
    GrantsBounded
PROPERTIES
    EditsLostOnlyByOverlap
    RefundsForgetNobody
    DeleteErasesOnlyUnseen
SYMMETRY Symmetry
CHECK_DEADLOCK FALSE
