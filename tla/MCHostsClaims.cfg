\* Two withdrawals of a co-host, reserved at the same instant.
SPECIFICATION Spec
CONSTANTS
    cora = cora
    r1 = r1  r2 = r2  r3 = r3
    k1 = k1  k2 = k2
    m1 = m1  m2 = m2  m3 = m3
    e1 = e1  e2 = e2
    w1 = w1  w2 = w2
    CoHosts = {cora}
    Requests = {r1, r2, r3}
    Sender <- mcSender
    KeyOf <- mcKeyOf
    Asked <- mcAsked
    Earnings = {1}
    OtherEarnings = 0
    Replies = {"accepted", "paid", "declined", "lost"}
    MaxPassed = 1
    MaxInFlight = 2
    Methods = {m1, m2, m3}
    Holder <- mcHolder
    NoHost = NoHost
    Editors = {e1, e2}
    Withdrawals = {w1, w2}
    LedgerKey <- mcLedgerKey
    Blank = Blank
    Sum <- mcSum
    Answers = {"accepted", "paid", "declined", "lost"}
    Collected = 2
    Nobody = Nobody
    o1 = o1  s1 = s1  g1 = g1
    Owners = {o1}
    Staff = {s1}
    Guests = {g1}
    Handles = {"h1"}
    Stars <- mcStars
    MaxEdits = 2
    p1 = p1  x1 = x1
    ann = ann  bob = bob  hana = hana  hugo = hugo
    Sales = {1, 2, 3}
    Coverage = {p1}
    Payers = {ann, bob}
    HostsOf <- mcHostsOf
    PayerOf <- mcPayerOf
    ChargeOf <- mcChargeOf
    Payouts = {x1}
    PayeeOf <- mcPayee
    PayoutCents <- mcCents
    TopUps = 205
    MaxReviews = 1
    PageSize = 1
    HighValue = 100
    Regular = 3
INVARIANTS
    ClaimsExclusive
SYMMETRY Symmetry
CHECK_DEADLOCK FALSE
