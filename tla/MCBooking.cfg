\* Paid bookings, confirmed as they are made; and a scarce code, a scarce pass, and
\* a booking left pending for ConfirmBooking.
SPECIFICATION FocusSpec
CONSTANTS
    k1 = k1  k2 = k2  k3 = k3  k4 = k4  k5 = k5  k6 = k6
    g1 = g1  g2 = g2
    d1 = d1
    c1 = c1  p1 = p1
    h1 = h1  h2 = h2
    EventId = EventId
    None = None
    Keys = {k1, k2, k3, k4, k5, k6}
    Guests = {g1, g2}
    Occurrences = {d1}
    Coupons = {c1}
    Passes = {p1}
    Handlers = {h1, h2}
    Request <- AllRequests
    Price = 10
    GuestFee <- FlatFee
    CouponOf <- OneCoupon
    PassOf <- OneSession
    Deposit <- Wallets
    Capacities = {1, 2, 3}
    FeePercents = {15, 100}
    MaxParty = 2
INVARIANTS
    LedgerBalanced
    WalletMatchesLedger
    RowsMatchLedger
    HostEarningsBacked
    PassNeverOvercharged
    DoorAdmitsParty
PROPERTIES
    EndedIsFinal
    NoOversale
    ImplementsSeatSale
SYMMETRY SwapHandlers
