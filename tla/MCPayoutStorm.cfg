\* Two requests for one key and two webhooks at a time, all of which may be cut off.
SPECIFICATION Spec
CONSTANTS
    m1 = m1  m2 = m2  week = week
    c1 = c1  c2 = c2
    w1 = w1  w2 = w2
    Keys = {week}
    Weeks = {week}
    Amount <- WholeEarning
    MinAuto = 1
    Earnings = {2, 4}
    PastRefunds = TRUE
    Clerks = {c1, c2}
    Couriers = {w1, w2}
    Abortable = {c1, c2, w1, w2}
    Replies = {"accepted", "paid", "declined", "refused", "lost"}
    Cashfree = Cashfree
    None = None
INVARIANTS
    DebitedBeforeSent
    OneTransferPerKey
    WebhookCreditsOnce
    PaidMoneyIsCounted
SYMMETRY SwapHandlers
