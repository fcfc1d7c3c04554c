\* One request at a time, cut off anywhere; a webhook or reconciliation runs on.
SPECIFICATION FairSpec
CONSTANTS
    m1 = m1  m2 = m2  week = week
    c1 = c1  c2 = c2
    w1 = w1  w2 = w2
    Keys = {m1, week}
    Weeks = {week}
    Amount <- WholeEarning
    MinAuto = 1
    Earnings = {2}
    PastRefunds = FALSE
    Clerks = {c1}
    Couriers = {w1}
    Abortable = {c1}
    Replies = {"accepted", "paid", "declined", "refused", "lost"}
    Cashfree = Cashfree
    None = None
INVARIANTS
    NoOverdraft
PROPERTIES
    EveryPayoutFinalised
