\* Two requests that may be cut off anywhere, and one webhook at a time.
SPECIFICATION FairSpec
CONSTANTS
    t1 = t1
    r1 = r1  r2 = r2
    c1 = c1  c2 = c2
    w1 = w1  w2 = w2
    Topups = {t1}
    Refunds = {r1, r2}
    Paid <- PaidIn
    Of <- RefundOf
    Asked <- AskedBack
    Prices = {1}
    Clerks = {c1, c2}
    Couriers = {w1}
    Abortable = {c1, c2}
    Replies = {"pending", "processed", "failed", "refused"}
    None = None
INVARIANTS
    CreditedOnce
    RefundIsDebited
    NoMoneyCreated
PROPERTIES
    PaidIsCredited
\* When every key is used and the money is with the card, nothing is left to do.
CHECK_DEADLOCK FALSE
