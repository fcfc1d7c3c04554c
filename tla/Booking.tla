------------------------------- MODULE Booking -------------------------------
(***************************************************************************)
(* The booking desk: bookingService (internal/service/booking_service.go), *)
(* the repositories it writes through and the money split it shares with   *)
(* monthly passes (internal/service/money.go), for one event of one host.  *)
(*                                                                         *)
(* The shared state is the database.  Requests are served by concurrent    *)
(* handlers; a handler reads in one step and writes in a later one, which  *)
(* is where its reads go stale.  A step is one SQL transaction (READ       *)
(* COMMITTED) or one auto-committed statement: a transaction that takes    *)
(* the event's row lock, or whose writes are guarded UPDATEs, cannot be    *)
(* told from one that runs at its commit point.                            *)
(*                                                                         *)
(* A booking row is named by its idempotency key: bookings.idempotency_key *)
(* is UNIQUE, so each key has at most one row, and a client that retries   *)
(* sends the same key with the same body.                                  *)
(***************************************************************************)
EXTENDS Money, FiniteSetsExt

CONSTANTS
    Keys,          \* idempotency keys: one per distinct booking request
    Guests,        \* buyers
    Occurrences,   \* dates on which the event takes place
    Coupons,       \* codes the host issued
    Passes,        \* monthly passes already bought for this event
    Handlers,      \* requests the server may be serving at the same time
    EventId,       \* the event's id: not the id of any booking
    None,          \* absence of a coupon, a pass or a key
    Request,       \* the body sent with each key
    Price,         \* the ticket price in cents
    GuestFee,      \* platform_settings "booking_fee"
    CouponOf,      \* terms of each coupon
    PassOf,        \* terms of each pass
    Deposit,       \* each guest's wallet before the first booking
    Capacities,    \* values the host may set the event's capacity to
    FeePercents,   \* values an admin may set the commission to
    MaxParty       \* the largest quantity of a request

Requests ==
    [guest: Guests, occ: Occurrences, qty: 1..MaxParty,
     coupon: Coupons \cup {None}, pass: Passes \cup {None},
     online: BOOLEAN, offline: BOOLEAN, autoConfirm: BOOLEAN]

ASSUME RequestAssumption ==
    /\ Request \in [Keys -> Requests]
    /\ EventId \notin Keys /\ None \notin Keys \cup Coupons \cup Passes
    \* 6d: a pass covers one guest per session, of the pass's owner
    /\ \A k \in Keys : Request[k].pass # None =>
          /\ Request[k].qty = 1
          /\ Request[k].guest = PassOf[Request[k].pass].owner

ASSUME MoneyAssumption ==
    /\ Price \in Nat
    /\ GuestFee \in [type: {"flat", "percentage"}, amount: Nat, percentage: 0..100]
    /\ CouponOf \in [Coupons -> [grantsFree: BOOLEAN, discount: 0..99,
                                 max: Nat, perUser: Nat]]
    /\ PassOf \in [Passes -> [owner: Guests, covers: SUBSET Occurrences,
                              included: Nat]]
    /\ Deposit \in [Guests -> Nat]
    /\ Capacities \subseteq Nat
    /\ FeePercents \subseteq 0..100

ASSUME FinitenessAssumption == IsFiniteSet(Keys) /\ MaxParty \in Nat

VARIABLES
    status,        \* bookings.status, "none" before the row exists
    charge,        \* bookings.amount_cents, service_fee_cents, net_earning_cents
    checkedIn,     \* bookings.checked_in_count
    payment,       \* payments.status of the booking's payment row
    wallet,        \* accounts.balance_cents of each guest
    entries,       \* SUM(transaction_ledger.amount_cents) written for a purchase, per account
    journal,       \* transaction_ledger.idempotency_key values in use
    earnings,      \* host_earnings: total_earnings and pending_clearance, which move together here
    redeemed,      \* coupons.times_redeemed
    sessionsUsed,  \* user_passes.sessions_used
    capacity,      \* events.capacity
    totalBookings, \* events.total_bookings
    feePercent,    \* the commission in force for this host
    started,       \* occurrences whose start time has passed
    proc           \* what each handler is doing

rows  == <<status, charge, checkedIn, payment>>
money == <<wallet, entries, journal, earnings>>
event == <<capacity, totalBookings>>
codes == <<redeemed, sessionsUsed>>
world == <<feePercent, started>>
vars  == <<rows, money, event, codes, world, proc>>

------------------------------------------------------------------------------
(* Rows and what the queries see of them.                                  *)

Active == {"pending", "confirmed"}

\* GetTotalBookedQuantityForOccurrence: SUM(quantity) over the pending and
\* confirmed rows of an occurrence, as the number of the seats they take.
SeatsTaken(o) ==
    {seat \in Keys \X (1..MaxParty) :
        /\ status[seat[1]] \in Active
        /\ Request[seat[1]].occ = o
        /\ seat[2] <= Request[seat[1]].qty}

Booked(o) == Cardinality(SeatsTaken(o))

\* Fault: the seats already sold are compared with the capacity, and the
\* party that asks is forgotten.
SeatsLeftForOne(k) == Booked(Request[k].occ) < capacity

SeatsLeft(k) == Booked(Request[k].occ) + Request[k].qty <= capacity

\* CountUserRedemptions: rows of a guest that used a coupon, whatever became
\* of them unless cancelled.
UserRedemptions(c, g) ==
    Cardinality({k \in Keys : /\ status[k] \in Active \cup {"refunded"}
                              /\ Request[k].coupon = c
                              /\ Request[k].guest = g})

\* validateCoupon: the limits, read without redeeming.
CouponValid(k) ==
    LET c == Request[k].coupon IN
    c # None => /\ redeemed[c] < CouponOf[c].max
                /\ UserRedemptions(c, Request[k].guest) < CouponOf[c].perUser

\* Redeem: UPDATE ... WHERE times_redeemed < max_redemptions.
MayRedeem(c) == c # None => redeemed[c] < CouponOf[c].max

\* UserPass.IsUsable at the requested occurrence.
PassUsable(k) ==
    LET p == Request[k].pass IN
    p # None => /\ Request[k].occ \in PassOf[p].covers
                /\ sessionsUsed[p] < PassOf[p].included

\* ConsumeSession: the same test, in the UPDATE's WHERE clause.
\* Fault: the UPDATE only checks the pass's window.
SpendUnguarded(k) ==
    Request[k].pass # None => Request[k].occ \in PassOf[Request[k].pass].covers
MaySpendSession(k) == PassUsable(k)

\* accounts.Debit: UPDATE ... WHERE balance_cents >= amount.
\* Fault: the debit is unconditional.
DebitUnguarded(g, amount) == amount \in Int
MayDebit(g, amount)       == amount <= wallet[g]

\* Steps 6 to 6d: the server-side price of a request.
TicketTotal(k) ==
    LET full  == Price * Request[k].qty
        c     == Request[k].coupon
        waive == \/ c # None /\ CouponOf[c].grantsFree
                 \/ Request[k].offline
                 \/ Request[k].pass # None
        off   == IF c = None THEN 0 ELSE DiscountCents(full, CouponOf[c].discount)
    IN  IF waive THEN 0 ELSE full - off

\* Step 8: the fee split; a total of zero skips it.
Quote(k) ==
    LET total == TicketTotal(k)
        extra == IF Request[k].online THEN FeeCents(GuestFee, total) ELSE 0
    IN  IF total > 0 THEN Charge(total, feePercent, extra) ELSE NoCharge

------------------------------------------------------------------------------
(* Handlers.                                                               *)

Steps == {"idle", "creating", "counting", "replayed", "unanswered",
          "confirming", "cancelling", "admitting", "editing"}

\* number is the party being admitted, or the total_bookings an edit has read.
Idle == [pc |-> "idle", key |-> None, quote |-> NoCharge, number |-> 0]

At(pc, k)       == [Idle EXCEPT !.pc = pc, !.key = k]
Become(h, p)    == proc' = [proc EXCEPT ![h] = p]
Free(h)         == proc[h].pc = "idle"
Doing(h, pc, k) == proc[h].pc = pc /\ proc[h].key = k

Charges == [amount: Nat, fee: Nat, net: Nat]

TypeOK ==
    /\ status \in [Keys -> {"none", "pending", "confirmed", "cancelled", "refunded"}]
    /\ charge \in [Keys -> Charges]
    /\ checkedIn \in [Keys -> Nat]
    /\ payment \in [Keys -> {"none", "completed", "reversed"}]
    /\ wallet \in [Guests -> Nat]
    /\ entries \in [Keys -> [user: Int, platform: Int, host: Int]]
    /\ journal \subseteq {"booking", "refund"} \X Keys
    /\ earnings \in Nat
    /\ redeemed \in [Coupons -> Nat]
    /\ sessionsUsed \in [Passes -> Nat]
    /\ capacity \in Nat
    /\ totalBookings \in Nat
    /\ feePercent \in 0..100
    /\ started \subseteq Occurrences
    /\ proc \in [Handlers -> [pc: Steps, key: Keys \cup {None},
                              quote: Charges, number: Nat]]

Init ==
    /\ status = [k \in Keys |-> "none"]
    /\ charge = [k \in Keys |-> NoCharge]
    /\ checkedIn = [k \in Keys |-> 0]
    /\ payment = [k \in Keys |-> "none"]
    /\ wallet = Deposit
    /\ entries = [k \in Keys |-> NoEntries]
    /\ journal = {}
    /\ earnings = 0
    /\ redeemed = [c \in Coupons |-> 0]
    /\ sessionsUsed = [p \in Passes |-> 0]
    /\ capacity \in Capacities
    /\ totalBookings = 0
    /\ feePercent \in FeePercents
    /\ started = {}
    /\ proc = [h \in Handlers |-> Idle]

------------------------------------------------------------------------------
(* CreateBooking.                                                          *)

\* Step 1: the key is already in the ledger, so the handler answers with
\* GetByID(ledger.ReferenceID).  creditSplit stored the event's id there.
LedgerReference(k) == EventId

ReplayCreate(h, k) ==
    /\ Free(h)
    /\ <<"booking", k>> \in journal
    /\ Become(h, At(IF /\ LedgerReference(k) \in Keys
                       /\ status[LedgerReference(k)] # "none"
                    THEN "replayed" ELSE "unanswered", k))
    /\ UNCHANGED <<rows, money, event, codes, world>>

\* Steps 2 to 8: read-only checks and the price, before the transaction.
BeginCreate(h, k) ==
    /\ Free(h)
    /\ <<"booking", k>> \notin journal
    /\ SeatsLeft(k)
    /\ CouponValid(k)
    /\ PassUsable(k)
    /\ Become(h, [At("creating", k) EXCEPT !.quote = Quote(k)])
    /\ UNCHANGED <<rows, money, event, codes, world>>

\* The transaction.  The event's row is locked, so the capacity is re-read
\* and the seats re-counted; Debit, Redeem and ConsumeSession are UPDATEs
\* guarded by what they spend; the keys of the three INSERTs are UNIQUE.
\* A guard that fails rolls everything back, which is Abandon.
CommitCreate(h, k) ==
    LET g    == Request[k].guest
        c    == Request[k].coupon
        p    == Request[k].pass
        q    == proc[h].quote
        paid == q.amount > 0
    IN
    /\ Doing(h, "creating", k)
    /\ SeatsLeft(k)
    /\ status[k] = "none"
    /\ MayDebit(g, q.amount)
    /\ MayRedeem(c)
    /\ MaySpendSession(k)
    /\ status' = [status EXCEPT ![k] =
                    IF Request[k].autoConfirm THEN "confirmed" ELSE "pending"]
    /\ charge' = [charge EXCEPT ![k] = q]
    /\ payment' = [payment EXCEPT ![k] = "completed"]
    /\ wallet' = [wallet EXCEPT ![g] = @ - q.amount]
    /\ entries' = [entries EXCEPT ![k] = IF paid THEN CreditSplit(@, q) ELSE @]
    /\ journal' = IF paid THEN journal \cup {<<"booking", k>>} ELSE journal
    /\ earnings' = earnings + q.net
    /\ redeemed' = IF c = None THEN redeemed ELSE [redeemed EXCEPT ![c] = @ + 1]
    /\ sessionsUsed' = IF p = None THEN sessionsUsed
                                   ELSE [sessionsUsed EXCEPT ![p] = @ + 1]
    /\ Become(h, IF Request[k].autoConfirm THEN At("counting", k) ELSE Idle)
    /\ UNCHANGED <<checkedIn, event, world>>

\* IncrementBookingCount: a statement of its own, after the commit.
CountBooking(h, k) ==
    /\ Doing(h, "counting", k)
    /\ totalBookings' = totalBookings + Request[k].qty
    /\ Become(h, Idle)
    /\ UNCHANGED <<rows, money, capacity, codes, world>>

------------------------------------------------------------------------------
(* ConfirmBooking: the status is read, then written by an UPDATE that does *)
(* not look at it again.                                                   *)

\* Fault: only a booking that is already confirmed is refused.
ConfirmableUnlessConfirmed(k) == status[k] \notin {"none", "confirmed"}
Confirmable(k)                == status[k] = "pending"

BeginConfirm(h, k) ==
    /\ Free(h)
    /\ Confirmable(k)
    /\ Become(h, At("confirming", k))
    /\ UNCHANGED <<rows, money, event, codes, world>>

CommitConfirm(h, k) ==
    /\ Doing(h, "confirming", k)
    /\ status' = [status EXCEPT ![k] = "confirmed"]
    /\ Become(h, At("counting", k))
    /\ UNCHANGED <<charge, checkedIn, payment, money, event, codes, world>>

------------------------------------------------------------------------------
(* CancelBooking and CancelBookingByHost, and the performCancellation they *)
(* share.                                                                  *)

BeginCancel(h, k) ==
    /\ Free(h)
    /\ status[k] \in Active
    /\ Request[k].occ \notin started
    /\ Become(h, At("cancelling", k))
    /\ UNCHANGED <<rows, money, event, codes, world>>

\* The host's cancellation has no guard on the occurrence's start.
BeginCancelByHost(h, k) ==
    /\ Free(h)
    /\ status[k] \in Active
    /\ Become(h, At("cancelling", k))
    /\ UNCHANGED <<rows, money, event, codes, world>>

\* The refund's ledger key admits one reversal of a paid booking.
\* Fault: the reversal does not look at the key.
RefundUnguarded(k) == TRUE
MayRefund(k)       == charge[k].amount > 0 => <<"refund", k>> \notin journal

\* ReleaseSession, when the seat was covered by a pass.
\* Fault: the session stays spent.
SessionsKept(k) == sessionsUsed
SessionsAfterCancel(k) ==
    LET p == Request[k].pass IN
    IF p = None THEN sessionsUsed
    ELSE [sessionsUsed EXCEPT ![p] = IF @ = 0 THEN 0 ELSE @ - 1]

\* Reverse the charge exactly as it was snapshotted.  The UPDATE of the status
\* has no guard of its own.
CommitCancel(h, k) ==
    LET g    == Request[k].guest
        paid == charge[k].amount > 0
    IN
    /\ Doing(h, "cancelling", k)
    /\ MayRefund(k)
    /\ status' = [status EXCEPT ![k] = IF paid THEN "refunded" ELSE "cancelled"]
    /\ payment' = [payment EXCEPT ![k] = "reversed"]
    /\ wallet' = [wallet EXCEPT ![g] = @ + charge[k].amount]
    /\ entries' = [entries EXCEPT ![k] = ReverseSplit(@, charge[k])]
    /\ journal' = IF paid THEN journal \cup {<<"refund", k>>} ELSE journal
    /\ earnings' = IF charge[k].net > earnings THEN 0 ELSE earnings - charge[k].net
    /\ sessionsUsed' = SessionsAfterCancel(k)
    /\ Become(h, Idle)
    /\ UNCHANGED <<charge, checkedIn, event, redeemed, world>>

------------------------------------------------------------------------------
(* CheckInScannedTicket: a verdict, then an UPDATE that repeats it.        *)

\* The WHERE clause of CheckInGuests.
\* Fault: the UPDATE trusts the verdict.
AdmitUnguarded(k, n) == n > 0
MayAdmit(k, n) ==
    /\ status[k] = "confirmed"
    /\ checkedIn[k] + n <= Request[k].qty

BeginScan(h, k, n) ==
    /\ Free(h)
    /\ status[k] = "confirmed"
    /\ n <= Request[k].qty - checkedIn[k]
    /\ Become(h, [At("admitting", k) EXCEPT !.number = n])
    /\ UNCHANGED <<rows, money, event, codes, world>>

CommitScan(h, k) ==
    /\ Doing(h, "admitting", k)
    /\ MayAdmit(k, proc[h].number)
    /\ checkedIn' = [checkedIn EXCEPT ![k] = @ + proc[h].number]
    /\ Become(h, Idle)
    /\ UNCHANGED <<status, charge, payment, money, event, codes, world>>

------------------------------------------------------------------------------
(* UpdateEvent reads the whole row and writes it back: the host's new      *)
(* capacity goes in together with the total_bookings read earlier.         *)

BeginUpdateEvent(h) ==
    /\ Free(h)
    /\ proc' = [proc EXCEPT ![h] = [Idle EXCEPT !.pc = "editing",
                                                !.number = totalBookings]]
    /\ UNCHANGED <<rows, money, event, codes, world>>

CommitUpdateEvent(h) ==
    /\ proc[h].pc = "editing"
    /\ capacity' \in Capacities
    /\ totalBookings' = proc[h].number
    /\ Become(h, Idle)
    /\ UNCHANGED <<rows, money, codes, world>>

------------------------------------------------------------------------------
(* A handler that answers, fails a check, rolls back, or dies with its     *)
(* process: nothing it has not committed remains.                          *)

Abandon(h) ==
    /\ ~Free(h)
    /\ Become(h, Idle)
    /\ UNCHANGED <<rows, money, event, codes, world>>

\* An admin changes the commission of future bookings.
SetFeePercent ==
    /\ feePercent' \in FeePercents \ {feePercent}
    /\ UNCHANGED <<rows, money, event, codes, started, proc>>

\* Time passes the start of an occurrence.
Start(o) ==
    /\ o \notin started
    /\ started' = started \cup {o}
    /\ UNCHANGED <<rows, money, event, codes, feePercent, proc>>

KeyStep(h, k) ==
    \/ ReplayCreate(h, k)
    \/ BeginCreate(h, k)
    \/ CommitCreate(h, k)
    \/ CountBooking(h, k)
    \/ BeginConfirm(h, k)
    \/ CommitConfirm(h, k)
    \/ BeginCancel(h, k)
    \/ BeginCancelByHost(h, k)
    \/ CommitCancel(h, k)
    \/ \E n \in 1..MaxParty : BeginScan(h, k, n)
    \/ CommitScan(h, k)

Next ==
    \/ \E h \in Handlers, k \in Keys : KeyStep(h, k)
    \/ \E h \in Handlers : BeginUpdateEvent(h) \/ CommitUpdateEvent(h) \/ Abandon(h)
    \/ SetFeePercent
    \/ \E o \in Occurrences : Start(o)

Spec == Init /\ [][Next]_vars

------------------------------------------------------------------------------
(* Properties that hold whatever rows the database started with.           *)

Refunded(k) == <<"refund", k>> \in journal
UsersOf(x)  == {k \in Keys : Request[k].guest = x}

\* The ledger nets to zero, purchase by purchase: what a key has put there is
\* either the whole four-way split of its row's charge or, once the refund's
\* key is in the journal, nothing at all.  A change of commission between the
\* purchase and the refund, or a second refund, would leave a remainder.
\* (creditSplit and reverseSplit in money.go)
LedgerBalanced ==
    \A k \in Keys :
        /\ charge[k].amount = charge[k].fee + charge[k].net
        /\ <<"booking", k>> \in journal <=> charge[k].amount > 0
        /\ entries[k] = IF Refunded(k) THEN NoEntries
                        ELSE CreditSplit(NoEntries, charge[k])

\* accounts.balance_cents stays equal to SUM(transaction_ledger) for every
\* guest, though it is moved by statements of its own (the drift of bug H2 in
\* the comment on performCancellation).
WalletMatchesLedger ==
    \A g \in Guests :
        wallet[g] = Deposit[g]
                      + SumFunctionOnSet([k \in Keys |-> entries[k].user], UsersOf(g))

\* Scanning one ticket at two doors never lets in more people than it is for.
DoorAdmitsParty == \A k \in Keys : checkedIn[k] <= Request[k].qty

------------------------------------------------------------------------------
(* Properties of the bookings that are confirmed as they are made.  Every  *)
(* caller of CreateBooking asks for AutoConfirm; a row that was left       *)
(* pending, before they did, is a neighbour these bookings must put up     *)
(* with, whatever becomes of it.                                           *)

Prompt == {k \in Keys : Request[k].autoConfirm}

\* The row, its payment and the ledger tell one story: a booking is refunded
\* exactly when its charge was reversed, and its payment row with it.
RowsMatchLedger ==
    \A k \in Prompt :
        /\ Refunded(k) <=> status[k] = "refunded"
        /\ payment[k] = "reversed" <=> status[k] \in {"cancelled", "refunded"}
        /\ status[k] = "cancelled" => charge[k].amount = 0

HostInLedger(K) == SumFunctionOnSet([k \in Keys |-> entries[k].host], K)

\* What GetHostEarningsBreakdown promises the host (the net of the confirmed
\* bookings) is what the ledger holds for the host, so that no earning can be
\* withdrawn for a seat whose price went back to its buyer; and host_earnings,
\* pending rows and all, is the ledger's sum.
HostEarningsBacked ==
    /\ SumFunctionOnSet([k \in Keys |-> charge[k].net],
                        {k \in Prompt : status[k] = "confirmed"}) = HostInLedger(Prompt)
    /\ earnings = HostInLedger(Keys)

\* A seat that was given up is never taken up again by a late step of another
\* request: after cancelled or refunded nothing changes but the same again.
EndedIsFinal ==
    [][\A k \in Prompt : status[k] \in {"cancelled", "refunded"}
                         => status'[k] = status[k] /\ entries'[k] = entries[k]]_vars

\* A late confirmation: ConfirmBooking read a pending row that was given up
\* before its UPDATE, which does not look at the status again.
Revived(k) == /\ k \notin Prompt
              /\ status[k] \in {"cancelled", "refunded"}
              /\ status'[k] = "confirmed"

\* Whenever the seats of an occurrence grow in number they fit the capacity of
\* that moment, however many requests race and whatever the host has set it to
\* since they read it ("closes bug C4", booking_service.go:527); only a pending
\* row that is revived does not ask.
NoOversale ==
    [][\A o \in Occurrences :
          Booked(o)' > Booked(o) => Booked(o)' <= capacity' \/ \E k \in Keys : Revived(k)]_vars

HeldOn(p) == {k \in Keys : status[k] \in Active /\ Request[k].pass = p}

\* A pass is never charged for a session its holder does not hold a seat for,
\* nor for more than it includes.
PassNeverOvercharged ==
    \A p \in Passes :
        /\ sessionsUsed[p] <= PassOf[p].included
        /\ sessionsUsed[p] <= Cardinality(HeldOn(p))

------------------------------------------------------------------------------
(* The desk as a seat sale.                                                *)

SeatedAs(state) == IF state \in Active THEN "yes" ELSE IF state = "none" THEN "no" ELSE "left"

\* The seat sale knows nothing of the rows that were left pending: to it, what
\* they cost is still in their buyer's purse.
SpentPending(g) ==
    SumFunctionOnSet([k \in Keys |-> -entries[k].user], UsersOf(g) \ Prompt)

Sale == INSTANCE SeatSale WITH
    Parties <- Prompt,
    Buyers  <- Guests,
    Dates   <- Occurrences,
    BuyerOf <- [k \in Prompt |-> Request[k].guest],
    DateOf  <- [k \in Prompt |-> Request[k].occ],
    SizeOf  <- [k \in Prompt |-> Request[k].qty],
    MaxSize <- MaxParty,
    seated  <- [k \in Prompt |-> SeatedAs(status[k])],
    price   <- [k \in Prompt |-> -entries[k].user],
    purse   <- [g \in Guests |-> wallet[g] + SpentPending(g)],
    house   <- capacity

\* Every behaviour of the desk is one of the seat sale: for all its handlers
\* and retries a seat changes hands at one instant, for money the buyer had,
\* and the refund returns what the ledger says was paid, once.
ImplementsSeatSale == Sale!SaleSpec

==============================================================================
