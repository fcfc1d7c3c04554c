--------------------------------- MODULE Passes ---------------------------------
(***************************************************************************)
(* Monthly passes of one event: their sale, the sessions they reserve and  *)
(* give back, their lapse and their refund (internal/service/              *)
(* pass_service.go, internal/repository/pass_repository.go,                *)
(* internal/models/pass.go, internal/controller/pass_controller.go).       *)
(*                                                                         *)
(* A pass is named by the idempotency key of its purchase, which is UNIQUE *)
(* in user_passes.  A handler reads in one step and commits in a later     *)
(* one.  The booking desk's transaction for a covered seat is one step     *)
(* here: it repeats every check under the event's row lock.                *)
(***************************************************************************)
EXTENDS Integers, FiniteSetsExt

CONSTANTS
    Keys,          \* idempotency keys of purchases
    Guests,
    Buyer,         \* who sends each key
    Sessions,      \* the event's sessions, as instants
    PassHandlers,  \* requests served at the same time
    NoKey,         \* no key
    Prices,        \* prices the host may set
    Capacity,      \* passes the host sells at the same time
    Included,      \* sessions one pass covers
    Seats,         \* seats of a session
    Validity,      \* PassValidityDays
    RefundWindow,  \* PassRefundWindow
    LastTick,      \* bound: the end of the modelled time
    Deposit        \* a guest's wallet at the start

ASSUME PassAssumption ==
    /\ IsFiniteSet(Keys) /\ IsFiniteSet(PassHandlers) /\ PassHandlers # {}
    /\ Buyer \in [Keys -> Guests]
    /\ NoKey \notin Keys
    /\ Sessions \subseteq Nat
    /\ Prices \subseteq Nat \ {0}
    /\ {Capacity, Included, Seats, Validity, RefundWindow, LastTick, Deposit}
         \subseteq Nat

VARIABLES
    status,    \* user_passes.status
    paid,      \* user_passes.price_cents
    since,     \* user_passes.created_at and valid_from
    seat,      \* the booking of each session a pass took: bookings.status, and
               \* "attended" once its holder was let in
    used,      \* user_passes.sessions_used
    wallet,    \* accounts.balance_cents
    refunds,   \* keys whose refund is in the ledger
    clock,     \* the time
    doing      \* what each handler is doing

held  == <<seat, used>>
money == <<wallet, refunds>>
passVars  == <<status, paid, since, held, money, clock, doing>>

PCs  == {"idle", "buying", "reserving", "giving up", "releasing"}
\* after: where a released seat leaves its handler.
Unoccupied == [pc |-> "idle", key |-> NoKey, price |-> 0, todo |-> {}, listed |-> {},
         booked |-> 0, after |-> "idle"]

Serving(h, pc)    == doing[h].pc = pc
Turn(h, p) == doing' = [doing EXCEPT ![h] = p]

PassesOf(g)   == {k \in Keys : Buyer[k] = g}
ValidUntil(k) == since[k] + Validity

\* CountActive: the passes sold and not yet over.
Live(k)     == status[k] = "active" /\ clock < ValidUntil(k)
CountActive == Cardinality({k \in Keys : Live(k)})

Held(k)     == {o \in Sessions : seat[k][o] \in {"held", "attended"}}
TakenAt(o)  == Cardinality({k \in Keys : o \in Held(k)})

\* UserPass.IsRefundable.
IsRefundable(k) == status[k] = "active" /\ clock - since[k] <= RefundWindow

PassInit ==
    /\ status = [k \in Keys |-> "none"]
    /\ paid = [k \in Keys |-> 0] /\ since = [k \in Keys |-> 0] /\ used = [k \in Keys |-> 0]
    /\ seat = [k \in Keys |-> [o \in Sessions |-> "none"]]
    /\ wallet = [g \in Guests |-> Deposit]
    /\ refunds = {}
    /\ clock = 0
    /\ doing = [h \in PassHandlers |-> Unoccupied]

------------------------------------------------------------------------------
(* PurchasePass.                                                           *)

\* ExpireLapsed: a pass stays 'active' until somebody looks at it.
ExpireLapsed(g) ==
    [k \in Keys |-> IF Buyer[k] = g /\ status[k] = "active" /\ clock >= ValidUntil(k)
                    THEN "expired" ELSE status[k]]

\* Fault: the number of passes sold is not looked at.
SellsWithoutCounting == TRUE
PassesLeft           == CountActive < Capacity

\* GetPassForEvent: reading a pass retires it when it has lapsed.
GetPassForEvent(g) ==
    /\ status' = ExpireLapsed(g)
    /\ UNCHANGED <<paid, since, held, money, clock, doing>>

\* The replay check, then the event with whatever price its host has set, the
\* guest's other pass and the capacity; none of it is locked.
BeginPurchase(h, k, price) ==
    /\ Serving(h, "idle")
    /\ status[k] = "none"
    /\ status' = ExpireLapsed(Buyer[k])
    /\ \A j \in PassesOf(Buyer[k]) : status'[j] # "active"
    /\ PassesLeft
    /\ Turn(h, [Unoccupied EXCEPT !.pc = "buying", !.key = k, !.price = price])
    /\ UNCHANGED <<paid, since, held, money, clock>>

\* accounts.Debit, and the partial UNIQUE index on (event, user) of active rows.
MayDebit(g, amount) == amount <= wallet[g]
MayHoldPass(k) ==
    status[k] = "none" /\ \A j \in PassesOf(Buyer[k]) : status[j] # "active"

\* The sessions the new pass may reserve.
Covered(from) == {o \in Sessions : from <= o /\ o <= from + Validity}

\* The transaction: debit, the pass, the four-way split, the payment.
CommitPurchase(h) ==
    LET k == doing[h].key  amount == doing[h].price IN
    /\ Serving(h, "buying")
    /\ MayHoldPass(k)
    /\ MayDebit(Buyer[k], amount)
    /\ status' = [status EXCEPT ![k] = "active"]
    /\ paid' = [paid EXCEPT ![k] = amount]
    /\ since' = [since EXCEPT ![k] = clock]
    /\ wallet' = [wallet EXCEPT ![Buyer[k]] = @ - amount]
    /\ Turn(h, [Unoccupied EXCEPT !.pc = "reserving", !.key = k, !.todo = Covered(clock)])
    /\ UNCHANGED <<held, refunds, clock>>

------------------------------------------------------------------------------
(* Reserving sessions.                                                     *)

\* ConsumeSession's WHERE clause.
MaySpend(k, o) ==
    status[k] = "active" /\ since[k] <= o /\ o <= ValidUntil(k) /\ used[k] < Included

\* bookings.idempotency_key is pass_<id>_<occurrence>: a seat that was given
\* back cannot be reserved again.
MayReserve(k, o) ==
    /\ status[k] # "none"
    /\ MaySpend(k, o)
    /\ seat[k][o] = "none"
    /\ TakenAt(o) < Seats

TakeSeat(k, o) ==
    /\ seat' = [seat EXCEPT ![k][o] = "held"]
    /\ used' = [used EXCEPT ![k] = @ + 1]

\* reserveCoveredSessions, in the order of the dates; a session that cannot be
\* had is skipped and the sale stands.
ReserveNext(h) ==
    LET p == doing[h]  k == p.key  o == Min(p.todo) IN
    /\ Serving(h, "reserving") /\ p.todo # {} /\ p.booked < Included
    /\ MayReserve(k, o)
    /\ TakeSeat(k, o)
    /\ Turn(h, [p EXCEPT !.todo = @ \ {o}, !.booked = @ + 1])
    /\ UNCHANGED <<status, paid, since, money, clock>>

SkipNext(h) ==
    /\ Serving(h, "reserving") /\ doing[h].todo # {}
    /\ Turn(h, [doing[h] EXCEPT !.todo = @ \ {Min(@)}])
    /\ UNCHANGED <<status, paid, since, held, money, clock>>

\* ReserveSession, for one session at the guest's request.
ReserveSession(k, o) ==
    /\ MayReserve(k, o)
    /\ TakeSeat(k, o)
    /\ UNCHANGED <<status, paid, since, money, clock, doing>>

\* The door lets the holder of a seat in.
Attend(k, o) ==
    /\ seat[k][o] = "held"
    /\ seat' = [seat EXCEPT ![k][o] = "attended"]
    /\ UNCHANGED <<status, paid, since, used, money, clock, doing>>

------------------------------------------------------------------------------
(* Giving up a seat: by its guest, by the host, or by CancelPass.          *)

BeginRelease(h, k, o) ==
    /\ Serving(h, "idle")
    /\ o \in Held(k)
    /\ Turn(h, [Unoccupied EXCEPT !.pc = "giving up", !.key = k, !.todo = {o}])
    /\ UNCHANGED <<status, paid, since, held, money, clock>>

\* performCancellation moved no money for a covered seat; nothing stops it from
\* running twice, and ReleaseSession never goes below zero.
CommitRelease(h) ==
    LET p == doing[h]  k == p.key  o == Min(p.todo) IN
    /\ Serving(h, "giving up")
    /\ seat' = [seat EXCEPT ![k][o] = "released"]
    /\ used' = [used EXCEPT ![k] = IF @ = 0 THEN 0 ELSE @ - 1]
    /\ Turn(h, IF p.after = "idle" THEN Unoccupied
                 ELSE [p EXCEPT !.pc = p.after, !.todo = @ \ {o}, !.after = "idle"])
    /\ UNCHANGED <<status, paid, since, money, clock>>

------------------------------------------------------------------------------
(* CancelPass.                                                             *)

\* ListByPassID, and the test that none of it was used.
Unused(k) == \A o \in Held(k) : seat[k][o] = "held" /\ o >= clock

BeginCancelPass(h, k) ==
    /\ Serving(h, "idle")
    /\ IsRefundable(k)
    /\ Unused(k)
    /\ Turn(h, [Unoccupied EXCEPT !.pc = "releasing", !.key = k,
                              !.todo = Held(k), !.listed = Held(k)])
    /\ UNCHANGED <<status, paid, since, held, money, clock>>

\* CancelBooking of the next seat reads it again; a seat that is gone or has
\* started ends the request with an error, and the pass stays active.
ReleaseNext(h) ==
    LET p == doing[h]  o == Min(p.todo) IN
    /\ Serving(h, "releasing") /\ p.todo # {}
    /\ o \in Held(p.key) /\ o >= clock
    /\ Turn(h, [p EXCEPT !.pc = "giving up", !.after = "releasing"])
    /\ UNCHANGED <<status, paid, since, held, money, clock>>

\* reverseSplit and the status, in one transaction, once every listed seat is
\* free; the refund's ledger key is unique.
\* Fault: it trusts the status it read.
RefundsAgain(h)  == doing[h].todo = {}
MayRefundPass(h) == doing[h].todo = {} /\ doing[h].key \notin refunds

RefundPass(h) ==
    LET k == doing[h].key IN
    /\ Serving(h, "releasing")
    /\ MayRefundPass(h)
    /\ status' = [status EXCEPT ![k] = "refunded"]
    /\ refunds' = refunds \cup {k}
    /\ wallet' = [wallet EXCEPT ![Buyer[k]] = @ + paid[k]]
    /\ Turn(h, Unoccupied)
    /\ UNCHANGED <<paid, since, held, clock>>

------------------------------------------------------------------------------

\* A handler that is done, is refused, gets an error or dies.
LeaveOff(h) ==
    /\ ~Serving(h, "idle")
    /\ Turn(h, Unoccupied)
    /\ UNCHANGED <<status, paid, since, held, money, clock>>

ClockTicks ==
    /\ clock < LastTick
    /\ clock' = clock + 1
    /\ UNCHANGED <<status, paid, since, held, money, doing>>

HandlerStep(h) ==
    \/ \E k \in Keys, price \in Prices : BeginPurchase(h, k, price)
    \/ \E k \in Keys : BeginCancelPass(h, k)
    \/ CommitPurchase(h)
    \/ ReserveNext(h) \/ SkipNext(h)
    \/ \E k \in Keys, o \in Sessions : BeginRelease(h, k, o)
    \/ CommitRelease(h)
    \/ ReleaseNext(h) \/ RefundPass(h)
    \/ LeaveOff(h)

PassNext ==
    \/ \E h \in PassHandlers : HandlerStep(h)
    \/ \E g \in Guests : GetPassForEvent(g)
    \/ \E k \in Keys, o \in Sessions : ReserveSession(k, o) \/ Attend(k, o)
    \/ ClockTicks

PassSpec == PassInit /\ [][PassNext]_passVars

------------------------------------------------------------------------------
(* Properties.                                                             *)

\* The passes live beyond the capacity, with those being bought, are at most
\* the purchases in flight together: the count is not locked (pass_service.go:
\* 141), but it is looked at, and no order of sales, retries, lapses and
\* refunds adds to that.
Buying            == {h \in PassHandlers : Serving(h, "buying")}
CapacityOvershoot ==
    CountActive + Cardinality(Buying) <= Capacity + Cardinality(PassHandlers) - 1

\* A guest's wallet is short of exactly the passes that were bought and not
\* refunded, at the price each was bought at, though the host changes the
\* price, requests are repeated and a refund races another.
WalletMatchesPasses ==
    \A g \in Guests :
        LET bought == {k \in PassesOf(g) : status[k] # "none" /\ k \notin refunds} IN
        wallet[g] = Deposit - SumFunctionOnSet(paid, bought)

\* What is sold of a pass, and what was paid for it.
PassesHold == CapacityOvershoot /\ WalletMatchesPasses

==============================================================================
