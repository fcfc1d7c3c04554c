------------------------------ MODULE MCBooking ------------------------------
(***************************************************************************)
(* Small instances of Booking for TLC: one event, two handlers that run at *)
(* the same time, and a few requests chosen to collide.  A behaviour takes *)
(* up some of the requests, chosen at the start, so that one run explores  *)
(* the sum of their states.                                                *)
(***************************************************************************)
EXTENDS Booking, TLC

CONSTANTS k1, k2, k3, k4, k5, k6, \* idempotency keys
          g1, g2,         \* guests
          d1,             \* an occurrence
          c1,             \* a coupon
          p1,             \* a pass
          h1, h2          \* request handlers

VARIABLE focus

NoRequest == [guest |-> g1, occ |-> d1, qty |-> 1, coupon |-> None, pass |-> None,
              online |-> FALSE, offline |-> FALSE, autoConfirm |-> TRUE]

\* Two paid bookings of different size, one of them online.
PaidRequests ==
    (k1 :> [NoRequest EXCEPT !.online = TRUE])
    @@ (k2 :> [NoRequest EXCEPT !.qty = 2])

\* A single-use code and a single session, each wanted twice; one row is left
\* pending, as rows from before AutoConfirm were.
ScarceRequests ==
    (k3 :> [NoRequest EXCEPT !.coupon = c1, !.qty = 2, !.online = TRUE,
                             !.autoConfirm = FALSE])
    @@ (k4 :> [NoRequest EXCEPT !.coupon = c1, !.guest = g2])
    @@ (k5 :> [NoRequest EXCEPT !.pass = p1])
    @@ (k6 :> [NoRequest EXCEPT !.pass = p1])

AllRequests == PaidRequests @@ ScarceRequests

\* Handlers differ only in name, so states that swap them are one.
SwapHandlers == Permutations({h1, h2})

FlatFee     == [type |-> "flat", amount |-> 2, percentage |-> 0]
OneCoupon   == c1 :> [grantsFree |-> FALSE, discount |-> 25, max |-> 1, perUser |-> 1]
OneSession  == p1 :> [owner |-> g1, covers |-> {d1}, included |-> 1]
Wallets     == (g1 :> 30) @@ (g2 :> 12)

FocusInit ==
    /\ focus \in {"paid", "scarce"}
    /\ Init
    /\ focus = "scarce" => capacity = 3 /\ feePercent = 15

Requested == IF focus = "paid" THEN {k1, k2} ELSE {k3, k4, k5, k6}

\* Paid bookings meet changes of the event and of the commission, scarce ones
\* do not.
FocusNext ==
    /\ \/ \E h \in Handlers : Abandon(h) \/ \E k \in Requested : KeyStep(h, k)
       \/ \E o \in Occurrences : Start(o)
       \/ /\ focus = "paid"
          /\ \/ SetFeePercent
             \/ \E h \in Handlers : BeginUpdateEvent(h) \/ CommitUpdateEvent(h)
    /\ UNCHANGED focus

FocusSpec == FocusInit /\ [][FocusNext]_<<vars, focus>>

==============================================================================
