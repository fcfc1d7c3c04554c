-------------------------------- MODULE Coupons --------------------------------
(***************************************************************************)
(* A host's coupon codes: created one by one or in batches, edited and     *)
(* deleted (internal/controller/coupon_controller.go) while guests check   *)
(* out with them (validateCoupon in internal/service/booking_service.go).  *)
(* The desk's own sums are in Booking, where a code's terms never change.  *)
(*                                                                         *)
(* An edit reads the row and writes it back; a checkout reads the row and  *)
(* the guest's bookings before its transaction, which rereads only the cap.*)
(***************************************************************************)
EXTENDS Integers, FiniteSets

CONSTANTS
    Slots,       \* coupon rows that may ever be made
    Stock,       \* the table at the start
    Codes,       \* what a code says, case set aside
    Hosts, Events,
    Owner,       \* whose event it is
    Manages,     \* pairs of a host and an event: the owner, or a co-host
    Forms,       \* bodies of POST: the terms of a new coupon
    Bodies,      \* bodies of PUT: the fields they name, and their values
    Edits, Checkouts,
    HostOf,      \* who sends an edit
    GuestOf, EventOf, CodeOf,   \* a checkout's guest, event and code
    MaxBatch,    \* codes in a batch: 500 in the code
    Attempts,    \* collisions a batch bears per code: 8 in the code
    Everywhere, NoLimit, NoCoupon

Limits == Nat \cup {NoLimit}

\* What a field of a coupon may say.
Says == [event |-> Events \cup {Everywhere}, code |-> Codes, max |-> Limits,
         perUser |-> Limits, window |-> SUBSET BOOLEAN, active |-> BOOLEAN]
Fields == DOMAIN Says
AllTerms == [event: Says.event, code: Says.code, max: Says.max, perUser: Says.perUser,
             window: Says.window, active: Says.active]
Rows == [host: Hosts, redeemed: Nat, event: Says.event, code: Says.code, max: Says.max,
         perUser: Says.perUser, window: Says.window, active: Says.active]

ASSUME CouponsAssumption ==
    /\ Owner \in [Events -> Hosts] /\ Manages \subseteq Hosts \X Events
    /\ \A e \in Events : <<Owner[e], e>> \in Manages
    /\ NoLimit \notin Nat /\ Everywhere \notin Events
    /\ HostOf \in [Edits -> Hosts] /\ EventOf \in [Checkouts -> Events]
    /\ Attempts \in Nat \ {0} /\ MaxBatch \in Nat /\ IsFiniteSet(Checkouts)
    /\ \A b \in Bodies : DOMAIN b \subseteq Fields /\ \A f \in DOMAIN b : b[f] \in Says[f]
    /\ Forms \subseteq AllTerms /\ NoCoupon \notin Rows
    /\ Stock \in [Slots -> Rows \cup {NoCoupon}]
    /\ \A c \in Slots : Stock[c] # NoCoupon => Stock[c].redeemed = 0

VARIABLES
    coupons,   \* the table
    edit,      \* what each request to change it is doing
    checkout,  \* what each guest's booking is doing
    day,       \* whether the first days are over
    limits     \* every cap and per-user limit a row ever had

cpVars == <<coupons, edit, checkout, day, limits>>

Listed(c) == coupons[c] # NoCoupon
Is(q, pc) == edit[q].pc = pc
Standing == {"booked", "refunded"}
Unstarted == [pc |-> "new", coupon |-> NoCoupon, read |-> 0, prior |-> {}]
Made == Standing \cup {"cancelled"}

------------------------------------------------------------------------------
(* The table.                                                              *)

\* coupons_host_code_key: a host's codes are unique.
CodeFree(host, code, c) ==
    \A d \in Slots \ {c} : Listed(d) => <<coupons[d].host, coupons[d].code>> # <<host, code>>

Remember(c, row) ==
    limits' = [limits EXCEPT ![c].max = @ \cup {row.max}, ![c].perUser = @ \cup {row.perUser}]

NewRow(host, form) ==
    [host |-> host, redeemed |-> 0, event |-> form.event, code |-> form.code, max |-> form.max,
     perUser |-> form.perUser, window |-> form.window, active |-> form.active]
Insert(c, host, form) ==
    LET row == NewRow(host, form)
    IN /\ ~Listed(c) /\ limits[c].max = {}
       /\ coupons' = [coupons EXCEPT ![c] = row]
       /\ Remember(c, row)

\* FindForCode: the code of the event's owner, of this event or of all.
Found(k) ==
    {c \in Slots :
       /\ Listed(c)
       /\ coupons[c].host = Owner[EventOf[k]]
       /\ coupons[c].code = CodeOf[k]
       /\ coupons[c].event \in {Everywhere, EventOf[k]}}

\* CountUserRedemptions: a booking that was refunded counts, one that was
\* cancelled does not.
UsedBy(guest, c) ==
    {k \in Checkouts :
       checkout[k].coupon = c /\ GuestOf[k] = guest /\ checkout[k].pc \in Standing}

Under(n, limit) == limit # NoLimit => n < limit

------------------------------------------------------------------------------
(* A host's requests.                                                      *)

Answer(q, step) == edit' = [edit EXCEPT ![q] = step]
Done == [pc |-> "done"]

\* resolveEventID: an event the host manages, its own or not.
MayScope(host, event) == event = Everywhere \/ <<host, event>> \in Manages

\* A code that is there is a conflict.
CreateCoupon(q) ==
    /\ Is(q, "new")
    /\ \E form \in Forms :
         /\ MayScope(HostOf[q], form.event)
         /\ IF CodeFree(HostOf[q], form.code, NoCoupon)
            THEN \E c \in Slots : Insert(c, HostOf[q], form)
            ELSE UNCHANGED <<coupons, limits>>
    /\ Answer(q, Done)
    /\ UNCHANGED <<checkout, day>>

\* BatchCreateCoupons: single-use codes, one insertion each.
OpenBatch(q) ==
    /\ Is(q, "new")
    /\ \E n \in 1..MaxBatch, event \in Events \cup {Everywhere} :
         /\ MayScope(HostOf[q], event)
         /\ Answer(q, [pc |-> "batch", left |-> n, tries |-> Attempts, event |-> event])
    /\ UNCHANGED <<coupons, checkout, day, limits>>

\* A generated code is tried; one that collides is drawn again, and a batch that
\* stops keeps what it has made.
BatchCreateCoupons(q) ==
    /\ Is(q, "batch")
    /\ \E code \in Codes :
         IF CodeFree(HostOf[q], code, NoCoupon)
         THEN /\ \E c \in Slots :
                   Insert(c, HostOf[q], [event |-> edit[q].event, code |-> code, max |-> 1,
                            perUser |-> 1, window |-> {TRUE, FALSE}, active |-> TRUE])
              /\ Answer(q, IF edit[q].left = 1 THEN Done
                           ELSE [edit[q] EXCEPT !.left = @ - 1, !.tries = Attempts])
         ELSE /\ UNCHANGED <<coupons, limits>>
              /\ Answer(q, IF edit[q].tries = 1 THEN Done ELSE [edit[q] EXCEPT !.tries = @ - 1])
    /\ UNCHANGED <<checkout, day>>

\* UpdateCoupon reads the row, of the host only.
ReadCoupon(q) ==
    /\ Is(q, "new")
    /\ \E c \in Slots, body \in Bodies :
         /\ Listed(c) /\ coupons[c].host = HostOf[q]
         /\ Answer(q, [pc |-> "read", id |-> c, body |-> body, seen |-> coupons[c]])
    /\ UNCHANGED <<coupons, checkout, day, limits>>

\* A field the body leaves out keeps the value that was read.
\* Fault: it is nulled.
Nulled == [event |-> Everywhere, code |-> "", max |-> NoLimit, perUser |-> NoLimit,
           window |-> {TRUE, FALSE}, active |-> TRUE]
Replaced(seen, body) == [f \in DOMAIN seen |-> IF f \in DOMAIN body THEN body[f]
                                             ELSE IF f \in Fields THEN Nulled[f] ELSE seen[f]]
Merged(seen, body)   == [f \in DOMAIN seen |-> IF f \in DOMAIN body THEN body[f] ELSE seen[f]]

\* Update writes the whole row but its count and kind, if it is still there and
\* its code still free; the event is not resolved again.
UpdateCoupon(q) ==
    LET c    == edit[q].id
        next == Merged(edit[q].seen, edit[q].body)
    IN /\ Is(q, "read")
       /\ IF Listed(c) /\ CodeFree(HostOf[q], next.code, c)
          THEN /\ coupons' = [coupons EXCEPT ![c] = [next EXCEPT !.redeemed = coupons[c].redeemed]]
               /\ Remember(c, next)
          ELSE UNCHANGED <<coupons, limits>>
       /\ Answer(q, Done)
       /\ UNCHANGED <<checkout, day>>

\* Delete: the bookings' foreign key keeps a code that was used.
DeleteCoupon(q) ==
    /\ Is(q, "new")
    /\ \E c \in Slots :
         /\ Listed(c) /\ coupons[c].host = HostOf[q]
         /\ \A k \in Checkouts : checkout[k].pc \in Made => checkout[k].coupon # c
         /\ coupons' = [coupons EXCEPT ![c] = NoCoupon]
    /\ Answer(q, Done)
    /\ UNCHANGED <<checkout, day, limits>>

\* A request that fails or dies between its statements.
GiveUpEdit(q) ==
    /\ edit[q].pc \in {"read", "batch"}
    /\ Answer(q, Done)
    /\ UNCHANGED <<coupons, checkout, day, limits>>

------------------------------------------------------------------------------
(* A guest's checkout.                                                     *)

\* validateCoupon; "prior": the bookings it counted from.
ValidateCoupon(k) ==
    /\ checkout[k].pc = "new"
    /\ \E c \in Found(k) :
         /\ coupons[c].active /\ day \in coupons[c].window
         /\ Under(coupons[c].redeemed, coupons[c].max)
         /\ Under(Cardinality(UsedBy(GuestOf[k], c)), coupons[c].perUser)
         /\ checkout' = [checkout EXCEPT ![k] =
                [pc |-> "valid", coupon |-> c, read |-> coupons[c].redeemed,
                 prior |-> UsedBy(GuestOf[k], c)]]
    /\ UNCHANGED <<coupons, edit, day, limits>>

\* The increment is refused above the cap.
\* Fault: the count that was read is trusted.
CapAsRead(k) == LET c == checkout[k].coupon IN Listed(c) /\ Under(checkout[k].read, coupons[c].max)
CapHolds(k)  == LET c == checkout[k].coupon IN Listed(c) /\ Under(coupons[c].redeemed, coupons[c].max)

\* Redeem and the booking, in one transaction; or neither.
Redeem(k) ==
    /\ checkout[k].pc = "valid"
    /\ \/ /\ CapHolds(k)
          /\ coupons' = [coupons EXCEPT ![checkout[k].coupon].redeemed = @ + 1]
          /\ checkout' = [checkout EXCEPT ![k].pc = "booked", ![k].read = 0]
       \/ /\ UNCHANGED coupons
          /\ checkout' = [checkout EXCEPT ![k] = [Unstarted EXCEPT !.pc = "failed"]]
    /\ UNCHANGED <<edit, day, limits>>

\* A free booking is cancelled, a paid one refunded; the count stays.
EndBooking(k) ==
    /\ checkout[k].pc = "booked"
    /\ \E pc \in {"cancelled", "refunded"} : checkout' = [checkout EXCEPT ![k].pc = pc]
    /\ UNCHANGED <<coupons, edit, day, limits>>

\* valid_from and valid_until come and pass.
DayPasses == ~day /\ day' = TRUE /\ UNCHANGED <<coupons, edit, checkout, limits>>

CouponsInit ==
    /\ coupons = Stock
    /\ edit = [q \in Edits |-> [pc |-> "new"]]
    /\ checkout = [k \in Checkouts |-> Unstarted]
    /\ day = FALSE
    /\ limits = [c \in Slots |-> IF Listed(c) THEN [max |-> {Stock[c].max}, perUser |-> {Stock[c].perUser}]
                                            ELSE [max |-> {}, perUser |-> {}]]

CouponsNext ==
    \/ \E q \in Edits :
          \/ CreateCoupon(q) \/ OpenBatch(q) \/ BatchCreateCoupons(q)
          \/ ReadCoupon(q) \/ UpdateCoupon(q) \/ DeleteCoupon(q) \/ GiveUpEdit(q)
    \/ \E k \in Checkouts : ValidateCoupon(k) \/ Redeem(k) \/ EndBooking(k)
    \/ DayPasses

CouponsSpec == CouponsInit /\ [][CouponsNext]_cpVars

------------------------------------------------------------------------------
(* Properties.                                                             *)

\* However the terms are edited while guests check out, a code is used at most
\* as often as the largest cap it ever had.
CapEverHeld ==
    \A c \in Slots :
        Listed(c) => \E n \in limits[c].max : n = NoLimit \/ coupons[c].redeemed <= n

\* A guest has more standing bookings with a code than it ever allowed only
\* when two of them were made at once, each unseen by the other's count.
PerUserLimitBrokenOnlyByOverlap ==
    \A c \in Slots, k \in Checkouts :
        LET used == UsedBy(GuestOf[k], c) IN
        (\A n \in limits[c].perUser : n # NoLimit /\ Cardinality(used) > n) =>
            \/ used = {}
            \/ \E i, j \in used :
                 i # j /\ i \notin checkout[j].prior /\ j \notin checkout[i].prior

\* A booking's code is there, was the event owner's, and counts it.
EveryUseIsCounted ==
    /\ \A k \in Checkouts :
          checkout[k].pc \in Made =>
             /\ Listed(checkout[k].coupon)
             /\ coupons[checkout[k].coupon].host = Owner[EventOf[k]]
    /\ \A c \in Slots :
          Listed(c) => coupons[c].redeemed =
                      Cardinality({k \in Checkouts : checkout[k].coupon = c
                                                        /\ checkout[k].pc \in Made})

\* A code is used within its limits, and every use is counted.
CodesKeepTheirLimits ==
    CapEverHeld /\ PerUserLimitBrokenOnlyByOverlap /\ EveryUseIsCounted

\* An edit changes a term it does not name only by putting back what it had
\* read, over another edit: a code that was switched off comes back on only so,
\* or by an edit that says so.
EditsLostOnlyByOverlap ==
    [][\A c \in Slots, f \in Fields :
          Listed(c) /\ Listed(c)' /\ coupons[c][f] # coupons'[c][f] =>
             \E q \in Edits :
                /\ Is(q, "read") /\ Is(q, "done")' /\ edit[q].id = c
                /\ \/ f \in DOMAIN edit[q].body
                   \/ /\ coupons'[c][f] = edit[q].seen[f]
                      /\ coupons[c][f] # edit[q].seen[f]]_cpVars

==============================================================================
