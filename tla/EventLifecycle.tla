----------------------------- MODULE EventLifecycle -----------------------------
(***************************************************************************)
(* One event from its creation to its deletion: the form its host fills in,*)
(* publishing, pausing, resuming, cancelling and deleting it, and what     *)
(* these do to the bookings that guests make and give up meanwhile         *)
(* (internal/service/event_service.go, internal/controller/                *)
(* event_controller.go, internal/repository/event_repository.go).          *)
(*                                                                         *)
(* A handler reads the event's row in one step and writes in a later one:  *)
(* UpdateEvent, PauseEvent and ResumeEvent write the whole row they read.  *)
(* PauseEvent answers and refunds in a goroutine, which dies with the      *)
(* process.  A booking is a paid seat of a given occurrence; the desk's    *)
(* transaction and the four-way refund are Booking's, here one step each.  *)
(***************************************************************************)
EXTENDS Calendar

CONSTANTS
    Bookings,        \* bookings guests may make
    SlotOf,          \* the occurrence each is for
    Handlers,        \* requests served at the same time
    None,            \* no booking
    CreateRequests,  \* bodies of POST /events
    Updates,         \* bodies of PUT /events/{id}: the fields to change
    PauseRequests,   \* bodies of POST /events/{id}/pause: [from, date]
    MaxOperations    \* bound: operations the managers of the event start

\* What both kinds of bodies say of the dates lies in the modelled time.
WithinTime(req) ==
    /\ "time" \in DOMAIN req => req.time \in Instants
    /\ "dates" \in DOMAIN req => req.dates \subseteq Instants

\* A new event has all the fields of its calendar; only the handlers of pauses
\* and of the status touch what is theirs.
CalendarFields == {"time", "recurring", "rule", "schedule", "dates", "session",
                   "windows", "duration", "break", "cap", "status"}

ASSUME LifecycleAssumption ==
    /\ SlotOf \in [Bookings -> Instants]
    /\ None \notin Bookings
    /\ MaxOperations \in Nat
    /\ PauseRequests \subseteq [from: 0..Never, date: 0..Never]
    /\ \A req \in CreateRequests : CalendarFields \subseteq DOMAIN req /\ WithinTime(req)
    /\ \A req \in Updates :
         DOMAIN req \cap {"status", "pausedFrom", "pausedDates"} = {} /\ WithinTime(req)

VARIABLES
    row,         \* the event's row; status "none" before it is created
    booking,     \* bookings.status: "none", "confirmed", "refunded", or "erased"
    credited,    \* how often a booking's price went back to its guest
    now,         \* the clock
    operations,  \* managers' operations begun so far
    lost,        \* refunds a pause owed and that failed or died with the process
    proc         \* what each handler is doing

seats == <<booking, credited>>
vars  == <<row, seats, now, operations, lost, proc>>

------------------------------------------------------------------------------
(* The form.                                                               *)

\* One-on-one events have one seat per session, and their windows decide the
\* kind of their schedule.
WithSessions(r) ==
    IF r.session # "one_on_one" THEN r
    ELSE IF HasWeeklyWindows(r.windows)
         THEN [r EXCEPT !.cap = 1, !.schedule = "recurring", !.recurring = TRUE,
                        !.dates = {}, !.rule = IF @ = "none" THEN "weekly" ELSE @]
         ELSE [r EXCEPT !.cap = 1, !.schedule = "custom_dates", !.recurring = FALSE]

\* applyPrivacyInvariants.
WithPrivacy(r) ==
    IF ~r.private THEN [r EXCEPT !.mode = "passkey"]
    ELSE IF r.mode = "rsvp" THEN [r EXCEPT !.passkey = FALSE, !.passkeyFree = FALSE]
    ELSE r

\* validatePrivacyConfig.
PrivacyWorks(r) == r.private /\ r.mode = "rsvp" => r.details

\* applyMonthlyPass: "on" and "off" are the host's choice, "bad" a limit below 1;
\* a body without the field leaves the pass as it is.
PassAccepted(r, req) ==
    /\ "pass" \in DOMAIN req /\ req.pass # "off" =>
          req.pass = "on" /\ r.schedule # "one_time" /\ ~r.free

\* CreateEvent's defaults: draft, and a schedule guessed from the dates.
WithDefaults(req) ==
    [req EXCEPT
        !.status   = IF @ = "" THEN "draft" ELSE @,
        !.schedule = IF @ # "" THEN @
                     ELSE IF req.dates # {} THEN "custom_dates"
                     ELSE IF req.recurring THEN "recurring" ELSE "one_time"]

Unpaused == [pausedFrom |-> Never, pausedDates |-> {}]

\* The row a valid body makes, out of nothing or out of the row that was read:
\* what the body leaves out stays.
Over(r, req) == [f \in DOMAIN r \cup DOMAIN req |-> IF f \in DOMAIN req THEN req[f] ELSE r[f]]

Created(req)      == WithPrivacy(WithSessions(Over(Unpaused, WithDefaults(req))))
Edited(copy, req) == WithPrivacy(WithSessions(Over(copy, req)))
Valid(r, req)     == PassAccepted(r, req) /\ PrivacyWorks(r)

------------------------------------------------------------------------------
(* Handlers.                                                               *)

NoRow == [status |-> "none"]
Exists == row.status \notin {"none", "deleted"}

Idle == [pc |-> "idle", op |-> "none", copy |-> NoRow, body |-> <<>>, at |-> 0,
         seen |-> {}, todo |-> {}, current |-> None, failed |-> FALSE]

Free(h)      == proc[h].pc = "idle"
At(h, pc)    == proc[h].pc = pc
Become(h, p) == proc' = [proc EXCEPT ![h] = p]

Confirmed == {b \in Bookings : booking[b] = "confirmed"}
Booked(t) == Cardinality({b \in Confirmed : SlotOf[b] = t})
Full      == {SlotOf[b] : b \in {c \in Bookings : Booked(SlotOf[c]) >= row.cap}}

Init ==
    /\ row = NoRow
    /\ booking = [b \in Bookings |-> "none"]
    /\ credited = [b \in Bookings |-> 0]
    /\ now = 0
    /\ operations = 0
    /\ lost = {}
    /\ proc = [h \in Handlers |-> Idle]

CreateEvent(req) ==
    /\ row.status = "none"
    /\ req.status \in {"", "draft", "live"}
    /\ Valid(Created(req), req)
    /\ row' = Created(req)
    /\ UNCHANGED <<seats, now, operations, lost, proc>>

\* Every operation of a manager starts by reading the row; those that write
\* it back keep what they read, rolled forward.
Begin(h, p) ==
    /\ Free(h) /\ Exists
    /\ operations < MaxOperations
    /\ operations' = operations + 1
    /\ Become(h, p)
    /\ UNCHANGED <<row, seats, now, lost>>

\* A full-row UPDATE; it matches nothing once the event is deleted.
Overwrite(r) == row' = IF Exists THEN r ELSE row

Writing(op) == [Idle EXCEPT !.op = op, !.pc = "writing", !.copy = Rolled(row, now)]
Listing(op) == [Idle EXCEPT !.op = op, !.pc = "listing"]

BeginUpdate(h, req) == Begin(h, [Writing("update") EXCEPT !.body = req])

CommitUpdate(h) ==
    LET p == proc[h]  r == Edited(p.copy, p.body) IN
    /\ At(h, "writing") /\ p.op = "update"
    /\ Valid(r, p.body)
    /\ Overwrite(r)
    /\ Become(h, Idle)
    /\ UNCHANGED <<seats, now, operations, lost>>

\* Only what was read as a draft is published; the UPDATE of the status does
\* not look at it again.
BeginPublish(h) == row.status = "draft" /\ Begin(h, [Writing("publish") EXCEPT !.copy = NoRow])

CommitPublish(h) ==
    /\ At(h, "writing") /\ proc[h].op = "publish"
    /\ Overwrite([row EXCEPT !.status = "live"])
    /\ Become(h, Idle)
    /\ UNCHANGED <<seats, now, operations, lost>>

BeginPause(h, req) ==
    Begin(h, [Writing("pause") EXCEPT !.body = req, !.at = now])

\* The handler answers here; from "listing" on it is the background goroutine.
CommitPause(h) ==
    LET p == proc[h] IN
    /\ At(h, "writing") /\ p.op = "pause"
    /\ Overwrite([p.copy EXCEPT
          !.status      = "paused",
          !.pausedFrom  = p.body.from,
          !.pausedDates = IF p.body.date = Never THEN @ ELSE @ \cup {p.body.date}])
    /\ Become(h, [p EXCEPT !.pc = "listing", !.copy = NoRow])
    /\ UNCHANGED <<seats, now, operations, lost>>

Resumed(copy) == [copy EXCEPT !.pausedFrom = Never, !.pausedDates = {}, !.status = "live"]

BeginResume(h) == Begin(h, Writing("resume"))

CommitResume(h) ==
    /\ At(h, "writing") /\ proc[h].op = "resume"
    /\ Overwrite(Resumed(proc[h].copy))
    /\ Become(h, Idle)
    /\ UNCHANGED <<seats, now, operations, lost>>

BeginCancel(h) == Begin(h, Listing("cancel"))
BeginDelete(h) == Begin(h, Listing("delete"))

------------------------------------------------------------------------------
(* Refunding the bookings of an event.                                     *)

\* What a pause covers: one date, everything from a date on, or all that lies
\* ahead of the moment of the request.
InPauseScope(p, b) ==
    IF p.body.date # Never THEN SlotOf[b] = p.body.date
    ELSE IF p.body.from # Never THEN SlotOf[b] >= p.body.from
    ELSE SlotOf[b] >= p.at

\* Which of the listed bookings the handler goes on to refund.
\* Fault: a cancellation forgets those of the next session.
RefundsExceptNext == {b \in Confirmed : SlotOf[b] > now + 1}
CancelRefunds     == {b \in Confirmed : SlotOf[b] >= now}

\* Fault: a pause from a date on refunds that date only.
PauseRefundsExact(p) ==
    {b \in Bookings : booking[b] # "none" /\ SlotOf[b] \in {p.body.from, p.body.date}}
PauseRefunds(p) == {b \in Bookings : booking[b] # "none" /\ InPauseScope(p, b)}

\* DeleteEvent: no listed booking may be active.
\* Fault: only bookings still ahead hold the deletion up.
MayDeletePast == \A b \in Confirmed : SlotOf[b] < now
MayDelete     == Confirmed = {}

\* ListByEventID; a cancellation looks at the clock now.
List(h) ==
    LET p == proc[h]
        todo == CASE p.op = "pause"  -> PauseRefunds(p)
                  [] p.op = "cancel" -> CancelRefunds
                  [] OTHER           -> {}
    IN
    /\ At(h, "listing")
    /\ p.op = "delete" => MayDelete
    /\ Become(h, [p EXCEPT !.pc = "refunding", !.seen = {b \in Bookings : booking[b] # "none"},
                           !.todo = todo, !.at = IF p.op = "cancel" THEN now ELSE @])
    /\ UNCHANGED <<row, seats, now, operations, lost>>

\* CancelBookingByHost, for the next booking: the row is read and, unless the
\* booking is over, goes on to the transaction.
TakeNext(h, b) ==
    LET p == proc[h] IN
    /\ At(h, "refunding") /\ b \in p.todo
    /\ Become(h, IF booking[b] = "confirmed"
                 THEN [p EXCEPT !.pc = "crediting", !.current = b, !.todo = @ \ {b}]
                 ELSE [p EXCEPT !.failed = TRUE, !.todo = @ \ {b}])
    /\ UNCHANGED <<row, seats, now, operations, lost>>

\* performCancellation's transaction: the refund's ledger key is unique.
MayRefund(b) == booking[b] = "confirmed" /\ credited[b] = 0

GiveBack(b) ==
    /\ MayRefund(b)
    /\ booking' = [booking EXCEPT ![b] = "refunded"]
    /\ credited' = [credited EXCEPT ![b] = @ + 1]

Refund(h) ==
    /\ At(h, "crediting")
    /\ GiveBack(proc[h].current)
    /\ Become(h, [proc[h] EXCEPT !.pc = "refunding", !.current = None])
    /\ UNCHANGED <<row, now, operations, lost>>

\* The transaction fails: the key is in use, or the database refuses.  The
\* cancellation counts it as an error, the pause logs it and goes on.
RefundFails(h) ==
    LET p == proc[h] IN
    /\ At(h, "crediting")
    /\ Become(h, [p EXCEPT !.pc = "refunding", !.current = None, !.failed = TRUE])
    /\ lost' = IF p.op = "pause" THEN lost \cup {p.current} ELSE lost
    /\ UNCHANGED <<row, seats, now, operations>>

\* After the loop: a pause is done; a cancellation with errors stops short of
\* the status, so that the host retries it; otherwise it marks the event.
\* Fault: it marks the event whatever failed.
MayCloseWhateverFailed(p) == p.todo = {}
MayClose(p) == p.todo = {} /\ ~p.failed

FinishPause(h) ==
    /\ At(h, "refunding") /\ proc[h].op = "pause" /\ proc[h].todo = {}
    /\ Become(h, Idle)
    /\ UNCHANGED <<row, seats, now, operations, lost>>

FinishCancel(h) ==
    /\ At(h, "refunding") /\ proc[h].op = "cancel"
    /\ MayClose(proc[h])
    /\ Overwrite([row EXCEPT !.status = "cancelled"])
    /\ Become(h, Idle)
    /\ UNCHANGED <<seats, now, operations, lost>>

\* The row's bookings go with it (ON DELETE CASCADE).
FinishDelete(h) ==
    /\ At(h, "refunding") /\ proc[h].op = "delete"
    /\ row' = [row EXCEPT !.status = "deleted"]
    /\ booking' = [b \in Bookings |-> IF booking[b] = "none" THEN "none" ELSE "erased"]
    /\ Become(h, Idle)
    /\ UNCHANGED <<credited, now, operations, lost>>

------------------------------------------------------------------------------
(* Guests.                                                                 *)

\* CreateBooking does not look at the event's status.
BeginBook(h, b) ==
    /\ Free(h) /\ Exists
    /\ booking[b] = "none"
    /\ Booked(SlotOf[b]) < row.cap
    /\ Become(h, [Idle EXCEPT !.pc = "booking", !.current = b])
    /\ UNCHANGED <<row, seats, now, operations, lost>>

\* Its transaction locks the event's row, which must still be there.
CommitBook(h) ==
    LET b == proc[h].current IN
    /\ At(h, "booking") /\ Exists
    /\ booking[b] = "none"
    /\ Booked(SlotOf[b]) < row.cap
    /\ booking' = [booking EXCEPT ![b] = "confirmed"]
    /\ Become(h, Idle)
    /\ UNCHANGED <<row, credited, now, operations, lost>>

\* CancelBooking by the guest, before the occurrence starts.
BeginGiveUp(h, b) ==
    /\ Free(h)
    /\ b \in Confirmed /\ SlotOf[b] > now
    /\ Become(h, [Idle EXCEPT !.pc = "giving up", !.current = b])
    /\ UNCHANGED <<row, seats, now, operations, lost>>

CommitGiveUp(h) ==
    /\ At(h, "giving up")
    /\ GiveBack(proc[h].current)
    /\ Become(h, Idle)
    /\ UNCHANGED <<row, now, operations, lost>>

------------------------------------------------------------------------------

\* Bookings a pause has promised to refund and not yet come to.
Owed(h) ==
    LET p == proc[h] IN
    IF p.op # "pause" THEN {}
    ELSE IF p.pc = "listing"   THEN {b \in Confirmed : InPauseScope(p, b)}
    ELSE IF p.pc = "refunding" THEN p.todo \cap Confirmed
    ELSE IF p.pc = "crediting" THEN (p.todo \cup {p.current}) \cap Confirmed
    ELSE {}

\* A handler that fails a check, gets an error or dies with its process.
Abandon(h) ==
    /\ ~Free(h)
    /\ lost' = lost \cup Owed(h)
    /\ Become(h, Idle)
    /\ UNCHANGED <<row, seats, now, operations>>

Tick ==
    /\ now < LastInstant
    /\ now' = now + 1
    /\ UNCHANGED <<row, seats, operations, lost, proc>>

Manage(h) ==
    \/ \E req \in Updates : BeginUpdate(h, req)
    \/ BeginPublish(h)
    \/ \E req \in PauseRequests : BeginPause(h, req)
    \/ BeginResume(h)
    \/ BeginCancel(h)
    \/ BeginDelete(h)

Proceed(h) ==
    \/ CommitUpdate(h) \/ CommitPublish(h) \/ CommitPause(h) \/ CommitResume(h)
    \/ List(h)
    \/ \E b \in Bookings : TakeNext(h, b)
    \/ Refund(h)
    \/ FinishPause(h) \/ FinishCancel(h) \/ FinishDelete(h)

Next ==
    \/ \E req \in CreateRequests : CreateEvent(req)
    \/ \E h \in Handlers :
          \/ Manage(h) \/ Proceed(h)
          \/ RefundFails(h) \/ Abandon(h)
          \/ \E b \in Bookings : BeginBook(h, b) \/ BeginGiveUp(h, b)
          \/ CommitBook(h) \/ CommitGiveUp(h)
    \/ Tick

Spec == Init /\ [][Next]_vars

------------------------------------------------------------------------------
(* Properties.                                                             *)

Filters == {"draft", "live", "paused", "cancelled", "expired"}

\* Nothing generates dates: the base time stands in for the calendar.
StandsAlone(r) == Generated(r, now, TRUE) = {}

\* Guests' availability, the public feed and the host's two calendars each
\* work out when an event takes place, and what is paused, by rules of their
\* own ("Mirrors the rule used by calculateAvailabilityInternal", event_service.
\* go:1239), and agree: no occurrence generated for guests is paused by the rule
\* of the feed, and the host's list marks exactly those that are, but for a base
\* time that stands alone, which any pause marks (:1445); a card in the feed
\* announces a date that is on offer, or the only one the event has; the host's
\* calendar has every date on offer, if no rule is left on an event that does not
\* repeat (its calendar looks at is_recurring, availability at the rule, :1362);
\* and the administrators' directory lists the event under one filter, not as
\* expired while the feed has it, at a date that is the calendar's.
ViewsAgree ==
    Exists =>
        LET r == Rolled(row, now)
            next == NextAvailable(r, now, Full)
            offered == OfferedToGuests(r, now)
        IN
        /\ \A o \in Generated(r, now, FALSE) : ~IsOccurrencePaused(r, o.date)
        /\ \A o \in ShownToHost(r, now) :
              (o.paused <=> IsOccurrencePaused(r, o.date)) \/ StandsAlone(r)
        /\ next # Never =>
              \/ next \in offered \ Full
              \/ (next = r.time /\ ~Repeats(r) /\ ~HasDates(r))
        /\ (r.rule # "none" => r.recurring) => offered \subseteq CalendarOf(r, now, Never) \cup {r.time}
        /\ Cardinality({f \in Filters : ListedAs(row, now, f)}) = 1
        /\ InFeed(r, now, Full) => ListedAs(row, now, "live") \/ ListedAs(row, now, "paused")
        /\ DirectoryDate(row, now) \in CalendarOf(r, 0, Never) \cup {r.time}

\* An event that is marked cancelled has refunded every booking it listed and
\* that was still ahead ("refunds every still-active booking").
CancelledOwesNothing ==
    [][\A h \in Handlers :
         proc[h].op = "cancel" /\ proc[h].pc = "refunding" /\ proc'[h].pc = "idle"
            /\ row'.status = "cancelled" /\ row.status # "cancelled"
           => \A b \in proc[h].seen : booking[b] = "confirmed" => SlotOf[b] < proc[h].at]_vars

\* A deletion erases no booking that was there when it looked.
DeleteErasesOnlyUnseen ==
    [][\A b \in Bookings :
         booking[b] = "confirmed" /\ booking'[b] = "erased"
           => \E h \in Handlers : proc[h].op = "delete" /\ b \notin proc[h].seen]_vars

\* A pause that is over has refunded every booking it listed and covered,
\* whatever guests and other operations did meanwhile; the only ones it still
\* leaves confirmed are those whose refund failed or died with the process.
PauseForgetsNobody ==
    [][\A h \in Handlers :
         proc[h].op = "pause" /\ proc[h].pc # "idle" /\ proc'[h].pc = "idle"
           => \A b \in proc[h].seen :
                InPauseScope(proc[h], b) /\ booking[b] = "confirmed" => b \in lost']_vars

\* Neither a cancellation nor a pause forgets someone it has to refund.
RefundsForgetNobody == CancelledOwesNothing /\ PauseForgetsNobody

==============================================================================
