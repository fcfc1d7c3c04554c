-------------------------------- MODULE Notices --------------------------------
(***************************************************************************)
(* What guests are told: reminders before a session                        *)
(* (internal/lib/notification/reminder_scheduler.go, twilio.go), reminders *)
(* an administrator sends, and the marketing blast of an event to every    *)
(* account (admin_directory_controller.go).                                *)
(***************************************************************************)
EXTENDS Naturals, FiniteSetsExt

CONSTANTS
    Bookings,    \* bookings of one event
    Reachable,   \* the channels each booking's guest has
    Schedulers,  \* server processes: two while one replaces the other
    EventTime,   \* events.time
    Lead,        \* how long before it the reminder goes out
    Horizon,     \* bound: the clock stops there
    Batch,       \* bookings a tick takes up: 100
    MaxLost,     \* bound: messages sent and not recorded
    Accounts,    \* user rows a blast may address
    Phone,       \* the number of each
    Email        \* the address of each

Channels == {"whatsapp", "email"}

ASSUME NoticeAssumption ==
    /\ \A b \in Bookings : Reachable[b] \subseteq Channels
    /\ {EventTime, Lead, Horizon, Batch, MaxLost} \subseteq Nat

VARIABLES
    now,   \* the clock
    live,  \* bookings pending or confirmed
    flag,  \* reminder_notification_sent_*: <<booking, channel>>
    reminded,  \* reminders delivered by the schedulers
    lost,  \* of those, the ones that were not recorded
    tick,  \* what each scheduler is at
    blast, \* the blast that holds promoteInFlight
    posted \* its deliveries, by address

noticeVars == <<now, live, flag, reminded, lost, tick, blast, posted>>

Quiet    == [step |-> "idle"]
Notes    == Bookings \X Channels
Address  == {Phone[a] : a \in Accounts} \cup {Email[a] : a \in Accounts}

NoticeInit ==
    /\ now = 0 /\ live = Bookings
    /\ flag = {} /\ reminded = [n \in Notes |-> 0] /\ lost = [n \in Notes |-> 0]
    /\ tick = [s \in Schedulers |-> Quiet]
    /\ blast = Quiet /\ posted = [x \in Address |-> 0]

------------------------------------------------------------------------------
(* The scheduler.                                                          *)

\* The window is that of the event's own time, whatever session was booked.
InWindow == now + Lead >= EventTime /\ now <= EventTime

\* ListPendingReminderNotifications: a channel is unsent; in no order.
Unsent == {b \in live : \E c \in Channels : <<b, c>> \notin flag}

Tick(s) ==
    /\ tick[s] = Quiet /\ Unsent # {}
    /\ \E taken \in kSubset(Min({Batch, Cardinality(Unsent)}), Unsent) :
           tick' = [tick EXCEPT ![s] =
               [step |-> "choose", due |-> InWindow, todo |-> taken,
                read |-> flag \cap (taken \X Channels)]]
    /\ UNCHANGED <<now, live, flag, reminded, lost, blast, posted>>

\* Fault: a channel that was served is served again with the other.
UnsentOnAny(s, b, channel) ==
    \E c \in Channels : <<b, c>> \notin tick[s].read

\* Each channel is gated by its own flag, as it was when the list was read.
UnsentOn(s, b, channel) == <<b, channel>> \notin tick[s].read

Goes(s, step, b) ==
    tick' = [tick EXCEPT ![s] =
        [step |-> step, due |-> @.due, todo |-> @.todo \ {b}, read |-> @.read, booking |-> b]]

ChooseBooking(s) ==
    /\ tick[s].step = "choose"
    /\ \/ \E b \in tick[s].todo :
              /\ tick[s].due /\ Goes(s, "whatsapp", b)
       \/ /\ tick[s].todo = {} \/ ~tick[s].due
          /\ tick' = [tick EXCEPT ![s] = Quiet]
    /\ UNCHANGED <<now, live, flag, reminded, lost, blast, posted>>

After(step) == IF step = "whatsapp" THEN "email" ELSE "choose"

\* The message goes out; it fails, or it is not due on this channel.
SendReminder(s) ==
    LET b == tick[s].booking
        c == tick[s].step
        note == <<b, c>> IN
    /\ tick[s].step \in Channels
    /\ \/ /\ UnsentOn(s, b, c) /\ c \in Reachable[b]
          /\ reminded' = [reminded EXCEPT ![note] = @ + 1]
          /\ tick' = [tick EXCEPT ![s].step = IF c = "email" THEN "mark email" ELSE "mark whatsapp"]
       \/ Goes(s, After(c), b) /\ UNCHANGED reminded
    /\ UNCHANGED <<now, live, flag, lost, blast, posted>>

Marking(s) ==
    CASE tick[s].step = "mark whatsapp" -> "whatsapp"
      [] tick[s].step = "mark email"    -> "email"
      [] OTHER                          -> "none"

MarkReminder(s) ==
    LET b == tick[s].booking  c == Marking(s) IN
    /\ c # "none"
    /\ flag' = flag \cup {<<b, c>>}
    /\ Goes(s, After(c), b)
    /\ UNCHANGED <<now, live, reminded, lost, blast, posted>>

\* The statement fails, or the process is stopped: what was sent is forgotten.
Forget(s) ==
    IF Marking(s) = "none" THEN UNCHANGED lost
    ELSE LET note == <<tick[s].booking, Marking(s)>> IN
         /\ MapThenSumSet(LAMBDA n : lost[n], Notes) < MaxLost
         /\ lost' = [lost EXCEPT ![note] = @ + 1]

MarkFails(s) ==
    /\ Marking(s) # "none" /\ Forget(s)
    /\ Goes(s, After(Marking(s)), tick[s].booking)
    /\ UNCHANGED <<now, live, flag, reminded, blast, posted>>

Stop(s) ==
    /\ tick[s] # Quiet /\ Forget(s)
    /\ tick' = [tick EXCEPT ![s] = Quiet]
    /\ UNCHANGED <<now, live, flag, reminded, blast, posted>>

------------------------------------------------------------------------------
(* Administrators, guests and the clock.                                   *)

\* SendBookingReminder and BulkNotifyEventGuests: sent whatever was sent
\* before, and recorded.
RemindByHand(b, channel) ==
    /\ channel \in Reachable[b] /\ b \in live
    /\ flag' = flag \cup {<<b, channel>>}
    /\ UNCHANGED <<now, live, reminded, lost, tick, blast, posted>>

CancelReminded(b) ==
    /\ b \in live /\ live' = live \ {b}
    /\ UNCHANGED <<now, flag, reminded, lost, tick, blast, posted>>

TimePasses ==
    /\ now < Horizon /\ now' = now + 1
    /\ UNCHANGED <<live, flag, reminded, lost, tick, blast, posted>>

\* PromoteEventToAllUsers: the audience is a list of rows; promoteInFlight
\* turns a second click down while one is under way.
StartBlast(audience) ==
    /\ blast = Quiet /\ audience # {}
    /\ blast' = [step |-> "send", todo |-> audience, sent |-> {}]
    /\ posted' = [x \in Address |-> 0]
    /\ UNCHANGED <<now, live, flag, reminded, lost, tick>>

\* Fault: an address is struck off by row.
StrikesOffRow(a) == {a}

\* sentPhone and sentEmail: addresses are struck off, not rows.
StrikesOff(a) == {Phone[a], Email[a]}

\* The next row: what could be delivered of what it still has to get.
BlastRow(a, delivered) ==
    /\ blast.step = "send" /\ a \in blast.todo
    /\ delivered \subseteq {Phone[a], Email[a]} \ blast.sent
    /\ blast' = [blast EXCEPT !.todo = @ \ {a}, !.sent = @ \cup StrikesOff(a)]
    /\ posted' = [x \in Address |-> posted[x] + IF x \in delivered THEN 1 ELSE 0]
    /\ UNCHANGED <<now, live, flag, reminded, lost, tick>>

\* The goroutine ends, or the process with it.
EndBlast ==
    /\ blast # Quiet /\ blast' = Quiet
    /\ UNCHANGED <<now, live, flag, reminded, lost, tick, posted>>

RemindNext ==
    \/ \E s \in Schedulers :
           Tick(s) \/ ChooseBooking(s) \/ SendReminder(s) \/ MarkReminder(s)
           \/ MarkFails(s) \/ Stop(s)
    \/ \E b \in Bookings : CancelReminded(b) \/ \E c \in Channels : RemindByHand(b, c)
    \/ TimePasses

PromoteNext ==
    \/ \E audience \in SUBSET Accounts : StartBlast(audience)
    \/ \E a \in Accounts : \E delivered \in SUBSET {Phone[a], Email[a]} : BlastRow(a, delivered)
    \/ EndBlast

NoticeNext == RemindNext \/ PromoteNext

NoticeSpec == NoticeInit /\ [][NoticeNext]_noticeVars

------------------------------------------------------------------------------
(* Properties.                                                             *)

\* No process reminds a guest twice on one channel, however often it ticks,
\* unless it could not record that it had; two processes next to each other
\* may each do it once.
RemindedOnce ==
    \A n \in Notes : reminded[n] <= Cardinality(Schedulers) + lost[n]

\* A blast reaches every telephone and mailbox once at most, however many
\* accounts are behind it.
BlastReachesOnce == \A x \in Address : posted[x] <= 1

\* Both: nobody is told the same thing again.
ToldOnce == RemindedOnce /\ BlastReachesOnce
==============================================================================
