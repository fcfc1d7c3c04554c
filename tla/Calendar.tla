-------------------------------- MODULE Calendar --------------------------------
(***************************************************************************)
(* When an event takes place: the sessions its host's windows generate,    *)
(* what its recurrence rule repeats, which occurrences are paused, and     *)
(* what guests, the public feed and the host are shown of them             *)
(* (internal/lib/event/sessions.go, internal/lib/recurrence, the reading   *)
(* half of internal/service/event_service.go).                             *)
(*                                                                         *)
(* Time is a number of minutes-like ticks.  A day has DayLength of them,   *)
(* a week WeekLength days, and nothing happens after LastInstant.  One     *)
(* tick is longer than the hour's grace that some comparisons have.        *)
(*                                                                         *)
(* An event's row is a record; the fields read here are                    *)
(*   time, recurring, rule, schedule, dates, session, windows, duration,   *)
(*   break, cap, status, pausedFrom, pausedDates.                          *)
(***************************************************************************)
EXTENDS Integers, FiniteSetsExt

CONSTANTS
    DayLength,     \* ticks in a day
    WeekLength,    \* days in a week
    LastInstant,   \* the end of the modelled time
    HorizonDays,   \* SessionHorizonWeeks, in days
    MaxSessions,   \* MaxGeneratedSessions
    MaxTries,      \* iterations of the recurrence loop
    MaxOffered     \* occurrences the recurrence loop returns

ASSUME CalendarAssumption ==
    /\ {DayLength, WeekLength, HorizonDays, MaxSessions, MaxTries, MaxOffered}
         \subseteq Nat \ {0}
    /\ LastInstant \in Nat

Instants == 0..LastInstant
Never    == LastInstant + 1
Day(t)   == t \div DayLength

\* The n earliest members of a set of instants.
Earliest(S, n) == {t \in S : Cardinality({u \in S : u < t}) < n}

------------------------------------------------------------------------------
(* One-on-one sessions.                                                    *)

\* A window is [weekday, start, end]; a dated one has no weekday (-1).
HasWeeklyWindows(windows) == \E w \in windows : w.weekday # -1

\* Sessions of one window, packed from its start; none overruns its end.
Packed(w, duration, pause) ==
    {o \in w.start .. w.end : /\ (o - w.start) % (duration + pause) = 0
                              /\ o + duration <= w.end}

\* All that the windows of a weekday generate on a day, from `from` on.
SessionsOn(day, windows, duration, pause, from) ==
    {t \in Instants :
        /\ t >= from /\ Day(t) = day
        /\ \E w \in windows : /\ w.weekday = day % WeekLength
                              /\ (t % DayLength) \in Packed(w, duration, pause)}

\* generate walks the days of the horizon and stops after the day on which
\* it has `max` sessions.
Generate(windows, duration, pause, from, max) ==
    LET walk   == Day(from) .. Day(from) + HorizonDays - 1
        On(d)  == SessionsOn(d, windows, duration, pause, from)
        Sofar(d) == UNION {On(e) : e \in {e \in walk : e < d}}
    IN  UNION {On(d) : d \in {d \in walk : Cardinality(Sofar(d)) < max}}

GenerateWeeklySessions(row, from) ==
    Generate(row.windows, row.duration, row.break, from, MaxSessions)

\* NextWeeklySession: the soonest session at or after `from`, Never if none.
NextWeeklySession(row, from) ==
    Min({Never} \cup Generate(row.windows, row.duration, row.break, from, 1))

------------------------------------------------------------------------------
(* Recurrence.                                                             *)

\* The rules' periods as each of two parsers reads them: normalizeRRule, for
\* what is offered, knows "biweekly"; recurrence.NextOccurrence, for rolling
\* the row forward, knows "yearly".  0 stands for a rule it cannot parse.
OfferedPeriod(rule) ==
    CASE rule = "weekly"   -> WeekLength * DayLength
      [] rule = "biweekly" -> 2 * WeekLength * DayLength
      [] OTHER             -> 0
RolledPeriod(rule) ==
    CASE rule = "weekly" -> WeekLength * DayLength
      [] rule = "yearly" -> LastInstant
      [] OTHER           -> 0

Hits(base, period) == {t \in Instants : t >= base /\ (t - base) % period = 0}

\* recurrence.NextOccurrence at or after now; the base itself if there is none.
NextOccurrence(rule, base, now) ==
    IF RolledPeriod(rule) = 0 THEN base
    ELSE LET ahead == {t \in Hits(base, RolledPeriod(rule)) : t >= now}
         IN  IF ahead = {} THEN base ELSE Min(ahead)

IsRecurringOneOnOne(row) == row.session = "one_on_one" /\ HasWeeklyWindows(row.windows)

Repeats(row) == row.recurring /\ row.rule # "none"

\* applyRecurrence: every scan of a row moves the time of a repeating event to
\* its next occurrence, and a later full-row write stores it.
Rolled(row, now) ==
    IF IsRecurringOneOnOne(row) THEN
        LET next == NextWeeklySession(row, now)
        IN  IF next = Never THEN row ELSE [row EXCEPT !.time = next]
    ELSE IF Repeats(row) /\ row.time < now
         THEN [row EXCEPT !.time = NextOccurrence(row.rule, row.time, now)]
    ELSE row

------------------------------------------------------------------------------
(* Pauses.                                                                 *)

\* pausedDateMatchesWholeDay: a paused session takes the day with it, except
\* on a one-on-one calendar.
PausedDateMatchesWholeDay(row, p, t) ==
    Day(p) = Day(t) /\ row.session # "one_on_one"

FullyPaused(row) ==
    row.status = "paused" /\ row.pausedFrom = Never /\ row.pausedDates = {}

IsOccurrencePaused(row, t) ==
    \/ \E p \in row.pausedDates : p = t \/ PausedDateMatchesWholeDay(row, p, t)
    \/ t >= row.pausedFrom
    \/ FullyPaused(row)

\* The recurrence loop's own rule: every paused date takes its day.
\* Fault: only its exact time.
PausedInLoopExactly(row, t) ==
    t \in row.pausedDates \/ t >= row.pausedFrom \/ FullyPaused(row)
PausedInLoop(row, t) ==
    \/ \E p \in row.pausedDates : Day(p) = Day(t)
    \/ t >= row.pausedFrom
    \/ FullyPaused(row)

------------------------------------------------------------------------------
(* What is offered.                                                        *)

HasDates(row) == row.schedule = "custom_dates" \/ row.dates # {}

Marked(S, P(_)) == {[date |-> t, paused |-> P(t)] : t \in S}

\* The occurrences of calculateAvailabilityInternal before its fallback: the
\* generated sessions, the custom dates still ahead, or the first ones of the
\* rule; for guests, without those that are paused.
Generated(row, now, includePaused) ==
    LET paused(t) == IsOccurrencePaused(row, t)
        shown(S)  == {t \in S : includePaused \/ ~paused(t)}
        inLoop(t) == PausedInLoop(row, t)
        period    == OfferedPeriod(row.rule)
        tried     == Earliest({t \in Hits(row.time, period) : t >= now}, MaxTries)
    IN  IF IsRecurringOneOnOne(row) THEN
            Marked(shown(GenerateWeeklySessions(row, now)), paused)
        ELSE IF HasDates(row) THEN
            Marked(shown({t \in row.dates : t >= now}), paused)
        ELSE IF row.rule = "none" THEN {}
        ELSE IF period = 0 THEN Marked(shown({row.time}), paused)
        ELSE Marked(Earliest({t \in tried : includePaused \/ ~inLoop(t)}, MaxOffered), inLoop)

\* The base time stands in for a calendar that generated nothing, unless its
\* sessions are simply all over.
Fallback(row, includePaused) ==
    IF row.status # "paused" \/ includePaused
    THEN {[date |-> row.time, paused |-> row.status = "paused"]}
    ELSE {}

Occurrences(row, now, includePaused) ==
    LET found == Generated(row, now, includePaused)
    IN  IF found = {} /\ ~HasDates(row) /\ ~IsRecurringOneOnOne(row)
        THEN Fallback(row, includePaused) ELSE found

\* GetEventAvailability (guests) and GetEventOccurrencesForHost.
OfferedToGuests(row, now) == {o.date : o \in Occurrences(row, now, FALSE)}
ShownToHost(row, now)     == Occurrences(row, now, TRUE)

\* eventExpiredSQL: nothing of the event is still ahead.
Expired(row, now) ==
    ~row.recurring /\ row.time < now /\ ~\E d \in row.dates : d > now

\* ListPublishedEvents: the date shown on an event's card, Never if there is
\* none; full are the dates that are booked up.
NextAvailable(row, now, full) ==
    LET offered == OfferedToGuests(row, now) \ full
        only    == row.time \notin full /\ ~IsOccurrencePaused(row, row.time)
    IN  IF Repeats(row) \/ HasDates(row) \/ IsRecurringOneOnOne(row)
        THEN Min({Never} \cup offered)
        ELSE IF only THEN row.time ELSE Never

InFeed(row, now, full) ==
    /\ row.status \in {"live", "paused"}
    /\ ~Expired(row, now)
    /\ row.status = "live" \/ NextAvailable(row, now, full) # Never

\* ListEvents, the administrators' directory: its filters, of which "expired" is
\* no status of the row, and the date it shows.
ListedAs(row, now, filter) ==
    IF filter = "expired" THEN row.status \in {"live", "paused"} /\ Expired(row, now)
    ELSE row.status = filter /\ (filter \in {"live", "paused"} => ~Expired(row, now))

DirectoryDate(row, now) ==
    LET ahead == {d \in row.dates : d > now}
    IN  IF ~row.recurring /\ ahead # {} THEN Min(ahead) ELSE Rolled(row, now).time

\* GetCalendarEvents: the host's calendar between two instants.
CalendarOf(row, from, to) ==
    LET within == {t \in Instants : from <= t /\ t < to}
    IN  within \cap
        (IF IsRecurringOneOnOne(row) THEN GenerateWeeklySessions(row, from)
         ELSE IF HasDates(row) THEN row.dates
         ELSE IF ~Repeats(row) \/ OfferedPeriod(row.rule) = 0
              THEN {row.time}
         ELSE Hits(row.time, OfferedPeriod(row.rule)))

==============================================================================
