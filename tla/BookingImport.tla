----------------------------- MODULE BookingImport -----------------------------
(***************************************************************************)
(* Guests a host brings to one occurrence of an event without their doing  *)
(* anything: a spreadsheet booked row by row in the background             *)
(* (internal/service/booking_import_service.go and its repository,         *)
(* internal/lib/bookingimport, internal/lib/worker) and guests registered  *)
(* at the door (internal/service/walkin_service.go).                       *)
(*                                                                         *)
(* Both call CreateBooking, whose transaction is one step here: its        *)
(* interleavings are Booking's.  A guest is a phone number.                *)
(***************************************************************************)
EXTENDS Integers, Sequences, FiniteSetsExt, Functions

CONSTANTS
    Files,        \* spreadsheets a host may upload: sequences of lines
    Jobs,         \* import jobs
    Workers,      \* goroutines of the worker pool
    WalkIns,      \* registrations at the door
    Party,        \* the guest and the seats of each
    Capacity,     \* seats of the occurrence
    Comps,        \* redemptions of the host's free-booking code
    MaxCrashes,   \* bound: times the process dies
    MaxRevisions, \* bound: times the host changes the event's prices
    MaxTakes,     \* bound: times a job is handed to the workers
    Nobody        \* no phone, or one that cannot be read

ASSUME ImportAssumption ==
    /\ \A file \in Files : Len(file) \in Nat /\ DOMAIN file = 1 .. Len(file)
    /\ \A file \in Files : \A i \in DOMAIN file :
           file[i].named \in BOOLEAN /\ file[i].quantity \in Nat
    /\ \A w \in WalkIns : Party[w].quantity \in Nat \ {0}
    /\ {Capacity, Comps, MaxCrashes, MaxRevisions, MaxTakes} \subseteq Nat

VARIABLES
    prices,    \* the event is free, has one price, or has ticket tiers
    revisions, \* how often they changed
    job,       \* booking_import_jobs: status, payment mode and counters
    rows,      \* booking_import_rows of each job
    old,       \* jobs nothing has touched for staleJobAge
    tasks,     \* tasks waiting in the pool, by job
    worker,    \* what each worker is doing
    up,        \* the process is running
    crashes,   \* how often it died
    booking,   \* bookings of the occurrence, by idempotency key
    redeemed,  \* coupons.redeemed_count
    walkIn,    \* where each registration at the door is
    credited,  \* walk-in payments the guest's wallet has received
    wallet,    \* accounts.balance_cents of the guests
    begun,     \* how often a worker began each job
    report     \* a report being built: what was read of its job

door       == <<walkIn, credited>>
desk       == <<booking, redeemed, wallet>>
jobs       == <<job, rows, old, begun>>
process    == <<tasks, worker, up, crashes, report>>
event      == <<prices, revisions>>
importVars == <<event, jobs, process, desk, door>>

Guests == {Party[w].guest : w \in WalkIns} \cup
          UNION {{file[i].phone : i \in DOMAIN file} : file \in Files}

Idle   == [step |-> "idle"]
Closed == [step |-> "closed"]

------------------------------------------------------------------------------
(* The spreadsheet.                                                        *)

\* Parse: a line without a name, phone or proper quantity is kept as a failed
\* row; so is a guest listed again, whatever became of the first line.
Legible(line) == line.named /\ line.phone # Nobody

Earlier(file, i) ==
    {k \in 1 .. i - 1 : Legible(file[k]) /\ file[k].phone = file[i].phone}

Complaint(file, i) ==
    CASE ~Legible(file[i])                             -> "unreadable"
      [] Legible(file[i]) /\ Earlier(file, i) # {}     -> "repeated"
      [] Legible(file[i]) /\ Earlier(file, i) = {}
                          /\ file[i].quantity = 0      -> "quantity"
      [] OTHER                                         -> "none"

Parse(file) ==
    [i \in DOMAIN file |->
        [guest    |-> file[i].phone,
         quantity |-> file[i].quantity,
         status   |-> IF Complaint(file, i) = "none" THEN "pending" ELSE "failed",
         reason   |-> Complaint(file, i)]]

RowsIn(table, status) == {i \in DOMAIN table : table[i].status = status}

------------------------------------------------------------------------------
(* The shared desk.                                                        *)

Keys == {<<"row", j, i>> : j \in Jobs, i \in 1 .. Max({Len(f) : f \in Files})}
        \cup {<<"door", w>> : w \in WalkIns}

Active     == {k \in DOMAIN booking : booking[k].status = "confirmed"}
Booked     == MapThenSumSet(LAMBDA k : booking[k].quantity, Active)
HasBooking(g) == \E k \in Active : booking[k].guest = g

\* InitiateWalkIn before it books: what it refuses.
Refusal(g, quantity, comped) ==
    CASE prices = "tiered"                                       -> "tiered"
      [] prices # "tiered" /\ HasBooking(g)                      -> "duplicate"
      [] prices # "tiered" /\ ~HasBooking(g)
                           /\ Booked + quantity > Capacity       -> "full"
      [] prices = "priced" /\ comped /\ redeemed >= Comps
                           /\ ~HasBooking(g)
                           /\ Booked + quantity <= Capacity      -> "code used up"
      [] OTHER                                                   -> "none"

\* CreateBooking: a key that is taken, a full event, an empty wallet or a
\* code used up rolls it back.  A zero-cost booking leaves no ledger line, so
\* the key is found by the unique index, never by the idempotency check.
Due(quantity, waived) == IF prices = "priced" /\ ~waived THEN quantity ELSE 0

CanBook(key, g, quantity, comped, waived) ==
    /\ key \notin DOMAIN booking
    /\ prices # "tiered"
    /\ Booked + quantity <= Capacity
    /\ comped => redeemed < Comps
    /\ wallet[g] >= Due(quantity, comped \/ waived)

CreateBooking(key, g, quantity, comped, waived) ==
    /\ booking' = [k \in DOMAIN booking \cup {key} |->
           IF k = key
           THEN [guest |-> g, quantity |-> quantity, status |-> "confirmed"]
           ELSE booking[k]]
    /\ redeemed' = redeemed + IF comped THEN 1 ELSE 0
    /\ wallet' = [wallet EXCEPT ![g] = @ - Due(quantity, comped \/ waived)]

ImportInit ==
    /\ prices \in {"free", "priced"} /\ revisions = 0
    /\ job = [j \in Jobs |-> [status |-> "none"]]
    /\ rows = [j \in Jobs |-> <<>>]
    /\ old = {}
    /\ begun = [j \in Jobs |-> 0]
    /\ tasks = [j \in Jobs |-> 0]
    /\ worker = [p \in Workers |-> Idle]
    /\ up = TRUE /\ crashes = 0 /\ report = Closed
    /\ booking = <<>> /\ redeemed = 0
    /\ walkIn = [w \in WalkIns |-> "new"] /\ credited = {}
    /\ wallet = [g \in Guests |-> 0]

------------------------------------------------------------------------------
(* The job.                                                                *)

\* ValidateEventForImport: how the seats of a paid event are accounted for.
Mode(comped) ==
    CASE prices = "free"             -> "free"
      [] prices = "priced" /\ comped -> "coupon"
      [] OTHER                       -> "offline"

\* The job and its rows, in one transaction; lines that are wrong count as
\* failed from the start.
CreateJobWithRows(j, table, comped) ==
    /\ rows' = [rows EXCEPT ![j] = table]
    /\ job' = [job EXCEPT ![j] =
           [status |-> "pending", mode |-> Mode(comped), code |-> comped, success |-> 0,
            failed |-> Cardinality(RowsIn(table, "failed"))]]

StartImport(j, file, comped, acknowledged) ==
    /\ up /\ job[j].status = "none"
    /\ prices # "tiered"
    /\ Mode(comped) = "coupon" => redeemed < Comps
    /\ Mode(comped) = "offline" => acknowledged
    /\ CreateJobWithRows(j, Parse(file), comped)
    /\ tasks' = [tasks EXCEPT ![j] = 1]
    /\ UNCHANGED <<event, old, begun, worker, up, crashes, report, desk, door>>

\* A worker takes the task: processJob reads the job, of which it uses what
\* never changes, and marks it.
BeginJob(p, j) ==
    /\ worker[p] = Idle /\ tasks[j] > 0
    /\ tasks' = [tasks EXCEPT ![j] = @ - 1]
    /\ job' = [job EXCEPT ![j].status = "processing"]
    /\ old' = old \ {j}
    /\ begun' = [begun EXCEPT ![j] = @ + 1]
    /\ worker' = [worker EXCEPT ![p] = [step |-> "list", job |-> j]]
    /\ UNCHANGED <<event, rows, up, crashes, report, desk, door>>

\* The job cannot be read or marked: the task is dropped.
BeginFails(p, j) ==
    /\ worker[p] = Idle /\ tasks[j] > 0
    /\ tasks' = [tasks EXCEPT ![j] = @ - 1]
    /\ UNCHANGED <<event, jobs, worker, up, crashes, report, desk, door>>

ListRows(p) ==
    /\ worker[p].step = "list"
    /\ worker' = [worker EXCEPT ![p] =
           [step |-> "row", job |-> @.job, todo |-> RowsIn(rows[@.job], "pending")]]
    /\ UNCHANGED <<event, jobs, tasks, up, crashes, report, desk, door>>

\* The rows cannot be read: failJob, whose write may fail too.
ListFails(p) ==
    /\ worker[p].step = "list"
    /\ worker' = [worker EXCEPT ![p] = Idle]
    /\ \/ /\ job' = [job EXCEPT ![worker[p].job].status = "failed"]
          /\ old' = old \ {worker[p].job}
       \/ UNCHANGED <<job, old>>
    /\ UNCHANGED <<event, rows, begun, tasks, up, crashes, report, desk, door>>

\* Before the next row, or the status after the last, the two hours of the job
\* are over, or that status cannot be written: the job stays as it is.
LeaveJob(p) ==
    /\ worker[p].step = "row"
    /\ worker' = [worker EXCEPT ![p] = Idle]
    /\ UNCHANGED <<event, jobs, tasks, up, crashes, report, desk, door>>

Row(p) == Min(worker[p].todo)
Turns(p, step, outcome) ==
    worker' = [worker EXCEPT ![p] =
        [step |-> step, job |-> @.job, todo |-> @.todo, outcome |-> outcome]]

\* Fault: the answer of a row that would have to be paid for is not looked at.
TrustsAnswer(j) == "booked"

\* What a row that would have to be paid for ends as.
PaidAnswer(j) == "changed"

\* processRow: InitiateWalkIn refuses, finds that the row would have to be
\* paid for, or goes on to book; or the row's 30 seconds end, a query fails or
\* a panic is recovered from ("timeout").
CheckRow(p) ==
    /\ worker[p].step = "row" /\ worker[p].todo # {}
    /\ LET j       == worker[p].job
           row     == rows[j][Row(p)]
           no      == Refusal(row.guest, row.quantity, job[j].code)
           payable == prices = "priced" /\ job[j].mode = "free" /\ ~job[j].code
       IN  \/ Turns(p, "mark", "timeout")
           \/ no # "none" /\ Turns(p, "mark", no)
           \/ no = "none" /\ payable /\ Turns(p, "mark", PaidAnswer(j))
           \/ no = "none" /\ ~payable /\ Turns(p, "book", "none")
    /\ UNCHANGED <<event, jobs, tasks, up, crashes, report, desk, door>>

\* createAndConfirm: the transaction commits, or is rolled back; and its answer
\* may be lost, or come too late, either way.
BookRow(p) ==
    /\ worker[p].step = "book"
    /\ LET j      == worker[p].job
           row    == rows[j][Row(p)]
           key    == <<"row", j, Row(p)>>
           comped == job[j].code
           waived == job[j].mode = "offline"
       IN  \/ /\ CanBook(key, row.guest, row.quantity, comped, waived)
              /\ CreateBooking(key, row.guest, row.quantity, comped, waived)
              /\ Turns(p, "mark", "booked") \/ Turns(p, "mark", "timeout")
           \/ /\ ~CanBook(key, row.guest, row.quantity, comped, waived)
              /\ Turns(p, "mark", "rejected") /\ UNCHANGED desk
           \/ Turns(p, "mark", "timeout") /\ UNCHANGED desk
    /\ UNCHANGED <<event, jobs, tasks, up, crashes, report, door>>

\* MarkRowResult: only a pending row is resolved, and counted.
Resolves(j, i) == rows[j][i].status = "pending"

NextRow(p) ==
    worker' = [worker EXCEPT ![p] =
        [step |-> "row", job |-> @.job, todo |-> @.todo \ {Row(p)}]]

MarkRow(p) ==
    /\ worker[p].step = "mark"
    /\ LET j    == worker[p].job
           i    == Row(p)
           done == worker[p].outcome = "booked"
       IN  IF Resolves(j, i)
           THEN /\ rows' = [rows EXCEPT ![j][i].status = IF done THEN "success" ELSE "failed",
                                        ![j][i].reason = worker[p].outcome]
                /\ job' = [job EXCEPT ![j].success = @ + IF done THEN 1 ELSE 0,
                                      ![j].failed  = @ + IF done THEN 0 ELSE 1]
                /\ old' = old \ {j}
           ELSE UNCHANGED <<rows, job, old>>
    /\ NextRow(p)
    /\ UNCHANGED <<event, begun, tasks, up, crashes, report, desk, door>>

\* The result cannot be written: it is logged, and the row stays pending.
MarkRowFails(p) ==
    /\ worker[p].step = "mark"
    /\ NextRow(p)
    /\ UNCHANGED <<event, jobs, tasks, up, crashes, report, desk, door>>

FinishJob(p) ==
    /\ worker[p].step = "row" /\ worker[p].todo = {}
    /\ job' = [job EXCEPT ![worker[p].job].status = "completed"]
    /\ old' = old \ {worker[p].job}
    /\ worker' = [worker EXCEPT ![p] = Idle]
    /\ UNCHANGED <<event, rows, begun, tasks, up, crashes, report, desk, door>>

------------------------------------------------------------------------------
(* The process.                                                            *)

\* The pool and its queue are in memory.
Crash ==
    /\ up /\ crashes < MaxCrashes
    /\ up' = FALSE /\ crashes' = crashes + 1
    /\ tasks' = [j \in Jobs |-> 0]
    /\ worker' = [p \in Workers |-> Idle]
    /\ report' = Closed
    /\ walkIn' = [w \in WalkIns |->
           CASE walkIn[w] \in {"booking", "comping"} -> "new"
             [] walkIn[w] = "debiting"               -> "paid"
             [] OTHER                                -> walkIn[w]]
    /\ UNCHANGED <<event, jobs, desk, credited>>

\* Five minutes pass and nothing has touched the job, though its task may wait
\* behind others in the queue, or a worker be on rows it cannot mark.
Age(j) ==
    /\ job[j].status \in {"pending", "processing"}
    /\ begun[j] + tasks[j] < MaxTakes
    /\ old' = old \cup {j}
    /\ UNCHANGED <<event, job, rows, begun, process, desk, door>>

\* ResumeInterrupted, when a process starts: after a crash, or next to the
\* one it replaces.
Stale(j) == j \in old /\ job[j].status \in {"pending", "processing"}

Boot ==
    /\ ~up \/ \E j \in Jobs : Stale(j)
    /\ up' = TRUE
    /\ tasks' = [j \in Jobs |-> tasks[j] + IF Stale(j) THEN 1 ELSE 0]
    /\ job' = [j \in Jobs |-> IF Stale(j) THEN [job[j] EXCEPT !.status = "pending"] ELSE job[j]]
    /\ old' = {j \in old : ~Stale(j)}
    /\ UNCHANGED <<event, rows, begun, worker, crashes, report, desk, door>>

------------------------------------------------------------------------------
(* At the door.                                                            *)

Proceeds(w, from, to) == walkIn[w] = from /\ walkIn' = [walkIn EXCEPT ![w] = to]

\* A refusal leaves the registration where it was, to be tried again.
InitiateWalkIn(w, comped) ==
    /\ up
    /\ Refusal(Party[w].guest, Party[w].quantity, comped) = "none"
    /\ Proceeds(w, "new", CASE comped                       -> "comping"
                            [] ~comped /\ prices = "free"   -> "booking"
                            [] ~comped /\ prices = "priced" -> "paying")
    /\ UNCHANGED <<event, jobs, process, desk, credited>>

\* The guest pays the order on the host's screen.
PayWalkIn(w) ==
    /\ Proceeds(w, "paying", "paid")
    /\ UNCHANGED <<event, jobs, process, desk, credited>>

\* CompleteWalkIn: the duplicate guard, then VerifyTopUp, which credits an
\* order once.
CompleteWalkIn(w) ==
    /\ up /\ prices # "tiered"
    /\ ~HasBooking(Party[w].guest)
    /\ Proceeds(w, "paid", "debiting")
    /\ credited' = credited \cup {w}
    /\ wallet' = [wallet EXCEPT ![Party[w].guest] =
           @ + IF w \in credited THEN 0 ELSE Party[w].quantity]
    /\ UNCHANGED <<event, jobs, process, booking, redeemed>>

BookWalkIn(w) ==
    LET party  == Party[w]
        comped == walkIn[w] = "comping"
        key    == <<"door", w>> IN
    /\ walkIn[w] \in {"booking", "comping", "debiting"}
    /\ IF CanBook(key, party.guest, party.quantity, comped, FALSE)
       THEN /\ CreateBooking(key, party.guest, party.quantity, comped, FALSE)
            /\ Proceeds(w, walkIn[w], "done")
       ELSE /\ Proceeds(w, walkIn[w], IF walkIn[w] = "debiting" THEN "paid" ELSE "new")
            /\ UNCHANGED desk
    /\ UNCHANGED <<event, jobs, process, credited>>

------------------------------------------------------------------------------
(* Others: a guest or the host gives a booking up, and the host changes    *)
(* the event's prices.                                                     *)

CancelBooking(k) ==
    /\ k \in Active
    /\ booking' = [booking EXCEPT ![k].status = "cancelled"]
    /\ UNCHANGED <<event, jobs, process, redeemed, wallet, door>>

RevisePrices(to) ==
    /\ revisions < MaxRevisions
    /\ to # prices
    /\ prices' = to /\ revisions' = revisions + 1
    /\ UNCHANGED <<jobs, process, desk, door>>

------------------------------------------------------------------------------
(* The report a host downloads, and the only record of what the guests of  *)
(* a paid event owed at the door (internal/lib/bookingimport/report.go).   *)
(* A seat costs one unit.                                                  *)

Started(j) == job[j].status # "none"

\* BuildReport reads the job, and in a second statement its rows.
OpenReport(j) ==
    /\ up /\ Started(j) /\ report = Closed
    /\ report' = [step |-> "open", job |-> j, success |-> job[j].success, failed |-> job[j].failed]
    /\ UNCHANGED <<event, jobs, tasks, worker, up, crashes, desk, door>>

BuildReport ==
    /\ report # Closed /\ report' = Closed
    /\ UNCHANGED <<event, jobs, tasks, worker, up, crashes, desk, door>>

\* The seats of the lines that were booked.
BookedSeats(table) ==
    SumFunctionOnSet([i \in DOMAIN table |-> table[i].quantity], RowsIn(table, "success"))

\* The sheet of summary lines, from the job as it was read and the rows; the
\* sheet of results.  The job's payment mode never changes.
Summary(r, table) ==
    [total     |-> Len(table),
     booked    |-> r.success,
     failed    |-> r.failed,
     collected |-> IF job[r.job].mode = "offline" THEN BookedSeats(table) ELSE 0]

Label(status) == CASE status = "success" -> "Booked"
                   [] status = "pending" -> "Still processing"
                   [] OTHER              -> "Not booked"

Results(table) == [i \in DOMAIN table |-> Label(table[i].status)]

JobSteps ==
    \/ \E j \in Jobs, file \in Files, comped, acknowledged \in BOOLEAN :
           StartImport(j, file, comped, acknowledged)
    \/ \E p \in Workers, j \in Jobs : BeginJob(p, j) \/ BeginFails(p, j)
    \/ \E p \in Workers :
           \/ ListRows(p) \/ ListFails(p) \/ LeaveJob(p)
           \/ CheckRow(p) \/ BookRow(p) \/ MarkRow(p) \/ MarkRowFails(p) \/ FinishJob(p)

Restarts == Crash \/ Boot \/ \E j \in Jobs : Age(j)

Reports == BuildReport \/ \E j \in Jobs : OpenReport(j)

AtTheDoor ==
    \E w \in WalkIns :
        \/ \E comped \in BOOLEAN : InitiateWalkIn(w, comped)
        \/ PayWalkIn(w) \/ CompleteWalkIn(w) \/ BookWalkIn(w)

Changes ==
    \/ \E k \in Keys : CancelBooking(k)
    \/ \E to \in {"free", "priced", "tiered"} : RevisePrices(to)

ImportNext == JobSteps \/ Restarts \/ Reports \/ AtTheDoor \/ Changes

ImportSpec == ImportInit /\ [][ImportNext]_importVars

------------------------------------------------------------------------------
(* Properties.                                                             *)

\* A report that is built says the truth.  A line is "Booked" only if it has its
\* booking, for its guest and its seats.  A line that has one is "Not booked" only
\* if its attempt timed out, or a second worker began the job.  The counts, read
\* before the lines, are never ahead of them, and are theirs if nothing was
\* marked in between, whatever two workers and a crash did.  And the host is told
\* to have collected no more than the seats his file was booked for.
ReportIsTrue ==
    report # Closed =>
        LET j       == report.job
            summary == Summary(report, rows[j])
            results == Results(rows[j])
            Key(i)  == <<"row", j, i>>
            Lines(label) == {i \in DOMAIN results : results[i] = label}
            made == {i \in DOMAIN results : Key(i) \in DOMAIN booking}
            booked == Cardinality(Lines("Booked"))
            failed == Cardinality(Lines("Not booked"))
        IN  /\ \A i \in Lines("Booked") :
                   /\ i \in made
                   /\ booking[Key(i)].guest = rows[j][i].guest
                   /\ booking[Key(i)].quantity = rows[j][i].quantity
            /\ \A i \in Lines("Not booked") \cap made :
                   rows[j][i].reason = "timeout" \/ begun[j] > 1
            /\ summary.booked <= booked /\ summary.failed <= failed
            /\ job[j].success = report.success /\ job[j].failed = report.failed =>
                   summary.booked = booked /\ summary.failed = failed
            /\ summary.collected <=
                   SumFunctionOnSet([i \in made |-> booking[Key(i)].quantity], made)

\* "Re-driving this job after a restart replays the same key, and CreateBooking's
\* idempotency check returns the existing booking": no line is refused for the
\* booking it has itself.
ReplayReturnsBooking ==
    \A j \in Jobs : \A i \in DOMAIN rows[j] :
        <<"row", j, i>> \in DOMAIN booking => rows[j][i].reason \notin {"duplicate", "rejected"}

==============================================================================
