# Verification of the MySlotMate backend

This directory is a TLA+ development of the Go server in this repository: models
of the parts of it where several requests, webhooks, background jobs or
processes meet, model-checked with TLC on small instances, and theorems about the
models proved with TLAPS for every value of their parameters.

The server is a set of stateless request handlers over one PostgreSQL database.
Guests top up a wallet through a payment gateway (Razorpay) and book seats of
events from it; the host of an event earns a share, which a payout provider
(Cashfree) transfers to a bank account. Around this turn passes, codes, co-hosts,
imports, reminders and a chat assistant. Whatever can go wrong goes wrong between
two statements: of two handlers, or of one handler that is cut off.

| Module | Models | Role |
| --- | --- | --- |
| `Money` | the price arithmetic and `money.go` | operators |
| `Booking` | the booking desk: create, confirm, cancel, scan, edit | state machine, properties |
| `SeatSale` | what guest and host may expect of the desk | abstract specification |
| `Payout` | withdrawals, payout webhooks, reconciliation, weekly run | state machine, properties |
| `TopUp` | wallet top-ups and refunds to the card | state machine, properties |
| `Calendar` | sessions, recurrence, pauses and the views of an event's dates | operators |
| `EventLifecycle` | create, update, publish, pause, resume, cancel and delete an event, over `Calendar` | state machine, properties |
| `Passes` | selling, using, giving up and refunding monthly passes | state machine, properties |
| `Coupons` | codes: created, batched, edited, deleted, validated, redeemed | state machine, properties |
| `Throttle` | the per-key rate limiter and its sweeper | state machine, properties |
| `CoHost` | invitations, and co-hosts' claims on an event's earnings | state machine, properties |
| `Treasury` | payout methods, and the administrators' withdrawals | state machine, properties |
| `HostProfile` | applications, approvals, edits, scrapes and ratings of one row | state machine, properties |
| `Statements` | the pages that sum money, and the reconciliation | state machine, properties |
| `Accounts` | the ways a person gets a row, and login tokens | state machine, properties |
| `BookingImport` | the spreadsheet import, its workers, walk-in registration | state machine, properties |
| `JoinRequests` | requests to join a private event | state machine, properties |
| `Notices` | the reminder scheduler, and promotion blasts | state machine, properties |
| `KnowledgeBase` | ingestion into the vector index, and conversations | state machine, properties |
| `Migrations` | the runner of the schema's migrations | state machine, properties |
| `Sums` | | lemmas on sums over finite sets |
| `BookingProofs`, `PayoutProofs`, `TopUpProofs`, `StatementsProofs` | | theorems about the module of that name |
| `SeasonProofs`, `HostsProofs`, `GuestsProofs` | | theorems about the modules that the runs of that name share out |
| `MCBooking`, `MCPayout`, `MCTopUp` | | constants of the runs of one module |
| `MCSeason`, `MCHosts`, `MCGuests` | | constants of the runs that share out several modules |

`PROJECT.json` lists the components, the runs, the definitions with the source
lines they translate, the seeded faults that each property detects, the hazards,
the findings and the theorems.

## 1. The system

### Components, their state and operations

| Component | State (table or memory) | Operations | What makes it correct | Modelled in |
| --- | --- | --- | --- | --- |
| Booking desk (`booking_service.go`, `booking_repository.go`) | bookings, their payment rows, `events.capacity`, `total_bookings` | CreateBooking, ConfirmBooking, CancelBooking, CancelBookingByHost, CheckInScannedTicket | no overselling; booking, payment and ledger agree; cancelled is final; a ticket admits its party once | `Booking`, `SeatSale` |
| Booking money (`money.go`, `platform_settings.go`) | four ledger entries per purchase, the wallet, host earnings | creditSplit, reverseSplit, the fee split | entries sum to zero; a refund undoes the charge to the cent | `Money`, `Booking` |
| Coupons (`coupon_service.go`, `coupon_controller.go`) | `coupons`, `times_redeemed` | create, batch, update, delete, Validate, Redeem | no cap it ever had is passed; every use is counted; edits are not lost | `Coupons`; redemption also in `Booking` |
| Passes (`pass_service.go`, `pass_repository.go`) | `user_passes`, `sessions_used`, reserved bookings | PurchasePass, ReserveSession, CancelPass, lazy expiry | capacity; what is refunded was paid, once | `Passes`; sessions also in `Booking` |
| Events (`event_service.go`, `internal/lib/event`, `recurrence`) | `events`, pauses, custom dates, weekly windows | Create, Update, Publish, Pause, Resume, Cancel, Delete; five views of the dates | views agree; a pause or cancellation refunds all it listed; a deletion erases nothing it saw | `Calendar`, `EventLifecycle` |
| Withdrawals (`payout_service.go`, `auto_payout.go`) | payments, ledger entries, webhook executions | RequestWithdrawal, RunAutoPayoutForHost, HandlePayoutWebhook, ReconcilePendingPayouts | one transfer per key; money sent is counted; every payout is settled | `Payout` |
| Co-hosts (`cohost.go`, `cohost_repository.go`) | `event_co_hosts`, `event_cohost_claims` | Invite, Respond, Revoke, SetCanWithdraw, RequestCoHostWithdrawal | a payment has its claim; claims should fit the earnings, and do one at a time | `CoHost` |
| Payout methods, administrators' withdrawals (`payout_service.go`, `payout_repository.go`) | `payout_methods`, beneficiaries, the platform's account | Add, SetPrimary, Delete, RequestAdminWithdrawal | a primary method stays; one transfer per key | `Treasury` |
| Wallet (`user_service.go`) | `accounts.balance_cents`, top-up and refund payments | InitiateTopUp, VerifyTopUp, CreditWalletFromWebhook, RefundTopUpToSource, ApplyRefundWebhook | credited once; a refund leaves the wallet before it reaches the card | `TopUp` |
| Transaction ledger (`transaction_ledger_repository.go`) | append-only entries with unique keys | Create, sums, RunReconciliation | unique keys are the lock all money paths rely on | in the money modules |
| Money pages (`payout_service.go`, `admin_directory_repository.go`, `booking_repository.go`) | – (they read) | a host's overview and breakdowns, dashboards, directory, attention list, reconciliation | the same sum on each page; torn only by writes | `Statements` |
| Hosts (`host_service.go`, `host_repository.go`, `review_service.go`, `backfill-instagram`) | `hosts`, written whole | Submit, SetApplicationStatus, UpdateProfile, scrape, rating | approvals stand; an approved host is verified; a rating was once true | `HostProfile` |
| Accounts (`user_service.go`, `phone_auth_service.go`, `walkin_service.go`, `admin_controller.go`) | `users`, login tokens | SignUp, VerifyPhoneOTP, administrators' and walk-in registration | one row per person; a token keeps its row | `Accounts` |
| Join requests (`join_request_service.go`) | `event_join_requests` | Submit, Withdraw, Review and its notification, the gate at the desk | who was let in stays approved; a guest is told the verdict that stands | `JoinRequests` |
| Import and walk-ins (`booking_import_service.go`, `walkin_service.go`, `worker/pool.go`) | jobs, rows, the pool's queue | StartImport, processJob, ResumeInterrupted, report; Initiate and Complete | the report tells what happened, whatever was cut off, timed out or done twice | `BookingImport` |
| Reminders and promotions (`reminder_scheduler.go`, `admin_directory_controller.go`) | sent flags, `promoteInFlight` | processReminders, the blast | told once | `Notices` |
| Chat and knowledge base (`internal/lib/rag`, `rag_*_controller.go`) | the vector index, conversations in memory | ingest, ask | memory is bounded; every chunk is stored | `KnowledgeBase` |
| Rate limiter (`ratelimit.go`) | buckets in memory | Allow, cleanupLoop | forgetting a caller grants nothing | `Throttle` |
| Schema migrations (`cmd/migrate/run.go`) | `schema_migrations` | run | no file is left out, none run again but for a crash | `Migrations` |
| Messaging, sign-in, content, wiring | – | – | – | not modelled (section 6) |

### How they interact

- The desk, passes, walk-ins, the import and join requests all move money
  through `creditSplit` and `reverseSplit`, inside one SQL transaction each.
- The desk and the refunds to the card share the guest's wallet,
  `accounts.balance_cents`, whose debits are guarded by `balance_cents >= amount`.
- What confirmed bookings whose date has passed have earned is the balance that
  withdrawals draw on (`GetHostEarningsBreakdown`); a withdrawal is subtracted
  while its payment counts as active, and a co-host's claim with it.
- Pausing, cancelling and deleting an event lists its bookings and then cancels
  them one by one at the desk.
- Gateway and provider answer calls and, independently, send webhooks: late,
  repeated, out of order or never.
- The weekly payout and the reconciliation enter the same code as the host's
  requests and the provider's webhooks.
- The import books at the desk like a guest, from a pool whose queue dies with the
  process; a sweep at the start hands unfinished jobs out again.

### Which behaviours are hard

1. *Stale reads.* Handlers check outside a transaction and write later.
   Only row locks, guarded `UPDATE`s and unique keys hold at the write.
2. *Whole-row writes.* `UpdateCoupon`, `UpdateEvent` and the hosts' `Update` put back
   every column they had read.
3. *No transaction around a payout or a refund.* An HTTP call sits in the
   middle, so every statement commits on its own, and several ignore errors.
4. *Webhooks racing the request* that caused them, and each other.
5. *Retries* by clients, servers, gateway and provider under the same key.
6. *Replies that are lost* after the other side has acted.
7. *Deaths of the process*, which lose queues, goroutines and what a handler
   had in memory.
8. *Several copies of one rule*: five views of an event's dates, five sums of a host's
   earnings.

The `hazards` of `PROJECT.json` name each of these at its line, with the
properties that catch it going wrong.

## 2. Correspondence of models and code

The variables are columns of the database (each declaration names its column) or
memory of the process, plus one that holds what each running handler has
read and where it stands. A **step is one transaction or one
auto-committed statement**. Two statements are joined in a step only if the first
is a read that nothing else can invalidate or that a later guard repeats.
Wherever the code reads a row, decides, and writes it later, reading and writing
are two steps, and any step of anyone may come between them.

### `Booking`

One event of one host. `BeginCreate` is steps 2 to 8 of `CreateBooking`, all
reads; `CommitCreate` is its transaction, which locks the event's row, counts
seats again, debits, redeems, consumes, inserts the booking, its payment and the
ledger entries. `CountBooking` is the statement after the commit. The other
operations split the same way (`BeginCancel`/`CommitCancel`,
`BeginConfirm`/`CommitConfirm`, `BeginScan`/`CommitScan`,
`BeginUpdateEvent`/`CommitUpdateEvent`). `Abandon` is every early return after
the first step, every rollback and every death of the process: what was not
committed leaves no trace, so they are one. A booking is named by its idempotency
key, because `bookings.idempotency_key` is unique and a retry carries the same
body. `SetFeePercent` (an administrator) and `Start` (time) are the environment.
`entries` sums the ledger rows of a purchase per account; a double write is
visible as a wrong sum. Every caller of `CreateBooking` today asks for `AutoConfirm`, but
the row, `ConfirmBooking` and old rows know `pending`; requests of both kinds are
modelled. What is promised is promised of the bookings confirmed as they are made
(`Prompt`), beside any that were left pending. Amounts are exact, with Go's floor division on
non-negative numbers. Widths do not matter: prices are far below 2^63.

### `Payout`

`RequestWithdrawal` becomes nine steps, from `Request` (the idempotency check)
over `WriteDebit`, `OpenPayment`, `Start` and `Send` (the provider's call) to
`Complete` or `Fail` and `Reverse`; `RunAutoPayoutForHost` enters it with the week as
key. `HandlePayoutWebhook` is `Webhook`, then `SettleCompleted` or `CreditBack`
and `Mark`, then `Record`; `ReconcilePendingPayouts` is `Reconcile` and
`Poll`, which enters the same steps. `Replies` are all ways `InitiateTransfer`
can end, `"lost"` being any error after the provider accepted the transfer.
`Abort` cuts a handler off between two statements; `Skip` is an update whose error
the code ignores. `bank` is the truth at the provider and the bank. Any request and any webhook, late, repeated or cut off, may meet any other; a key whose
reply was lost is remembered in `unanswered`. The ledger keys
`<key>`, `<key>_reversal`, `<key>_failed_reversal` and `<key>_reversed_reversal` are
the pairs in `journal`.

### `TopUp`

`Initiate`/`RecordOrder` is `InitiateTopUp`. `Verify` (browser) and `Captured`
(webhook) read the same payment and go on through `Reserve` (the ledger key that
is the lock), `Credit` and `Mark`. A refund to the card is `BeginRefund` (key,
top-up and headroom), `CheckWallet`, `OpenRefund`, `WriteDebit`, `Debit`, `Send`
and `Link`; the error paths and `RefundWebhook` share `Reverse`, `Return` and
`Fail`. Reading the headroom and the wallet are steps of their own, so two
refunds and a booking do race. `Book` and `CancelBooking` stand for the desk's
debits and credits, which are single transactions there (`Booking` shows
them in detail). `moved` records what each payment put into, or took out of, the
wallet.

### `Calendar` and `EventLifecycle`

`Calendar` is `calculateAvailabilityInternal`, `GenerateWeeklySessions`,
`NextOccurrence` and the rules of pausing as operators over a row of `events`, and the
five places that work out an event's dates from them: the guests' availability, the
host's list, the feed, the host's calendar and the administrators' directory. Time
is a small line of instants, of `DayLength` to the day. `EventLifecycle` moves the
row: every handler reads the row in one step and writes it, whole where the code
does, in another, and refunds one booking per step. A failed refund, and one lost
with its process, are recorded in `lost`.

### `Passes`, `Coupons`, `Throttle`

`Passes`: `PurchasePass` reads the count, the price and the wallet, and commits in
one transaction; the sessions it reserves are steps of their own, as is each
reservation that `CancelPass` gives up before its refund. A pass lapses when it is
looked at. `Coupons` keeps whole rows; an edit is a read, a merge of the body into
what was read, and a write of all of it. A checkout validates, counts the guest's
uses, and redeems in the booking's transaction. `Throttle` is the token bucket of
`golang.org/x/time/rate`, as the code uses it, in grains of which a token has
`Token`; `Sweep` is one pass of `cleanupLoop`.

### `CoHost`, `Treasury`, `HostProfile`, `Statements`

`CoHost`: a claim is reserved, its payment made, linked and settled in the code's
order, each by a statement; a retry is another request with the same key. What
`RequestWithdrawal` does inside is `Payout`'s, and its outcomes are `Replies`.
`Treasury`: listing a holder's methods, adding one, and registering it are three
steps; `SetPrimary` is one transaction. `RequestAdminWithdrawal` is its statements,
from the ledger's debit to the credit at its end. `HostProfile`: `row` is what
`hostRepository.Update` writes, and each request holds a copy of it between its read
and its write. `Statements`: the queries are operators over bookings, passes,
withdrawals and the ledger, summed as the SQL sums them; pages of several statements
are a `reader` that goes through them while writes come between. A withdrawal is taken
through its statements, `AskPayout` to `ReversePayout`, and its webhooks through theirs
(`CreditPayout`, `MarkPayout`), since the pages read what lies between; `Payout` has the
same code with its keys, retries and overlapping handlers. A page that is not read
through a `reader` is summed at one moment.

### `Accounts`, `BookingImport`, `JoinRequests`, `Notices`, `KnowledgeBase`, `Migrations`

`Accounts`: a visit is one person's sign-up, telephone login or registration by
somebody else; it looks for rows, then inserts or claims one. Numbers are written
in two forms, as clients write them. `BookingImport`: a file is parsed into rows by
what each line lacks; a worker marks the job, lists its rows, and checks, books and
marks each row in steps of their own, each of which may fail: a booking may commit and
its answer be lost, or come after the row's 30 seconds, and a result may not be written.
`Crash` empties the pool; `Age` says that five minutes passed without a write to the
job, which may be because it waits in the queue or its rows cannot be marked, so the
sweep may give a job a second worker. The report is `OpenReport` (the job's counters) and
`BuildReport` (the rows).
`JoinRequests`: the partial unique index, the guarded update of a review, the notification
after it, which may be late or lost, and the gate read before the booking's transaction. `Notices`: each scheduler lists, sends, and
records, in this order. `KnowledgeBase`: an ingestion loads and splits each table,
then stores batches; a conversation's object is taken from the map, extended and trimmed
in the order of the code's lock sections. `Migrations`: executing a file and recording
it are two calls, and the file's text is a sequence of markers and statements.

### Sums of components

`MCSeason`, `MCHosts` and `MCGuests` each hold several modules that share no
variable. A variable `focus`, chosen in the initial state, says which of them a
behaviour moves; the others stay at their initial states. A run then
explores the sum of their state spaces, not the product, and shows of each what a
run of its own would. Nothing is lost by it: no action of one module reads a variable of
another.

### What is abstracted

Identities are model values; texts, notifications, listings, signatures and
authorisation are left out, except where a property is about them. The order of
independent reads inside one Begin step is left out. READ COMMITTED is modelled by
letting any step come between the reads and the commit. `Booking` leaves out the
optional refund to the card after a cancellation: it is the call that `TopUp` models
from `BeginRefund` on.

## 3. The runs

| Run | Instance | Shows |
| --- | --- | --- |
| `booking` | *paid*: 2 bookings (sizes 1 and 2, 1 online) of one guest, capacity 1 to 3, commission 15 or 100 %, edits of the event; *scarce*: a code with 1 redemption wanted twice, once by a booking left pending, a pass with 1 session wanted twice, 2 guests; 2 handlers | money, seats and rows agree; the pass is never overcharged, a ticket admits its party once; the desk implements `SeatSale` |
| `payout_storm` | 1 weekly key, 2 requests and 2 webhooks at once, all cut off anywhere, all replies, earnings rising and falling | one transfer per key, never before its books; reversals are single; money sent stays counted unless its reply was lost |
| `payout_settles` | a manual and a weekly withdrawal, 1 request at a time, cut off anywhere, and 1 webhook or reconciliation, all replies | no overdraft; every payout the provider knows leaves `processing` |
| `topup_storm` | 1 top-up of 2, refunds of 2 and of 1, bookings of 1, 2 requests that are cut off anywhere, 1 webhook at a time | credited once, no money created, what was paid arrives |
| `season` | *event*: 2 managers' operations at a time over 2 bookings of an event that repeats, takes place once or has two dates, 2 bodies that are refused, an update, 3 pauses; *passes*: 2 purchases of a pass sold once, with 1 session of 2 wanted, the price changing to more than a wallet holds, all requests repeated; *coupons*: 3 slots of codes of 2 hosts, 2 edits and a batch, 2 checkouts of one guest; *passkeys*: 2 callers, a burst of 3 grains | views of the dates agree; refunds forget nobody and deletions erase nothing seen; passes and wallets agree; codes keep their limits, edits are lost only by overlap; no caller gains by being forgotten |
| `hosts` | *co-host*: 1 co-host, 2 withdrawals and a retry, all replies; *methods*: 2 methods of a host and 1 of the platform, 2 handlers; *treasury*: 2 withdrawals of one key; *profile*: an owner, an administrator and 2 reviews; *lists*: 3 bookings and a pass of 2 hosts under a list turned page by page; *earnings*: 2 bookings, a review, and a withdrawal with its webhooks, cut off anywhere, under the page of earnings | money has its claim; paid once; a primary is lost only by a race; approvals stand and profiles are true; pages agree, and tear only by writes |
| `guests` | *account*: 5 ways of one person to a row; *import*: 2 files, 2 workers, 1 crash, 2 takes of the job, a change of prices; *door*: the same without restarts, beside a walk-in; *join*: 3 requests, 2 reviewers; *remind*, *promote*: 2 processes, 2 bookings, 3 accounts; *ingest*, *chat*: an ingestion of 3 records, 2 questions, 2 lives of a conversation; *migrate*: 3 files, 2 deployments of different branches, 2 attempts each | one row per person, tokens keep it; the report is true; a guest is told one verdict; the admitted stay approved; nobody is told twice; memory is bounded; no migration is left out |
| `topup_twice` | 1 refund, 2 webhooks at once | *violation*: credited twice |
| `failure_credits` | *treasury* of `hosts` | *violation*: a failed transfer is credited though nothing was debited |
| `claims_exclusive` | *co-host* of `hosts`, 2 withdrawals of one moment | *violation*: together they claim more than the event earned |
| `chunks_stored` | *ingest* of `guests`, with 2 ingestions | *violation*: chunks are stored with another's text |
| `import_replay` | *import* of `guests` | *violation*: a row is refused for the booking it has itself |

**Why the bounds are enough to be interesting.** Nearly every conflict in this code is
between two handlers over one row, so two handlers of each kind, and one or two
contested rows, reach them. Capacities 1 to 3 with parties of 1 and 2 give
both "fits alone, not together" and "fits together"; the commissions 15 and 100 %
leave a remainder and leave the host nothing; a withdrawal takes everything that the
first booking earned, so that any second one overdraws. The deposits (30 and 12; 1 for passes that cost 1 or 2)
afford one purchase but not all. In `season` the calendar has days of two instants and
weeks of one day, so that pausing a day, an instant and "from now on" differ and every
rule fires inside the horizon; after its creation an
event sees two operations of managers (`MaxOperations`), so that any two of them meet. In `hosts` and `guests` the
counters that could grow without end are capped by constants named `Max...`
(edits, crashes, revisions, takes, lives, attempts); where the bound is reached the
guards of the actions say so. The money runs have no bound on steps: their state
spaces are finite because keys are used once. Handlers are interchangeable where a
run declares symmetry, and those runs check no liveness.

Every property of a passing run is violated when a plausible fault is put into
the model (`mutants` in `PROJECT.json`; the operators marked *Fault* in the
modules): a guarded `UPDATE` that loses its guard, a unique key that is not
unique, a commission kept on refund, a status check that forgets a case, a page
that forgets its filter.

Deadlock is checked in the runs of `Booking` and `Payout`, where a retry or a
reconciliation is always possible. In the others a behaviour really may end: every
key is used, the event is deleted, the clock is at its end, the deployments are done.

**Fairness.** `Payout!FairSpec`: handlers that nothing cuts off finish (WF), the
provider settles what it accepted (WF), and reconciliation comes back to every
payout (SF). The code schedules no reconciliation: it is an administrator's "Sync
payout status" (`admin_controller.go`). The property is therefore that pressing
the button again and again suffices. No webhook is assumed to come.
`TopUp!FairSpec`: a handler goes on or is cut off (WF; clients and server have
time limits), and Razorpay repeats `payment.captured` until it gets a 2xx answer,
which `HandlePaymentWebhook` gives only when the credit succeeded (SF).
Nothing is assumed of the guest's browser. The other modules have no liveness
property: their operations are completed by no one but the request itself, and a
request that dies is not taken up again; the import's sweep runs once at a start and
misses a job younger than `staleJobAge`, so not even there does the code promise
an end (section 5).

## 4. What is proved

All proofs are checked by TLAPS without assumptions beyond the named `ASSUME`s
on constants and the hypotheses stated with a theorem: any number of keys, guests,
handlers, reviewers, methods, files and webhooks. Each safety property of
section 3 that is not in the list at the end of this section is a theorem, and each
proof goes by an inductive invariant, stated as a conjunction of named parts before
the lemmas that preserve it action by action. The parts say what the property
itself leaves out: what each handler has in its memory and still has before it.

**`Sums`.** The models add up amounts with `SumFunctionOnSet`, a fold defined
recursively. `SubsetInduction` is induction over the subsets of a finite set, with a set of
good subsets where the library's theorems have an operator parameter; from it follow
that a sum is independent of the order it is taken in (`SumRemove`), and from this how
it changes with its set (`SumAdd`, `SumSubset`, `SumDisjoint`, `SumSupport`) and its
terms (`SumChange`, `SumSame`, `SumAtMost`, `SumPlus`, `SumConstant`), and how it is
taken over other names (`SumRenamed`) or class by class (`SumByClass`).

**`BookingProofs`.** `TypeCorrect` (in particular no wallet and no counter goes
negative). `LedgerAlwaysBalanced`: `LedgerBalanced` is not inductive, as a purchase
writes the split of a quote made earlier; `Books` adds that every quote a handler
holds splits into fee and net (`QuotesSplit`, from the lemmas on flooring) and
that rows that do not exist are blank (`BlankRows`). `WalletsAlwaysMatchLedger` follows
entry by entry, and `DoorAlwaysAdmitsParty` from the types. Of the bookings confirmed as
they are made, beside any rows that were left pending: `RowsAlwaysMatchLedger`,
`EndedForever`, `NeverOversold`, `HostEarningsAlwaysBacked`, `PassNeverOverchargedEver` and
`DeskImplementsSale`, the refinement of `SeatSale`. They rest on `Desk`, which adds `Settled`:
a handler that confirms has a row that was left pending, one that cancels has a row, and a
refunded charge is positive. Then only `CommitCreate`, `CommitCancel` and, for a row left
pending, `CommitConfirm` move seats (`StepKinds`). Each maps to one step of the sale
(`CreateIsSell`, `CancelIsGiveUp`) or, for a second cancellation of a free seat or a row
left pending (`ConfirmIsNothing`), to a stutter: the sale does not know those rows, so
to it what they cost is still in the purse (`SpentPending`), while the rows do take room. The
one way to oversell is to confirm a pending row that was cancelled (`Revived`), and
`NoOversale` says so. The earnings need `EarningsInLedger`: the total kept
apart is the sum of the host's entries, so the floor at zero in the refund's `UPDATE` never
bites.

**`PayoutProofs`.** `TypeCorrect`, `SentIsInTheBooks`, `PaidOnceAWeek`,
`ReversedOncePerKey` and `PaidMoneyStaysCounted`, for any number of clerks and couriers at
once. The invariant says that the handler past `WriteDebit` *owns* its key: the unique
ledger key lets one in, the transfer is unsent while anyone owns it before
`Send`, and a verdict in a courier's hand is one the provider could have given.
`Counting` follows the money: an owner that is about to mark a payment failed has
nothing at the bank unless its reply was lost, and a verdict that is late is one the bank has
passed through. `NeverOverdrawn` holds for any finite set of keys if requests are served one
at a time (`OneAtATime`) and no earning is taken back (`~PastRefunds`), which are
exactly the conditions without which section 5 has counterexamples: what is with
the bank and what the one request is about to send fit into what was earned (`Room`), but for
transfers whose reply was lost.

**`TopUpProofs`.** `TypeCorrect`, `NeverCreditedTwice`, and, if no reply is lost,
`RefundAlwaysDebited`. The invariant says who may still credit a top-up (the one
handler that reserved it) and, for refunds, that past `OpenRefund` one clerk
owns the row until it links it, so that before `Send` the gateway has nothing
and after `Debit` the wallet has paid; a webhook reverses only what failed.
`MoneyIsConserved`: what the guest holds is what the payments moved. `NeverCreatesMoney`
and `SerialWebhooksReturnOnce` hold if, besides, refund webhooks come one at a time and
are not cut off (`SerialWebhooks`); run `topup_twice` is why they must. Then money is out of
the wallet until it is returned (`OutUntilReturned`), and a failed refund that is not
marked so is still out (`AwaitsReturn`).

**`SeasonProofs`.** *Events*: `RefundsNeverForget` and `DeletionErasesOnlyUnseen`, action
properties. The invariant says of a handler at work that every booking it listed and must
refund is refunded, still on its list, in its hand, or (in a pause) lost; and that a handler
that deletes listed nothing that is confirmed now. `ViewsAlwaysAgree` is a theorem about
`Calendar` for every row, horizon and recurrence limit; of the state machine it needs only that the
row, and any copy a handler will write back, has the kind of schedule that its sessions give it
(`RowsInv`). It is this that keeps a one-on-one event out of the recurrence loop, which pauses whole
days, where the feed pauses sessions (`LoopPauses`). The property states the two exceptions
that the proof attempt brought out (section 5). *Passes*: `PassesAlwaysHold`; whoever is buying counts towards the
overshoot of the capacity, and only a pass that was bought is refunded. *Coupons*:
`CodesAlwaysKeepLimits` and, as an action property, `EditsAlwaysAccountedFor`. A cap a row
has, or a checkout saw, is remembered in `limits`; that a guest's own limit breaks only by
overlap is a matter of order: of any checkouts, one was counted by none of
the others (`LastCounted`), and it counted all that had ended before it.
*Throttle*: `ThrottleTypes` and `ThrottleGrantsBounded`. A bucket that is
dropped is made anew full, so the bound is only inductive with the reason why that
gives nothing: a bucket nobody touched for `IdleFor` has refilled. The proof needs
exactly that of the constants (`IdleFor * 1 grain >= Burst`, in
`ThrottleAssumption`), which the limiters of this repository satisfy.

**`HostsProofs`.** *Co-hosts*: `CoHostTypes`, `PaidStaysClaimed`, `OverclaimBounded`, `ExclusiveOneAtATime`. A transfer that is under way
is held by the claim of the request that sent it, or of a retry (`MoneyIsHeld`), unless its
reply was lost or it failed (`Sound`). That claims fit the
earnings is false (run `claims_exclusive`). How far it is false is a theorem: claims that stand
and those about to be committed, each of which fitted when it looked, are summed
(`BoundInv`), so that only requests in flight together overclaim, each by the pool
at most, and one at a time never.
*Profiles*: `ProfileAlwaysTrue` and the action property `ApprovalAlwaysStands`: a copy in a
request's memory carries an approval only if it is vouched for, and a rating that was
once true. *Treasury*: `TreasuryTypes`, `TreasuryAdminPaidOnce` and, as an action property,
`TreasuryPrimaryLostOnlyByRace`. `PastItsDebit` says that whatever has a payment or a
transfer has its debit; with the unique ledger key (`OneDebitPerKey`) one key has one
transfer. `EditorsKnow` says what a handler of methods has seen: one that deletes saw a
secondary method, so what it takes as the last primary became so since; and a
choice whose method is not there any more finds it deleted, never "not yet there".

**`GuestsProofs`.** *Join requests*: `JoinTypes`, `JoinOneVerdict`,
`JoinAdmittedStaysApproved`. The invariant adds the partial unique index (one live
request per guest and session), that what a reviewer is about to tell is what the request
is (`TellingStands`), and that a guest past the gate has an approved request,
which then is that only one: no other may become live beside it, and an approval is
neither withdrawn nor rejected. *Migrations* and *notices*: `MigrationsAlwaysComplete`,
`NobodyToldTwice`, for any finite number of deployments or schedulers. Both count: each
run of a file, or reminder, is accounted for by a cut or lost mark, or by one
process of its own (`ExecutedBy`, `RemindedBy`): before the record is written, one that is
about to write it; afterwards, one that no longer has it in front of it.
*Conversations*: `HistoryAlwaysBounded`; a history that is too long has a question behind it
that will look at its length again. *Accounts*: `PeopleAlwaysKeepTheirRows`; a row keeps the
uid it was made with until a sign-up claims it, uids are unique, and a token leads to its
row. *Import*: `ReportAlwaysTrue`. A line that says "success" has its booking. A line that says
"failed" has none unless its attempt timed out or a second worker began the job, because until
then only the line that the one worker is marking can have a booking without saying so
(`WorkTrue`). The counters a report has read are those of its lines at that moment, and lines
are only ever resolved, so they never run ahead (`ReportRead`).

**`StatementsProofs`.** `PagesAlwaysAgree`: every page that shows an amount shows what the rows
add up to. The invariant says that wallet, wallet ledger, a host's total and a host's
ledger are each the sum of the live purchases less what the lines of the withdrawals took out
(`MoneyTrue`, `Owed`), and that a withdrawal which is quiet (no handler halfway, none cut off, answers
in the provider's order) has a status that says what its lines sum to; the pages'
sums by guest, by host and by kind of payment are then those sums taken apart.
`PagesTearing`: a page of several statements is off only by the writes that came between them.
The earnings page offers more than a withdrawal would be granted only if earnings fell, since
what was there at its first read is otherwise still there (`EarningsRead`). Of a list read by
offset, no more rows were skipped than have left or came late (`ListTrue`): a row that leaves pulls
the others up one place, and only one stands at the boundary.

**Only model-checked.** Liveness (`EveryPayoutFinalised`, `PaidIsCredited`), which TLAPS
cannot prove, and the five counterexamples. Every other property of a passing run is a theorem,
under the conditions stated above (`OneAtATime` and `~PastRefunds` for the overdraft,
`SerialWebhooks` and lost replies in `TopUp`), which are those of the runs that check it.

## 5. Where the code does not do what is said of it

With a run that ends in a counterexample:

1. **A refund is returned twice** (`topup_twice`). The reversal ignores that its
   ledger key is in use and credits the wallet again.
2. **A failed transfer of the platform's is credited** (`failure_credits`).
   `RequestAdminWithdrawal` credits the account after a failure
   (`payout_service.go:1286`, `1297`), though nothing was debited from it; the host's path
   explains at line 658 why that is wrong.
3. **Two withdrawals of co-hosts overclaim** (`claims_exclusive`).
   `cohost_repository.go:38`, `295` and the migration that made the table say the conditional
   `INSERT` makes them mutually exclusive. It locks nothing that both share, and each
   statement sees what was committed when it began.
4. **A replayed row is refused for its own booking** (`import_replay`).
   `booking_import_service.go:379` and `543` say the idempotency check returns the booking. A
   booking that costs nothing has no ledger line for the check to find, and the duplicate guard
   comes first: the row ends as failed. There is at least no second booking.
5. **An ingestion stores every chunk of a document with the last one's text**
   (`chunks_stored`). The chunks share one metadata map.

Met while modelling, without a run of their own.

*Desk.* A retried booking gets no booking, though `README.md:793` promises the existing
one: `creditSplit` stored the event's id where the replay looks for the booking's. Two
cancellations of one covered seat release two sessions. The per-user limit of a code
is checked before the transaction (`booking_service.go:736`). A confirmation
overwrites a cancellation it did not see (`:798`), without a look at the capacity; only a row that
was left pending can be confirmed, and nothing leaves one today. `CreateBooking` looks neither at the event's status nor at a pause nor
whether the date has passed.

*Payouts.* Any error of `InitiateTransfer` frees the amount, though the transfer may be
in flight, and a second withdrawal pays it again (`payout_service.go:654`); a transfer
answered as failed is reversed by the request and, under another key, by its webhook
(`:896`); a webhook cut off after its reversal leaves a key at which every later
attempt fails (`:904`), so the payment stays `processing`; so does one whose request was cut off
before its transfer was sent, or between a refusal and its mark, which the provider never
heard of. Two withdrawals under different keys both read the balance
before either counts (`:457`; `auto_payout.go:83` acknowledges it), so `NoOverdraft` is checked
with one request at a time. Cancelling a booking whose date has passed after its
earning was withdrawn makes the balance negative (`:464`). The webhook's duplicate
check compares a payment with the column that holds the provider's name (`:854`)
and never matches. A late `completed` overwrites `reversed` (`:867`).

*Wallet.* A refund that Razorpay answers with `failed` is marked failed and the wallet
not credited (`user_service.go:826`). A refund webhook that comes before the refund's id
is stored is acknowledged and forgotten (`:876`), and after a failed `Update` (`:831`) no
webhook can find the refund. A lost reply of `CreateRefund` returns the money to wallet
and card; a handler cut off between reservation and credit loses a top-up.

*Events.* Bookings and passes go with a deleted event (`ON DELETE CASCADE`), also a
booking made after `DeleteEvent` had listed them (`event_service.go:664`), and a sold pass
is not looked at. Publishing or updating from a stale read can bring back a cancelled
event (`:1002`), undo a pause or lose a count of `total_bookings`, which no
cancellation lowers. Resuming sets "live" from any status. Pausing one date of a
group event hides its whole day and refunds only that instant. "biweekly" and "yearly" are
each known to one of the two recurrence functions. A base time that
stands in for dates that no rule generates is paused by any pause (`:1445`): when a one-time
event is paused from a later date, or on another, the feed announces it (`:1190`), its
calendar refuses it, and the host's list shows it paused. A rule left on an event that does
not repeat still generates occurrences (`:1362`), which the host's calendar lacks (`:950`).

*Passes and codes.* Passes are counted before the purchase without a lock, so the
capacity is overshot by concurrent buyers. A reservation made during `CancelPass`
survives the refund (`pass_service.go:376`), and a check-in between its listing and its
release is not seen. A co-host's code is stored under the co-host and looked up under
the owner, so it never applies. A used code cannot be deleted, even one whose bookings
were all cancelled. A failed batch keeps the codes it made.

*Co-hosts and methods.* A webhook that comes before the payment is attached leaves a
claim reserved for good (`cohost_repository.go:327`); a retry reserves a second claim;
an answer racing a revocation brings a revoked co-host back. Two first methods added at once are both primary; a deletion racing
a choice leaves none. An administrator's withdrawal looks neither at the balance nor at
whose method it is given (`payout_service.go:1165`); the empty key is stored as a key, so a
second withdrawal without one fails. `cashfree_be_id` is never stored.

*Hosts and pages.* The whole-row `Update` undoes a concurrent approval, fee or rating; a
lost `SetVerified` is never repaired. Pass income is credited to hosts but summed by no
page that lets them withdraw it; the reconciliation, which nothing starts, accuses every host
with an earning, and reads balance and ledger in separate statements. Paid
cancellations become "refunded", so the attention list never has them. Its "confirmed bookings without
reviews" (`host_service.go:1061`) is a difference of two counts: a review by someone without
a booking hides a booking that has none. Paging by offset
misses rows when others leave the filter.

*Accounts.* A sign-up that claims a placeholder orphans the tokens of its phone logins.
A new phone login stays unverified until its second. `VerifyPhoneOTP` clears a newer code, and
two sends at once can leave the last message's code not the stored one.

*Import, join requests, reminders, knowledge base, migrations.* A restart within `staleJobAge` of
a job's last sign of life strands it. "A live job is never this old"
(`booking_import_repository.go:240`) is not so: a job that waits in the queue, or whose rows
cannot be marked, is not touched for as long, and the sweep of a second process gives it a second
worker. "One live request per event" (`join_request_repository.go:15`) is one per session
since the index was replaced; a line with a wrong quantity uses up its phone number. The scheduler
looks at `events.time`, so later occurrences are never reminded; `LIMIT 100` without an
order can starve. Random vector ids duplicate everything on each ingestion, and deleted
documents stay. Users without a location are silently skipped. All anonymous callers share one
conversation. A "down" marker on the line right after "up" is not seen, so what is below
it is executed (`run.go:177`); a file without "up" is executed whole.

## 6. What is not modelled, and the plan

Not modelled for good: calls that only send messages, tokens and signatures checked by
libraries, listings without sums, single-statement switches, reviews' and tickets' texts
(but a ticket's `AddMessage`, which reads and writes all messages, may lose one),
blog, templates, uploads, and the wiring in `cmd/api`. Their state is not shared in a
way that interleavings matter. The worker pool is modelled as far as imports use it; the
goroutine a full queue starts has no `recover` and may take the process down,
which the import's `Crash` covers. Price tiers, moods, covers and slugs of an event are
data that no property tells apart.

What is left, in this order:

1. `SeatSale` has one desk. The same for money: one abstract wallet that `Booking`, `TopUp` and
   `Passes` each implement, and an abstract transfer ("sent at most once, and either counted or
   returned") that `Payout`, `CoHost` and `Treasury` implement under the conditions under which
   their invariants hold.
2. The reminders of later occurrences and the mailbox of a chat with several callers, should
   the code come to support them.
