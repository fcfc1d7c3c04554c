------------------------------- MODULE Payout --------------------------------
(***************************************************************************)
(* Withdrawals of one host: RequestWithdrawal, HandlePayoutWebhook and     *)
(* ReconcilePendingPayouts (internal/service/payout_service.go), the       *)
(* weekly RunAutoPayoutForHost (internal/service/auto_payout.go), and the  *)
(* payment provider as internal/lib/payout/cashfree_provider.go uses it.   *)
(*                                                                         *)
(* No transaction spans these handlers: every statement commits by itself, *)
(* and a handler that is cut off (its process dies, or its client hangs up *)
(* and cancels the request's context) leaves behind what it has written.   *)
(* So each statement is a step.  Webhooks may be lost, repeated, reordered *)
(* and handled concurrently.                                               *)
(*                                                                         *)
(* A withdrawal is named by its idempotency key; payments.idempotency_key  *)
(* and transaction_ledger.idempotency_key are UNIQUE.  These are the       *)
(* host's own withdrawals: no event cap, no co-host claim.                 *)
(***************************************************************************)
EXTENDS Integers, FiniteSets, FiniteSetsExt

CONSTANTS
    Keys,       \* withdrawals, by idempotency key
    Weeks,      \* those of them that are the weekly run's keys
    Amount,     \* what the host asks for with each of the others
    MinAuto,    \* autoPayoutMinCents
    Earnings,   \* the sums the host's event-passed earnings may reach
    PastRefunds,\* whether the host cancels bookings whose date has passed
    Clerks,     \* withdrawal requests served at the same time
    Couriers,   \* webhooks and reconciliations served at the same time
    Abortable,  \* handlers that may be cut off, or have an update fail
    Replies,    \* how InitiateTransfer may end
    Cashfree,   \* webhook_executions.provider_id as written
    None

Handlers == Clerks \cup Couriers

AllReplies == {"accepted", "paid", "declined", "refused", "lost"}

ASSUME PayoutAssumption ==
    /\ Weeks \subseteq Keys
    /\ Amount \in [Keys \ Weeks -> Nat \ {0}]
    /\ MinAuto \in Nat \ {0}
    /\ Earnings \subseteq Nat
    /\ PastRefunds \in BOOLEAN
    /\ Clerks \cap Couriers = {}
    /\ Abortable \subseteq Clerks \cup Couriers
    /\ Replies \subseteq AllReplies
    /\ None \notin Keys /\ Cashfree \notin Keys

VARIABLES
    passed,     \* net earnings of confirmed bookings whose date has passed
    status,     \* payments.status, "none" before the row exists
    amount,     \* payments.amount_cents, as debited
    journal,    \* transaction_ledger.idempotency_key values in use
    written,    \* SUM(transaction_ledger.amount_cents) written for each key
    recorded,   \* webhook_executions: provider_id, payment and verdict
    bank,       \* what has become of the transfer at the provider
    asked,      \* how often InitiateTransfer has been called for each key
    unanswered, \* transfers whose reply never reached the request
    proc        \* what each handler is doing

books   == <<status, amount, journal, written, recorded>>
outside == <<passed, bank, asked, unanswered>>
vars    == <<books, outside, proc>>

------------------------------------------------------------------------------
(* What the queries see.                                                   *)

\* The payments SumActivePayoutAmountByAccount counts.
Counted == {"pending", "processing", "completed"}

SumOf(S) == SumFunctionOnSet(amount, S)
Active   == SumOf({k \in Keys : status[k] \in Counted})

\* The ledger keys of a withdrawal: <key> for the debit, <key>_reversal when
\* the request itself fails, <key>_failed_reversal and <key>_reversed_reversal
\* when a webhook says so.
Lines == {"debit", "start", "failed", "reversed"}

Has(line, k) == <<line, k>> \in journal

\* transaction_ledger.Create refuses a key that is in use.
\* Fault: the key is not UNIQUE.
WriteUnguarded(line, k) == line \in Lines
MayWrite(line, k)       == ~Has(line, k)

Write(line, k, cents) ==
    /\ journal' = journal \cup {<<line, k>>}
    /\ written' = [written EXCEPT ![k] = @ + cents]

Verdicts == {"completed", "failed", "reversed"}

\* The webhooks the provider has reason to send, once or many times.
Announced(k) ==
    CASE bank[k] = "completed" -> {"completed"}
      [] bank[k] = "failed"    -> {"failed"}
      [] bank[k] = "reversed"  -> {"completed", "reversed"}
      [] OTHER                 -> {}

\* GetWebhookExecution looks for the payment's id in the provider_id column,
\* where RecordWebhookExecution has put the provider's name.
LookupProvider(k)     == k
AlreadyRecorded(k, v) == <<LookupProvider(k), k, v>> \in recorded

------------------------------------------------------------------------------
(* Handlers.                                                               *)

ClerkSteps   == {"requested", "checking", "debiting", "opening", "starting",
                 "sending", "completing", "failing", "reversing"}
CourierSteps == {"polling", "settling", "marking", "recording"}

\* sum is the amount asked for, seen the earnings read, verdict the webhook's.
Process == [pc: {"idle"} \cup ClerkSteps \cup CourierSteps, key: Keys \cup {None},
            sum: Nat, seen: Nat, verdict: Verdicts \cup {None}]

Idle == [pc |-> "idle", key |-> None, sum |-> 0, seen |-> 0, verdict |-> None]

Free(h)      == proc[h].pc = "idle"
At(h, pc)    == proc[h].pc = pc
Become(h, p) == proc' = [proc EXCEPT ![h] = p]
Go(h, pc)    == Become(h, [proc[h] EXCEPT !.pc = pc])

TypeOK ==
    /\ passed \in Nat
    /\ status \in [Keys -> {"none", "pending", "processing", "completed",
                            "failed", "reversed"}]
    /\ amount \in [Keys -> Nat]
    /\ journal \subseteq Lines \X Keys
    /\ written \in [Keys -> Int]
    /\ recorded \subseteq {Cashfree} \X Keys \X Verdicts
    /\ bank \in [Keys -> {"none", "inflight", "completed", "failed", "reversed"}]
    /\ asked \in [Keys -> Nat]
    /\ unanswered \subseteq Keys
    /\ proc \in [Handlers -> Process]

Init ==
    /\ passed = 0
    /\ status = [k \in Keys |-> "none"]
    /\ amount = [k \in Keys |-> 0]
    /\ journal = {}
    /\ written = [k \in Keys |-> 0]
    /\ recorded = {}
    /\ bank = [k \in Keys |-> "none"]
    /\ asked = [k \in Keys |-> 0]
    /\ unanswered = {}
    /\ proc = [h \in Handlers |-> Idle]

------------------------------------------------------------------------------
(* RequestWithdrawal.                                                      *)

\* The host's request, sent as often as the client retries it.
Request(h, k) ==
    /\ Free(h)
    /\ k \notin Weeks
    /\ Become(h, [Idle EXCEPT !.pc = "requested", !.key = k, !.sum = Amount[k]])
    /\ UNCHANGED <<books, outside>>

\* RunAutoPayoutForHost: the whole balance under the week's key, on every tick.
\* An overdrawn balance counts as zero.
AutoPayout(h, k) ==
    /\ Free(h)
    /\ k \in Weeks
    /\ \E sum \in MinAuto .. passed :
          /\ sum = passed - Active
          /\ Become(h, [Idle EXCEPT !.pc = "requested", !.key = k, !.sum = sum])
    /\ UNCHANGED <<books, outside>>

\* Step 1: a key that has its debit and its payment is answered with it.
Answered(k) == Has("debit", k) /\ status[k] # "none"

\* Steps 2 and 3: GetHostEarningsBreakdown.
ReadEarnings(h) ==
    /\ At(h, "requested")
    /\ ~Answered(proc[h].key)
    /\ Become(h, [proc[h] EXCEPT !.pc = "checking", !.seen = passed])
    /\ UNCHANGED <<books, outside>>

\* Step 3b: what is available, of what was read.
\* Fault: the payouts in flight are forgotten (bug C2).
AffordsGross(h) == proc[h].sum <= proc[h].seen
Affords(h)      == proc[h].sum <= proc[h].seen - Active

\* (The fraud flag and the payout method, checked in between, only refuse.)
CheckAvailable(h) ==
    /\ At(h, "checking")
    /\ Affords(h)
    /\ Go(h, "debiting")
    /\ UNCHANGED <<books, outside>>

\* Step 6: the debit.  Its key is what stops a repeated request.
WriteDebit(h) ==
    LET k == proc[h].key IN
    /\ At(h, "debiting")
    /\ MayWrite("debit", k)
    /\ Write("debit", k, -proc[h].sum)
    /\ amount' = [amount EXCEPT ![k] = proc[h].sum]
    /\ Go(h, "opening")
    /\ UNCHANGED <<status, recorded, outside>>

\* Step 7: the payment row, or its error path.
\* Fault: the row is left for after the transfer.
OpenLater(h) ==
    /\ At(h, "opening")
    /\ Go(h, "sending")
    /\ UNCHANGED <<books, outside>>

OpenPayment(h) ==
    /\ At(h, "opening")
    /\ status' = [status EXCEPT ![proc[h].key] = "pending"]
    /\ Go(h, "starting")
    /\ UNCHANGED <<amount, journal, written, recorded, outside>>

OpenFails(h) ==
    /\ At(h, "opening")
    /\ Go(h, "reversing")
    /\ UNCHANGED <<books, outside>>

\* Step 8: the row is made visible to reconciliation, then the provider called.
Start(h) ==
    /\ At(h, "starting")
    /\ status' = [status EXCEPT ![proc[h].key] = "processing"]
    /\ Go(h, "sending")
    /\ UNCHANGED <<amount, journal, written, recorded, outside>>

\* Step 9, by the provider's reply.  A reply that is lost, or cannot be read, is
\* taken for a refusal.
\* Fault: a transfer that is not completed at once is taken for a refusal.
AfterSendStrict(r) == IF r = "paid" THEN "completing" ELSE "failing"
AfterSend(r) ==
    CASE r = "accepted" -> "idle"
      [] r = "paid"     -> "completing"
      [] OTHER          -> "failing"

\* What each way for InitiateTransfer to end leaves at the provider.
BankAfter(r) ==
    CASE r \in {"accepted", "lost"} -> "inflight"
      [] r = "paid"                 -> "completed"
      [] r = "declined"             -> "failed"
      [] OTHER                      -> "none"

Send(h, r) ==
    LET k == proc[h].key IN
    /\ At(h, "sending")
    /\ asked' = [asked EXCEPT ![k] = @ + 1]
    /\ bank' = [bank EXCEPT ![k] = BankAfter(r)]
    /\ unanswered' = IF r = "lost" THEN unanswered \cup {k} ELSE unanswered
    /\ IF AfterSend(r) = "idle" THEN Become(h, Idle) ELSE Go(h, AfterSend(r))
    /\ UNCHANGED <<books, passed>>

Complete(h) ==
    /\ At(h, "completing")
    /\ status' = [status EXCEPT ![proc[h].key] = "completed"]
    /\ Become(h, Idle)
    /\ UNCHANGED <<amount, journal, written, recorded, outside>>

\* IncrementRetry, and then the debit's reversal.
Fail(h) ==
    /\ At(h, "failing")
    /\ status' = [status EXCEPT ![proc[h].key] = "failed"]
    /\ Go(h, "reversing")
    /\ UNCHANGED <<amount, journal, written, recorded, outside>>

\* The error of either of those two updates is ignored, and the handler goes on.
Skip(h) ==
    /\ h \in Abortable
    /\ \/ At(h, "starting") /\ Go(h, "sending")
       \/ At(h, "failing") /\ Go(h, "reversing")
    /\ UNCHANGED <<books, outside>>

Reverse(h) ==
    LET k == proc[h].key IN
    /\ At(h, "reversing")
    /\ MayWrite("start", k)
    /\ Write("start", k, amount[k])
    /\ Become(h, Idle)
    /\ UNCHANGED <<status, amount, recorded, outside>>

------------------------------------------------------------------------------
(* HandlePayoutWebhook, from the provider or from ReconcilePendingPayouts. *)

Webhook(h, k, v) ==
    /\ Free(h)
    /\ v \in Announced(k)
    /\ status[k] # "none"
    /\ ~AlreadyRecorded(k, v)
    /\ Become(h, [Idle EXCEPT !.pc = "settling", !.key = k, !.verdict = v])
    /\ UNCHANGED <<books, outside>>

\* ListStuckPayouts.
\* Fault: it lists the payouts that were never started.
StuckPending(k) == status[k] = "pending"
Stuck(k)        == status[k] = "processing"

Reconcile(h, k) ==
    /\ Free(h)
    /\ Stuck(k)
    /\ Become(h, [Idle EXCEPT !.pc = "polling", !.key = k])
    /\ UNCHANGED <<books, outside>>

\* A transfer the provider has not settled, or does not know, is left for the
\* next run.
\* Fault: whatever the provider says is passed on.
FinalOrNot(outcome) == outcome # "none"
Final(outcome)      == outcome \in Verdicts

\* CheckStatus.
Poll(h) ==
    LET k == proc[h].key IN
    /\ At(h, "polling")
    /\ Final(bank[k])
    /\ ~AlreadyRecorded(k, bank[k])
    /\ Become(h, [proc[h] EXCEPT !.pc = "settling", !.verdict = bank[k]])
    /\ UNCHANGED <<books, outside>>

SettleCompleted(h) ==
    /\ At(h, "settling")
    /\ proc[h].verdict = "completed"
    /\ status' = [status EXCEPT ![proc[h].key] = "completed"]
    /\ Go(h, "recording")
    /\ UNCHANGED <<amount, journal, written, recorded, outside>>

\* A failed or reversed transfer is credited first, under a key of its own.
CreditBack(h) ==
    LET k == proc[h].key
        v == proc[h].verdict
    IN
    /\ At(h, "settling")
    /\ v # "completed"
    /\ MayWrite(v, k)
    /\ Write(v, k, amount[k])
    /\ Go(h, "marking")
    /\ UNCHANGED <<status, amount, recorded, outside>>

\* IncrementRetry or UpdateStatus: whatever the status was.
Mark(h) ==
    /\ At(h, "marking")
    /\ status' = [status EXCEPT ![proc[h].key] = proc[h].verdict]
    /\ Go(h, "recording")
    /\ UNCHANGED <<amount, journal, written, recorded, outside>>

Record(h) ==
    /\ At(h, "recording")
    /\ recorded' = recorded \cup {<<Cashfree, proc[h].key, proc[h].verdict>>}
    /\ Become(h, Idle)
    /\ UNCHANGED <<status, amount, journal, written, outside>>

------------------------------------------------------------------------------
(* Early returns, the provider, and the passing of time.                   *)

\* A handler answers, or stops at a check or at a ledger key in use.
MustGiveUp(h) ==
    LET k == proc[h].key IN
    \/ At(h, "requested") /\ Answered(k)
    \/ At(h, "checking") /\ ~Affords(h)
    \/ At(h, "debiting") /\ ~MayWrite("debit", k)
    \/ At(h, "reversing") /\ ~MayWrite("start", k)
    \/ At(h, "polling") /\ (Final(bank[k]) => AlreadyRecorded(k, bank[k]))
    \/ /\ At(h, "settling")
       /\ proc[h].verdict # "completed"
       /\ ~MayWrite(proc[h].verdict, k)

GiveUp(h) ==
    /\ MustGiveUp(h)
    /\ Become(h, Idle)
    /\ UNCHANGED <<books, outside>>

Abort(h) ==
    /\ h \in Abortable
    /\ ~Free(h)
    /\ Become(h, Idle)
    /\ UNCHANGED <<books, outside>>

\* The provider settles a transfer, and a bank may return a completed one.
Settle(k) ==
    /\ bank[k] = "inflight"
    /\ \E end \in {"completed", "failed"} : bank' = [bank EXCEPT ![k] = end]
    /\ UNCHANGED <<books, passed, asked, unanswered, proc>>

Return(k) ==
    /\ bank[k] = "completed"
    /\ bank' = [bank EXCEPT ![k] = "reversed"]
    /\ UNCHANGED <<books, passed, asked, unanswered, proc>>

\* The date of further bookings passes.
Earn ==
    /\ passed' \in {e \in Earnings : e > passed}
    /\ UNCHANGED <<books, bank, asked, unanswered, proc>>

\* CancelBookingByHost asks nothing about the date, and a cancelled booking earns
\* nothing.
CancelPast ==
    /\ PastRefunds
    /\ passed' \in {e \in Earnings \cup {0} : e < passed}
    /\ UNCHANGED <<books, bank, asked, unanswered, proc>>

ClerkStep(h) ==
    \/ ReadEarnings(h)
    \/ CheckAvailable(h)
    \/ WriteDebit(h)
    \/ OpenPayment(h)
    \/ OpenFails(h)
    \/ Start(h)
    \/ Skip(h)
    \/ \E r \in Replies : Send(h, r)
    \/ Complete(h)
    \/ Fail(h)
    \/ Reverse(h)

CourierStep(h) ==
    \/ Poll(h)
    \/ SettleCompleted(h)
    \/ CreditBack(h)
    \/ Mark(h)
    \/ Record(h)

Serve(h) == ClerkStep(h) \/ CourierStep(h) \/ GiveUp(h)

Next ==
    \/ \E h \in Clerks, k \in Keys : Request(h, k) \/ AutoPayout(h, k)
    \/ \E h \in Couriers, k \in Keys :
          Reconcile(h, k) \/ \E v \in Verdicts : Webhook(h, k, v)
    \/ \E h \in Handlers : Serve(h) \/ Abort(h)
    \/ \E k \in Keys : Settle(k) \/ Return(k)
    \/ Earn
    \/ CancelPast

Spec == Init /\ [][Next]_vars

\* Handlers that nothing cuts off get on with their work, the provider settles
\* what it has accepted, and reconciliation comes back to every payout.  No
\* webhook need ever arrive.
Fairness ==
    /\ \A h \in Handlers \ Abortable : WF_vars(Serve(h))
    /\ \A h \in Couriers \ Abortable, k \in Keys : SF_vars(Reconcile(h, k))
    /\ \A k \in Keys : WF_vars(Settle(k))

FairSpec == Spec /\ Fairness

------------------------------------------------------------------------------
(* Properties.                                                             *)

\* Wherever a handler is cut off, the provider never holds a transfer that the
\* books do not show: its debit and its payment row were there first.
\* (the order of steps 6, 7 and 8 of RequestWithdrawal)
DebitedBeforeSent ==
    \A k \in Keys : asked[k] > 0 => Has("debit", k) /\ status[k] # "none"

\* However often a request is retried, and however many servers run the weekly
\* payout at once, one key asks the provider for one transfer ("paid at most
\* once a week however many times the run fires", auto_payout.go:37).
OneTransferPerKey == \A k \in Keys : asked[k] <= 1

\* The reversals of a withdrawal that are in the ledger.
Credits(k) == {line \in Lines \ {"debit"} : Has(line, k)}

\* A webhook that comes again, or while it is being handled, credits nothing: a
\* withdrawal's ledger entries sum to its debit and one credit for each distinct
\* reversal key, however often each was written.
\* (transaction_ledger.idempotency_key, payout_service.go:896 and 940)
WebhookCreditsOnce ==
    \A k \in Keys :
        written[k] = amount[k] * (Cardinality(Credits(k))
                                    - IF Has("debit", k) THEN 1 ELSE 0)

\* Money that is with the bank or with the host is counted against the host's
\* balance, so it cannot be withdrawn again: no second request or webhook, none
\* that is late or repeated, and no interruption makes
\* SumActivePayoutAmountByAccount forget it.  Only a transfer whose reply was
\* lost is forgotten, having been taken for a failed one.
PaidMoneyIsCounted ==
    \A k \in Keys \ unanswered :
        bank[k] \in {"inflight", "completed"} => status[k] \in Counted

\* But for transfers whose reply was lost, the host never holds, or is on the way
\* to hold, more than has been earned, if no earning is taken back and no two
\* requests are served at once.
\* (booking earnings "withdrawn repeatedly", bug C2, payout_service.go:430)
NoOverdraft ==
    SumOf({k \in Keys \ unanswered : bank[k] \in {"inflight", "completed"}}) <= passed

\* Reconciliation finalises every payout that is stuck in processing and known to
\* the provider, webhook or none, and wherever its request was cut off ("the
\* safety net for missed payout webhooks", payout_service.go:987).
EveryPayoutFinalised ==
    \A k \in Keys :
        status[k] = "processing" /\ bank[k] # "none" ~> status[k] # "processing"

==============================================================================
