-------------------------------- MODULE TopUp --------------------------------
(***************************************************************************)
(* The wallet of one guest and the payment gateway: InitiateTopUp,         *)
(* VerifyTopUp, CreditWalletFromWebhook, RefundTopUpToSource and           *)
(* ApplyRefundWebhook (internal/service/user_service.go), behind           *)
(* HandlePaymentWebhook (internal/controller/webhook_controller.go) and    *)
(* with internal/lib/payment/razorpay_provider.go.                         *)
(*                                                                         *)
(* As with payouts no transaction spans a handler: each statement commits  *)
(* by itself and is a step.  A top-up and a refund are named by their      *)
(* idempotency keys, which are UNIQUE in payments; the ledger's keys are   *)
(* made of the payment's id and are UNIQUE too.                            *)
(***************************************************************************)
EXTENDS Integers, FiniteSetsExt

CONSTANTS
    Topups,     \* top-ups, by idempotency key
    Refunds,    \* refunds to the card, by idempotency key
    Paid,       \* payments.amount_cents of each top-up
    Of,         \* refund_of_payment_id of each refund
    Asked,      \* payments.amount_cents of each refund
    Prices,     \* what a booking may cost the guest
    Clerks,     \* requests of the guest's and the administrator's browsers
    Couriers,   \* the gateway's webhooks served at the same time
    Abortable,  \* handlers that may be cut off, or have a statement fail
    Replies,    \* how CreateRefund may end
    None

Handlers == Clerks \cup Couriers

AllReplies == {"pending", "processed", "failed", "refused", "lost"}

ASSUME TopUpAssumption ==
    /\ Paid \in [Topups -> Nat \ {0}]
    /\ Of \in [Refunds -> Topups]
    /\ Asked \in [Refunds -> Nat \ {0}]
    /\ Topups \cap Refunds = {}
    /\ Prices \subseteq Nat \ {0}
    /\ Clerks \cap Couriers = {}
    /\ Abortable \subseteq Clerks \cup Couriers
    /\ Replies \subseteq AllReplies
    /\ None \notin Topups \cup Refunds

VARIABLES
    topup,      \* payments.status of a top-up, "none" before the row exists
    refund,     \* payments.status of a refund
    linked,     \* refunds whose gateway_refund_id is stored
    journal,    \* transaction_ledger.idempotency_key values in use
    wallet,     \* accounts.balance_cents
    moved,      \* what each payment has moved into the wallet, or out of it
    spent,      \* what the guest's bookings hold of the wallet
    captured,   \* top-ups the guest has paid at the gateway
    gateway,    \* what has become of each refund at the gateway
    proc        \* what each handler is doing

books   == <<topup, refund, linked, journal>>
money   == <<wallet, moved, spent>>
outside == <<captured, gateway>>
vars    == <<books, money, outside, proc>>

------------------------------------------------------------------------------
(* What the queries see.                                                   *)

\* SumActiveRefundsAgainstPayment, and the headroom it leaves.
Counted     == {"pending", "processing", "completed"}
Headroom(t) == Paid[t] - SumFunctionOnSet(Asked, {r \in Refunds : Of[r] = t /\ refund[r] \in Counted})

\* accounts.Debit: UPDATE ... WHERE balance_cents >= amount.
\* Fault: the debit trusts the balance read before.
DebitUnguarded(n) == n \in Nat
MayDebit(n)       == n <= wallet

\* transaction_ledger.Create refuses a key that is in use.
\* Fault: the key is not UNIQUE.
ReserveUnguarded(t) == t \in Topups
MayReserve(t)       == <<"topup", t>> \notin journal

\* The gateway refunds no more of a payment than was paid.
GatewayAccepts(r) ==
    LET sent == {s \in Refunds : Of[s] = Of[r] /\ gateway[s] \in {"pending", "processed"}}
    IN  SumFunctionOnSet(Asked, sent) + Asked[r] <= Paid[Of[r]]

Move(x, n) ==
    /\ wallet' = wallet + n
    /\ moved' = [moved EXCEPT ![x] = @ + n]
    /\ UNCHANGED spent

------------------------------------------------------------------------------
(* Handlers.                                                               *)

TopupSteps  == {"ordering", "reserving", "crediting", "marking"}
RefundSteps == {"affording", "opening", "journaling", "debiting", "sending",
                "linking", "undoing", "reversing", "returning", "failing",
                "finishing"}

\* reply is the gateway's answer to CreateRefund.
Process == [pc: {"idle"} \cup TopupSteps \cup RefundSteps,
            of: Topups \cup Refunds \cup {None}, reply: Replies \cup {None}]

Idle == [pc |-> "idle", of |-> None, reply |-> None]

Free(h)      == proc[h].pc = "idle"
At(h, pc)    == proc[h].pc = pc
Become(h, p) == proc' = [proc EXCEPT ![h] = p]
Take(h, pc, x) == Become(h, [Idle EXCEPT !.pc = pc, !.of = x])
Go(h, pc)    == Become(h, [proc[h] EXCEPT !.pc = pc])

TypeOK ==
    /\ topup \in [Topups -> {"none", "pending", "completed"}]
    /\ refund \in [Refunds -> {"none", "pending", "processing", "completed", "failed"}]
    /\ linked \subseteq Refunds
    /\ journal \subseteq ({"topup"} \X Topups) \cup ({"debit", "reversal"} \X Refunds)
    /\ wallet \in Nat
    /\ moved \in [Topups \cup Refunds -> Int]
    /\ spent \in Nat
    /\ captured \subseteq Topups
    /\ gateway \in [Refunds -> {"none", "pending", "processed", "failed"}]
    /\ proc \in [Handlers -> Process]

Init ==
    /\ topup = [t \in Topups |-> "none"]
    /\ refund = [r \in Refunds |-> "none"]
    /\ linked = {}
    /\ journal = {}
    /\ wallet = 0
    /\ moved = [x \in Topups \cup Refunds |-> 0]
    /\ spent = 0
    /\ captured = {}
    /\ gateway = [r \in Refunds |-> "none"]
    /\ proc = [h \in Handlers |-> Idle]

------------------------------------------------------------------------------
(* InitiateTopUp: an order at the gateway, then the row that remembers it. *)
(* A key that has its row is answered with the order stored there.         *)

Initiate(h, t) ==
    /\ Free(h)
    /\ topup[t] = "none"
    /\ Take(h, "ordering", t)
    /\ UNCHANGED <<books, money, outside>>

RecordOrder(h) ==
    LET t == proc[h].of IN
    /\ At(h, "ordering")
    /\ topup[t] = "none"
    /\ topup' = [topup EXCEPT ![t] = "pending"]
    /\ Become(h, Idle)
    /\ UNCHANGED <<refund, linked, journal, money, outside>>

------------------------------------------------------------------------------
(* VerifyTopUp and CreditWalletFromWebhook, which race to credit a top-up. *)

\* Fault: the row is completed before the ledger is asked.
FirstMark   == "marking"
FirstSettle == "reserving"

\* The row is read; a completed one is an early exit.
Settle(h, t) ==
    /\ Free(h)
    /\ t \in captured
    /\ topup[t] # "completed"
    /\ Take(h, FirstSettle, t)
    /\ UNCHANGED <<books, money, outside>>

\* The guest's browser returns with the gateway's signature.
Verify(h, t) == h \in Clerks /\ Settle(h, t)

\* payment.captured, sent until it is answered with success.
Captured(h, t) == h \in Couriers /\ Settle(h, t)

\* reserveTopUpLedger: whoever loses credits nothing.
Reserve(h) ==
    LET t == proc[h].of IN
    /\ At(h, "reserving")
    /\ journal' = journal \cup {<<"topup", t>>}
    /\ Go(h, IF MayReserve(t) THEN "crediting" ELSE "marking")
    /\ UNCHANGED <<topup, refund, linked, money, outside>>

Credit(h) ==
    LET t == proc[h].of IN
    /\ At(h, "crediting")
    /\ Move(t, Paid[t])
    /\ Go(h, "marking")
    /\ UNCHANGED <<books, outside>>

Mark(h) ==
    /\ At(h, "marking")
    /\ topup' = [topup EXCEPT ![proc[h].of] = "completed"]
    /\ Become(h, Idle)
    /\ UNCHANGED <<refund, linked, journal, money, outside>>

------------------------------------------------------------------------------
(* RefundTopUpToSource, asked for by an administrator or by the guest who  *)
(* cancels a booking.                                                      *)

\* Steps 1 to 3: a new key, a completed top-up, and headroom on it.
BeginRefund(h, r) ==
    /\ Free(h)
    /\ refund[r] = "none"
    /\ topup[Of[r]] = "completed"
    /\ Asked[r] <= Headroom(Of[r])
    /\ Take(h, "affording", r)
    /\ UNCHANGED <<books, money, outside>>

\* Step 4.
CheckWallet(h) ==
    /\ At(h, "affording")
    /\ Asked[proc[h].of] <= wallet
    /\ Go(h, "opening")
    /\ UNCHANGED <<books, money, outside>>

\* Phase A: the row, the ledger entry, the wallet.
OpenRefund(h) ==
    LET r == proc[h].of IN
    /\ At(h, "opening")
    /\ refund[r] = "none"
    /\ refund' = [refund EXCEPT ![r] = "pending"]
    /\ Go(h, "journaling")
    /\ UNCHANGED <<topup, linked, journal, money, outside>>

WriteDebit(h) ==
    /\ At(h, "journaling")
    /\ journal' = journal \cup {<<"debit", proc[h].of>>}
    /\ Go(h, "debiting")
    /\ UNCHANGED <<topup, refund, linked, money, outside>>

Debit(h) ==
    LET r == proc[h].of IN
    /\ At(h, "debiting")
    /\ MayDebit(Asked[r])
    /\ Move(r, -Asked[r])
    /\ Go(h, "sending")
    /\ UNCHANGED <<books, outside>>

\* The guest has spent the money meanwhile: nothing to give back.
DebitFails(h) ==
    /\ At(h, "debiting")
    /\ ~MayDebit(Asked[proc[h].of])
    /\ Go(h, "undoing")
    /\ UNCHANGED <<books, money, outside>>

\* Phase B.  A reply that is lost is an error like a refusal.
\* Fault: a refund that is not yet processed is taken for a refusal.
AnswersStrict == {"processed", "failed"}
Answers       == {"pending", "processed", "failed"}

BankAfter(reply) ==
    CASE reply = "refused" -> "none"
      [] reply = "lost"    -> "pending"
      [] OTHER             -> reply

Send(h, reply) ==
    LET r == proc[h].of IN
    /\ At(h, "sending")
    /\ reply = "refused" \/ GatewayAccepts(r)
    /\ gateway' = [gateway EXCEPT ![r] = BankAfter(reply)]
    /\ Become(h, [proc[h] EXCEPT !.reply = reply,
                    !.pc = IF reply \in Answers THEN "linking" ELSE "reversing"])
    /\ UNCHANGED <<books, money, captured>>

\* Phase C: the gateway's id of the refund and its status, in one UPDATE.
StatusOf(reply) ==
    CASE reply = "processed" -> "completed"
      [] reply = "failed"    -> "failed"
      [] OTHER               -> "processing"

Link(h) ==
    LET r == proc[h].of IN
    /\ At(h, "linking")
    /\ refund' = [refund EXCEPT ![r] = StatusOf(proc[h].reply)]
    /\ linked' = linked \cup {r}
    /\ Become(h, Idle)
    /\ UNCHANGED <<topup, journal, money, outside>>

------------------------------------------------------------------------------
(* ApplyRefundWebhook, and the reversal it shares with the error paths of  *)
(* RefundTopUpToSource.                                                    *)

\* Fault: only a completed refund is left alone.
FinalUnlessFailed == {"completed"}
Final             == {"completed", "failed"}

\* refund.processed or refund.failed: a refund whose gateway id is not stored
\* yet is unknown, and the webhook is answered with success and forgotten.
RefundWebhook(h, r) ==
    /\ Free(h)
    /\ h \in Couriers
    /\ gateway[r] \in {"processed", "failed"}
    /\ r \in linked
    /\ refund[r] \notin Final
    /\ Take(h, IF gateway[r] = "failed" THEN "reversing" ELSE "finishing", r)
    /\ UNCHANGED <<books, money, outside>>

Finish(h) ==
    /\ At(h, "finishing")
    /\ refund' = [refund EXCEPT ![proc[h].of] = "completed"]
    /\ Become(h, Idle)
    /\ UNCHANGED <<topup, linked, journal, money, outside>>

\* writeSourceRefundReversal: a duplicate key in the ledger is ignored, and the
\* wallet credited all the same.
Reverse(h) ==
    /\ At(h, "reversing") \/ At(h, "undoing")
    /\ journal' = journal \cup {<<"reversal", proc[h].of>>}
    /\ Go(h, IF At(h, "reversing") THEN "returning" ELSE "failing")
    /\ UNCHANGED <<topup, refund, linked, money, outside>>

Return(h) ==
    LET r == proc[h].of IN
    /\ At(h, "returning")
    /\ Move(r, Asked[r])
    /\ Go(h, "failing")
    /\ UNCHANGED <<books, outside>>

Fail(h) ==
    /\ At(h, "failing")
    /\ refund' = [refund EXCEPT ![proc[h].of] = "failed"]
    /\ Become(h, Idle)
    /\ UNCHANGED <<topup, linked, journal, money, outside>>

\* A ledger entry that cannot be written fails the refund, or, for a reversal,
\* is ignored; a credit that fails is logged.
Skip(h) ==
    /\ h \in Abortable
    /\ \/ At(h, "journaling") /\ Go(h, "failing")
       \/ At(h, "undoing") /\ Go(h, "failing")
       \/ At(h, "reversing") /\ Go(h, "returning")
       \/ At(h, "returning") /\ Go(h, "failing")
    /\ UNCHANGED <<books, money, outside>>

------------------------------------------------------------------------------
(* Early returns, the gateway and the guest.                               *)

MustGiveUp(h) ==
    \/ At(h, "ordering") /\ topup[proc[h].of] # "none"
    \/ At(h, "affording") /\ Asked[proc[h].of] > wallet
    \/ At(h, "opening") /\ refund[proc[h].of] # "none"

GiveUp(h) ==
    /\ MustGiveUp(h)
    /\ Become(h, Idle)
    /\ UNCHANGED <<books, money, outside>>

Abort(h) ==
    /\ h \in Abortable
    /\ ~Free(h)
    /\ Become(h, Idle)
    /\ UNCHANGED <<books, money, outside>>

Pay(t) ==
    /\ topup[t] # "none"
    /\ t \notin captured
    /\ captured' = captured \cup {t}
    /\ UNCHANGED <<books, money, gateway, proc>>

Conclude(r) ==
    /\ gateway[r] = "pending"
    /\ \E end \in {"processed", "failed"} : gateway' = [gateway EXCEPT ![r] = end]
    /\ UNCHANGED <<books, money, captured, proc>>

\* The desk debits the wallet for a booking and credits it back for a
\* cancellation, each in one transaction with its ledger entries.
Book(n) ==
    /\ MayDebit(n)
    /\ wallet' = wallet - n
    /\ spent' = spent + n
    /\ UNCHANGED <<books, moved, outside, proc>>

CancelBooking(n) ==
    /\ n <= spent
    /\ wallet' = wallet + n
    /\ spent' = spent - n
    /\ UNCHANGED <<books, moved, outside, proc>>

Serve(h) ==
    \/ RecordOrder(h)
    \/ Reserve(h)
    \/ Credit(h)
    \/ Mark(h)
    \/ CheckWallet(h)
    \/ OpenRefund(h)
    \/ WriteDebit(h)
    \/ Debit(h)
    \/ DebitFails(h)
    \/ \E reply \in Replies : Send(h, reply)
    \/ Link(h)
    \/ Finish(h)
    \/ Reverse(h)
    \/ Return(h)
    \/ Fail(h)
    \/ Skip(h)
    \/ GiveUp(h)

Next ==
    \/ \E h \in Clerks, t \in Topups : Initiate(h, t)
    \/ \E h \in Handlers, t \in Topups : Verify(h, t) \/ Captured(h, t)
    \/ \E h \in Clerks, r \in Refunds : BeginRefund(h, r)
    \/ \E h \in Couriers, r \in Refunds : RefundWebhook(h, r)
    \/ \E h \in Handlers : Serve(h) \/ Abort(h)
    \/ \E t \in Topups : Pay(t)
    \/ \E r \in Refunds : Conclude(r)
    \/ \E n \in Prices : Book(n) \/ CancelBooking(n)

Spec == Init /\ [][Next]_vars

\* A handler gets on with its work or is cut off (requests have deadlines), and
\* the gateway repeats payment.captured until it is answered with success.  The
\* guest's browser need never come back.
Fairness ==
    /\ \A h \in Handlers : WF_vars(Serve(h) \/ Abort(h))
    /\ \A h \in Couriers \ Abortable, t \in Topups : SF_vars(Captured(h, t))

FairSpec == Spec /\ Fairness

------------------------------------------------------------------------------
(* Properties.                                                             *)

\* The browser's verification, a webhook and its repetitions never credit one
\* top-up twice, wherever each of them is cut off.
\* (bug C5, the comment on reserveTopUpLedger)
CreditedOnce == \A t \in Topups : moved[t] \in {0, Paid[t]}

\* While the gateway holds or has sent a refund, its amount is out of the
\* wallet: no error path, interruption or late webhook leaves the guest with the
\* money in both places.  (phases A and B of RefundTopUpToSource)
RefundIsDebited ==
    \A r \in Refunds : gateway[r] \in {"pending", "processed"} => moved[r] = -Asked[r]

\* The guest never has more than was paid in, in the wallet, in bookings and on
\* the card together, if the gateway's answers arrive and refund webhooks are
\* handled one after the other and to their end.
NoMoneyCreated ==
    wallet + spent + SumFunctionOnSet(Asked, {r \in Refunds : gateway[r] \in {"pending", "processed"}})
        <= SumFunctionOnSet(Paid, captured)

\* The credit of a top-up whose reservation was written by a handler that was
\* then cut off: the ledger says it was made, and nobody will make it.
Orphaned(t) ==
    /\ <<"topup", t>> \in journal
    /\ moved[t] = 0
    /\ \A h \in Handlers : ~(At(h, "crediting") /\ proc[h].of = t)

\* What the guest paid reaches the wallet though the browser never comes back;
\* the one way to lose it is a handler cut off between reserving and crediting.
\* ("It ensures the wallet is credited even if the client-side verify call was
\* missed", user_service.go:589)
PaidIsCredited ==
    \A t \in Topups : (t \in captured) ~> (moved[t] = Paid[t] \/ Orphaned(t))

------------------------------------------------------------------------------
(* What the documentation says and the code does not do.                   *)

\* user_service.go:843: "a deterministic idempotency key so a retry can't
\* double-credit": a refund that failed is given back once.
ReturnedOnce == \A r \in Refunds : moved[r] <= 0

==============================================================================
