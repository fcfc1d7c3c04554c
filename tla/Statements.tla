------------------------------- MODULE Statements -------------------------------
(***************************************************************************)
(* What the platform shows of its bookings and its money: the              *)
(* administrators' directory, dashboard, payments tab and reconciliation   *)
(* (internal/repository/admin_directory_repository.go, transaction_ledger_ *)
(* repository.go), and a host's pages (internal/service/payout_service.go, *)
(* host_service.go), each a query of its own over the same rows.           *)
(*                                                                         *)
(* Bookings and passes change by transactions, one step each, which        *)
(* Booking and Passes take apart.  No transaction spans a withdrawal or    *)
(* its webhooks: each of their statements is a step, which pages are read  *)
(* between.  A page of several statements is itself read in several steps. *)
(***************************************************************************)
EXTENDS Money, FiniteSetsExt

CONSTANTS
    Sales,       \* bookings, numbered in the order they are made: 1..n
    Coverage,    \* passes that may be sold
    Payers,      \* the guests
    HostsOf,     \* the host each booking's or pass's event belongs to
    PayerOf,     \* the guest who makes it
    ChargeOf,    \* its amount, fee and net
    Payouts,     \* withdrawals hosts may ask for
    PayeeOf,     \* the host of each
    PayoutCents, \* its amount
    TopUps,      \* what every guest's wallet was topped up with
    MaxReviews,  \* bound: the reviews of one host's events
    PageSize, HighValue, Regular

Purchases == Sales \cup Coverage
HostSet   == {HostsOf[b] : b \in Purchases}
Platform  == "platform"
Accounts  == Payers \cup HostSet \cup {Platform}

\* Whose a purchase is; a charge is split to the cent, and there is one
\* account for each guest, each host and the platform.
ASSUME StatementsAssumption ==
    /\ \A S \in {Sales, Coverage, Payers, Payouts} : IsFiniteSet(S)
    /\ Sales = 1..Cardinality(Sales) /\ Sales \cap Coverage = {}
    /\ Payers \cap HostSet = {} /\ Platform \notin Payers \cup HostSet
    /\ \A b \in Purchases :
          LET c == ChargeOf[b] IN
          /\ {c.amount, c.fee, c.net} \subseteq Nat /\ c.amount = c.fee + c.net
          /\ PayerOf[b] \in Payers
    /\ \A w \in Payouts : PayeeOf[w] \in HostSet /\ PayoutCents[w] \in Nat
    /\ TopUps \in Nat /\ MaxReviews \in Nat
    /\ {PageSize, HighValue, Regular} \subseteq Nat \ {0}

VARIABLES
    sold,      \* bookings.status: "none", "confirmed", "cancelled", "refunded"
    past,      \* bookings whose occurrence is over
    passStatus,\* user_passes.status: "none", "active", "cancelled"
    reviewed,  \* how many reviews each host's events have
    payoutRow, \* payments.status of each withdrawal
    entries,   \* its lines in transaction_ledger
    withdrawal,   \* where RequestWithdrawal is with it
    readPassed,\* the passed earnings that request has read
    provider,  \* the transfer at the provider
    marking,   \* webhooks that have credited it and not yet set its status
    heard,     \* the provider's final answers, in the order they were written
    cut,       \* withdrawals of which a handler was cut off, or a write failed
    stored,    \* accounts.balance_cents of the guests
    ledger,    \* transaction_ledger, summed per account
    aggregate, \* host_earnings.total_earnings_cents
    reader     \* the page that is being read

wallets == <<stored, aggregate>>
sales   == <<sold, past, passStatus, reviewed>>
payouts == <<payoutRow, entries, withdrawal, readPassed, provider, marking, heard, cut>>
rows    == <<sales, payouts, wallets, ledger>>
stVars  == <<rows, reader>>

With(status) == {b \in Sales : sold[b] = status}
Made         == Sales \ With("none")
Confirmed    == With("confirmed")
ActivePasses == {p \in Coverage : passStatus[p] = "active"}
Live         == Confirmed \cup ActivePasses

OfHost(S, h)  == {b \in S : HostsOf[b] = h}
OfPayer(S, g) == {b \in S : PayerOf[b] = g}

AmountOf  == [b \in Purchases |-> ChargeOf[b].amount]
FeeOf     == [b \in Purchases |-> ChargeOf[b].fee]
NetOf     == [b \in Purchases |-> ChargeOf[b].net]
Amount(S) == SumFunctionOnSet(AmountOf, S)
Fee(S)    == SumFunctionOnSet(FeeOf, S)
Net(S)    == SumFunctionOnSet(NetOf, S)
Paid(S)   == SumFunctionOnSet(PayoutCents, S)

------------------------------------------------------------------------------
(* A host's pages.                                                         *)

\* GetHostEarningsBreakdown: confirmed bookings, over and to come.
Breakdown(h) ==
    [total    |-> Net(OfHost(Confirmed, h)),
     passed   |-> Net(OfHost(Confirmed, h) \cap past),
     upcoming |-> Net(OfHost(Confirmed, h) \ past)]

Counted == {"pending", "processing", "completed"}
InTransit(h) == Paid({w \in Payouts : PayeeOf[w] = h /\ payoutRow[w] \in Counted})

\* GetEarningsSummary, from its two reads.
EarningsOf(breakdown, inFlight) ==
    [total     |-> breakdown.total,
     pending   |-> breakdown.upcoming,
     current   |-> Max({0, breakdown.total - inFlight}),
     available |-> Max({0, breakdown.passed - inFlight})]

\* GetDashboardOverview: the same earnings, beside the events' counters of
\* bookings, which Booking models.
Overview(h) == [earned |-> Breakdown(h).total]

\* GetAttentionItems: the bookings that are "cancelled", which are those that
\* had cost nothing, and as reviews to come the confirmed ones less the reviews
\* there are, whoever wrote them.
Attention(h) ==
    [cancelled |-> Min({10, Cardinality(OfHost(With("cancelled"), h))}),
     reviews   |-> Max({0, Cardinality(OfHost(Confirmed, h)) - reviewed[h]})]

\* GetEarningsBreakdown, the older page: the aggregate, the stored balance,
\* which no booking touches, and the bookings that are not given up.
OldBreakdown(h) ==
    [total |-> aggregate[h], available |-> 0, net |-> Net(OfHost(Confirmed, h))]

------------------------------------------------------------------------------
(* The administrators' pages.                                              *)

UserRow(g) == [bookings |-> Cardinality(OfPayer(Confirmed, g)),
               spent    |-> Amount(OfPayer(Confirmed, g))]

InTier(row, tier) ==
    CASE tier = "high_value" -> row.spent >= HighValue
      [] tier = "repeat"     -> row.bookings >= Regular
      [] tier = "new"        -> row.bookings <= Regular - 2
      [] OTHER               -> TRUE

ListUsers(tier) == {g \in Payers : InTier(UserRow(g), tier)}

\* ListHosts and GetHostAggregates.
\* Fault: the join counts bookings that were given up.
AggregatesOfAll(h) == [bookings |-> Cardinality(OfHost(Made, h)),
                       revenue  |-> Net(OfHost(Made, h))]
Aggregates(h)      == [bookings |-> Cardinality(OfHost(Confirmed, h)),
                       revenue  |-> Net(OfHost(Confirmed, h))]

\* GetDashboardStats.
Headline == [bookings |-> Cardinality(Made),
             refunds  |-> Cardinality(With("cancelled") \cup With("refunded")),
             revenue  |-> Amount(Confirmed),
             income   |-> Fee(Confirmed)]
Revenue == [h \in HostSet |-> Net(OfHost(Confirmed, h))]
TopHosts == {h \in HostSet : /\ OfHost(Confirmed, h) # {}
                             /\ Cardinality({k \in HostSet : Revenue[k] > Revenue[h]}) < 5}

\* A payment is a booking's, a pass's, a withdrawal's, a top-up's, or the
\* refund that goes with a reversed one.
Payments ==
    {[type |-> "booking", status |-> "completed", of |-> b] : b \in Live}
      \cup {[type |-> "booking", status |-> "reversed", of |-> b] :
                b \in (Made \ Confirmed) \cup {p \in Coverage : passStatus[p] = "cancelled"}}
      \cup {[type |-> "refund", status |-> "completed", of |-> b] :
                b \in {b \in With("refunded") \cup {p \in Coverage : passStatus[p] = "cancelled"} :
                          ChargeOf[b].amount > 0}}
      \cup {[type |-> "payout", status |-> payoutRow[w], of |-> w] :
                w \in {w \in Payouts : payoutRow[w] # "none"}}

ListPayments(type, status) ==
    {p \in Payments : type \in {"", p.type} /\ status \in {"", p.status}}

\* ListAccountBalances: hosts' and the platform's balances are never touched.
Balance(a) == IF a \in Payers THEN stored[a] ELSE 0
Drift(a)   == Balance(a) - ledger[a]

\* GetPaymentsSummary.
CentsOf == [p \in Payments |->
                IF p.type = "payout" THEN PayoutCents[p.of] ELSE AmountOf[p.of]]
CompletedCents(type) == SumFunctionOnSet(CentsOf, ListPayments(type, "completed"))
Summary == [topups   |-> TopUps * Cardinality(Payers),
            payouts  |-> CompletedCents("payout"),
            refunds  |-> CompletedCents("refund"),
            volume   |-> CompletedCents("booking"),
            platform |-> Balance(Platform),
            failed   |-> Cardinality(ListPayments("", "failed")),
            drifting |-> Cardinality({a \in Accounts : Drift(a) # 0})]

\* RunReconciliation, the two sums of an account taken at the same time.
Discrepancies == {a \in Accounts : Balance(a) # ledger[a]}
Verdict == IF Discrepancies = {} THEN "success"
           ELSE IF Cardinality(Discrepancies) <= Cardinality(Accounts) \div 100
           THEN "warning" ELSE "critical"

------------------------------------------------------------------------------
(* Pages of several statements.                                            *)

Nothing == [page |-> "none", pc |-> "none"]

\* fell: the passed earnings fell since the first read.
OpenEarnings(h) ==
    /\ reader = Nothing
    /\ reader' = [page |-> "earnings", pc |-> "half", host |-> h, fell |-> FALSE,
                  breakdown |-> Breakdown(h)]
    /\ UNCHANGED rows

\* granted: what a withdrawal of the same moment could take.
ShowEarnings ==
    LET h == reader.host IN
    /\ reader.pc = "half"
    /\ reader' = [page |-> "earnings", pc |-> "done", fell |-> reader.fell,
                  shown   |-> EarningsOf(reader.breakdown, InTransit(h)),
                  granted |-> EarningsOf(Breakdown(h), InTransit(h)).available]
    /\ UNCHANGED rows

\* A list of bookings, newest first: a filter's matches, and one page of them.
Matching(filter) == IF filter = "" THEN Made ELSE With(filter)

\* Fault: pages are counted from 0.
OffsetFromZero(page) == page * PageSize
Offset(page)         == (page - 1) * PageSize

PageOf(S, page) ==
    {b \in S : Cardinality({c \in S : c > b}) \in Offset(page) .. Offset(page) + PageSize - 1}

\* Each page is two statements: how many there are, and the page's rows.
\* left: matches that ceased to match; late: new ones since the last count.
OpenList(filter) ==
    /\ reader = Nothing
    /\ reader' = [page |-> "bookings", pc |-> "rows", filter |-> filter, number |-> 1,
                  total |-> Cardinality(Matching(filter)), start |-> Matching(filter),
                  seen |-> {}, left |-> {}, late |-> {}]
    /\ UNCHANGED rows

\* Pages are turned until they have covered the total of the last answer.
ReadPage ==
    /\ reader.pc = "rows"
    /\ reader' = [reader EXCEPT
          !.seen = @ \cup PageOf(Matching(reader.filter), reader.number),
          !.pc   = IF reader.number * PageSize >= reader.total THEN "done" ELSE "count"]
    /\ UNCHANGED rows

TurnPage ==
    /\ reader.pc = "count"
    /\ reader' = [reader EXCEPT !.pc = "rows", !.number = @ + 1, !.late = {},
                                !.total = Cardinality(Matching(reader.filter))]
    /\ UNCHANGED rows

ClosePage ==
    /\ reader.pc = "done"
    /\ reader' = Nothing
    /\ UNCHANGED rows

\* What a write does to a page that is half read.
Watched ==
    \/ reader.pc \in {"none", "done"} /\ UNCHANGED reader
    \/ /\ reader.pc = "half"
       /\ \E h \in {reader.host} :
            reader' = [reader EXCEPT !.fell = @ \/ Breakdown(h).passed' < Breakdown(h).passed]
    \/ /\ reader.pc \in {"rows", "count"}
       /\ \E f \in {reader.filter} :
            reader' = [reader EXCEPT
              !.left = @ \cup (Matching(f) \ Matching(f)'),
              !.late = IF reader.pc = "rows" THEN @ \cup (Matching(f)' \ Matching(f)) ELSE @]

------------------------------------------------------------------------------
(* The rows.                                                               *)

StatementsInit ==
    /\ sold = [b \in Sales |-> "none"]
    /\ past = {}
    /\ passStatus = [p \in Coverage |-> "none"]
    /\ reviewed = [h \in HostSet |-> 0]
    /\ payoutRow = [w \in Payouts |-> "none"]
    /\ entries = [w \in Payouts |-> {}]
    /\ withdrawal = [w \in Payouts |-> "new"]
    /\ readPassed = [w \in Payouts |-> 0]
    /\ provider = [w \in Payouts |-> "none"]
    /\ marking = [w \in Payouts |-> {}]
    /\ heard = [w \in Payouts |-> "nothing"]
    /\ cut = {}
    /\ stored = [g \in Payers |-> TopUps]
    /\ ledger = [a \in Accounts |-> IF a \in Payers THEN TopUps ELSE 0]
    /\ aggregate = [h \in HostSet |-> 0]
    /\ reader = Nothing

\* A purchase's money, or with sign -1 its refund.
Move(b, sign) ==
    LET c == ChargeOf[b]  g == PayerOf[b]  h == HostsOf[b] IN
    /\ stored' = [stored EXCEPT ![g] = @ - sign * c.amount]
    /\ ledger' = [ledger EXCEPT ![g] = @ - sign * c.amount, ![h] = @ + sign * c.net,
                                ![Platform] = @ + sign * c.fee]
    /\ aggregate' = [aggregate EXCEPT ![h] = Max({0, @ + sign * c.net})]

Book(b) ==
    /\ sold[b] = "none" /\ \A c \in Sales : c < b => sold[c] # "none"
    /\ stored[PayerOf[b]] >= ChargeOf[b].amount
    /\ sold' = [sold EXCEPT ![b] = "confirmed"]
    /\ Move(b, 1)
    /\ UNCHANGED <<past, passStatus, reviewed, payouts>>

Cancel(b) ==
    /\ sold[b] = "confirmed"
    /\ sold' = [sold EXCEPT ![b] = IF ChargeOf[b].amount > 0 THEN "refunded" ELSE "cancelled"]
    /\ Move(b, -1)
    /\ UNCHANGED <<past, passStatus, reviewed, payouts>>

TakePlace(b) ==
    /\ b \in Made \ past
    /\ past' = past \cup {b}
    /\ UNCHANGED <<sold, passStatus, reviewed, payouts, wallets, ledger>>

SellPass(p) ==
    /\ passStatus[p] = "none"
    /\ stored[PayerOf[p]] >= ChargeOf[p].amount
    /\ passStatus' = [passStatus EXCEPT ![p] = "active"]
    /\ Move(p, 1)
    /\ UNCHANGED <<sold, past, reviewed, payouts>>

RefundPass(p) ==
    /\ passStatus[p] = "active"
    /\ passStatus' = [passStatus EXCEPT ![p] = "cancelled"]
    /\ Move(p, -1)
    /\ UNCHANGED <<sold, past, reviewed, payouts>>

\* A review asks for no booking.
WriteReview(h) ==
    /\ reviewed[h] < MaxReviews
    /\ reviewed' = [reviewed EXCEPT ![h] = @ + 1]
    /\ UNCHANGED <<sold, past, passStatus, payouts, wallets, ledger>>

------------------------------------------------------------------------------
(* A withdrawal and its webhooks, statement by statement.  Of the requests *)
(* for one key only one writes the debit, so one is followed; it may begin *)
(* again until then.                                                       *)

Proceeds(w, from, to) == withdrawal[w] = from /\ withdrawal' = [withdrawal EXCEPT ![w] = to]

\* A ledger key is used once: the debit, or one of its three reversals.
Enter(line, w) ==
    /\ line \notin entries[w]
    /\ entries' = [entries EXCEPT ![w] = @ \cup {line}]
    /\ ledger' = [ledger EXCEPT ![PayeeOf[w]] =
                     IF line = "debit" THEN @ - PayoutCents[w] ELSE @ + PayoutCents[w]]

\* The answers that came in an order the provider gave them, each acted on once
\* (a "completed" may be repeated); anything else is "more".
Hear(was, answer) ==
    IF was = "nothing" \/ (was = "completed" /\ answer # "failed") THEN answer ELSE "more"

SetStatus(w, answer) ==
    /\ payoutRow' = [payoutRow EXCEPT ![w] = answer]
    /\ heard' = [heard EXCEPT ![w] = Hear(@, answer)]

AskPayout(w) ==
    /\ Proceeds(w, "new", "checking")
    /\ readPassed' = [readPassed EXCEPT ![w] = Breakdown(PayeeOf[w]).passed]
    /\ UNCHANGED <<sales, wallets, ledger, payoutRow, entries, provider, marking, heard, cut>>

CheckPayout(w) ==
    /\ Proceeds(w, "checking", "debiting")
    /\ PayoutCents[w] <= readPassed[w] - InTransit(PayeeOf[w])
    /\ UNCHANGED <<sales, wallets, ledger, payoutRow, entries, readPassed, provider, marking,
                   heard, cut>>

\* A check that fails, or an end before anything is written.
GiveUpPayout(w) ==
    /\ \E from \in {"checking", "debiting"} : Proceeds(w, from, "new")
    /\ readPassed' = [readPassed EXCEPT ![w] = 0]
    /\ UNCHANGED <<sales, wallets, ledger, payoutRow, entries, provider, marking, heard, cut>>

DebitPayout(w) ==
    /\ Proceeds(w, "debiting", "opening")
    /\ Enter("debit", w)
    /\ readPassed' = [readPassed EXCEPT ![w] = 0]
    /\ UNCHANGED <<sales, wallets, payoutRow, provider, marking, heard, cut>>

\* The payment's row, or its error path.
OpenPayout(w) ==
    /\ \/ Proceeds(w, "opening", "starting")
          /\ payoutRow' = [payoutRow EXCEPT ![w] = "pending"]
       \/ Proceeds(w, "opening", "reversing") /\ UNCHANGED payoutRow
    /\ UNCHANGED <<sales, wallets, ledger, entries, readPassed, provider, marking, heard, cut>>

\* The error of this write is ignored.
StartPayout(w) ==
    /\ Proceeds(w, "starting", "sending")
    /\ \/ payoutRow' = [payoutRow EXCEPT ![w] = "processing"]
       \/ UNCHANGED payoutRow
    /\ UNCHANGED <<sales, wallets, ledger, entries, readPassed, provider, marking, heard, cut>>

\* What each way for InitiateTransfer to end leaves at the provider, and what the
\* request does next.
LeftBehind(reply) == CASE reply \in {"accepted", "lost"} -> "inflight"
                 [] reply = "paid"                 -> "completed"
                 [] reply = "declined"             -> "failed"
                 [] OTHER                          -> "none"
AfterReply(reply) == CASE reply = "accepted" -> "over"
                  [] reply = "paid"     -> "completing"
                  [] OTHER              -> "failing"

SendPayout(w) ==
    /\ \E reply \in {"accepted", "paid", "declined", "refused", "lost"} :
          /\ Proceeds(w, "sending", AfterReply(reply))
          /\ provider' = [provider EXCEPT ![w] = LeftBehind(reply)]
    /\ UNCHANGED <<sales, wallets, ledger, payoutRow, entries, readPassed, marking, heard, cut>>

CompletePayout(w) ==
    /\ Proceeds(w, "completing", "over")
    /\ SetStatus(w, "completed")
    /\ UNCHANGED <<sales, wallets, ledger, entries, readPassed, provider, marking, cut>>

\* The status and then the reversal; the error of the first is ignored.
FailPayout(w) ==
    /\ Proceeds(w, "failing", "reversing")
    /\ \/ SetStatus(w, "failed") /\ UNCHANGED cut
       \/ cut' = cut \cup {w} /\ UNCHANGED <<payoutRow, heard>>
    /\ UNCHANGED <<sales, wallets, ledger, entries, readPassed, provider, marking>>

ReversePayout(w) ==
    /\ Proceeds(w, "reversing", "over")
    /\ Enter("start", w)
    /\ UNCHANGED <<sales, wallets, payoutRow, readPassed, provider, marking, heard, cut>>

\* The request is cut off, or a write on its error path fails.
CutOffPayout(w) ==
    /\ withdrawal[w] \notin {"new", "checking", "debiting", "over"}
    /\ withdrawal' = [withdrawal EXCEPT ![w] = "over"]
    /\ cut' = cut \cup {w}
    /\ UNCHANGED <<sales, wallets, ledger, payoutRow, entries, readPassed, provider, marking, heard>>

ProviderSettles(w) ==
    /\ \/ provider[w] = "inflight" /\ provider' = [provider EXCEPT ![w] = "completed"]
       \/ provider[w] = "inflight" /\ provider' = [provider EXCEPT ![w] = "failed"]
       \/ provider[w] = "completed" /\ provider' = [provider EXCEPT ![w] = "reversed"]
    /\ UNCHANGED <<sales, wallets, ledger, payoutRow, entries, withdrawal, readPassed, marking,
                   heard, cut>>

\* Webhooks come once or many times, late or never.
HearCompleted(w) ==
    /\ provider[w] \in {"completed", "reversed"}
    /\ SetStatus(w, "completed")
    /\ UNCHANGED <<sales, wallets, ledger, entries, withdrawal, readPassed, provider, marking, cut>>

\* A failure or a reversal is credited first, under a key of its own.
CreditPayout(w) ==
    /\ \E answer \in {"failed", "reversed"} \cap {provider[w]} :
          /\ Enter(answer, w)
          /\ marking' = [marking EXCEPT ![w] = @ \cup {answer}]
    /\ UNCHANGED <<sales, wallets, payoutRow, withdrawal, readPassed, provider, heard, cut>>

\* Then the status, unless the webhook is cut off.
MarkPayout(w) ==
    /\ \E answer \in marking[w] :
          /\ marking' = [marking EXCEPT ![w] = @ \ {answer}]
          /\ \/ SetStatus(w, answer) /\ UNCHANGED cut
             \/ cut' = cut \cup {w} /\ UNCHANGED <<payoutRow, heard>>
    /\ UNCHANGED <<sales, wallets, ledger, entries, withdrawal, readPassed, provider>>

SaleWrites ==
    \/ \E b \in Sales : Book(b) \/ Cancel(b) \/ TakePlace(b)
    \/ \E p \in Coverage : SellPass(p) \/ RefundPass(p)

PayoutWrites ==
    \E w \in Payouts :
        \/ AskPayout(w) \/ CheckPayout(w) \/ GiveUpPayout(w) \/ DebitPayout(w)
        \/ OpenPayout(w) \/ StartPayout(w) \/ SendPayout(w) \/ CompletePayout(w)
        \/ FailPayout(w) \/ ReversePayout(w) \/ CutOffPayout(w)
        \/ ProviderSettles(w) \/ HearCompleted(w) \/ CreditPayout(w) \/ MarkPayout(w)

Writes == SaleWrites \/ PayoutWrites \/ \E h \in HostSet : WriteReview(h)

EarningsReads == ShowEarnings \/ \E h \in HostSet : OpenEarnings(h)
ListReads     == \/ ReadPage \/ TurnPage
                 \/ \E f \in {"", "confirmed", "refunded"} : OpenList(f)

StatementsNext == (Writes /\ Watched) \/ EarningsReads \/ ListReads \/ ClosePage

StatementsSpec == StatementsInit /\ [][StatementsNext]_stVars

------------------------------------------------------------------------------
(* Properties.                                                             *)

\* No handler is halfway with a withdrawal, none was cut off or had a write fail,
\* and the provider's answers were written in an order it gave them.
Quiet(w) ==
    /\ withdrawal[w] \in {"new", "checking", "debiting", "over"}
    /\ marking[w] = {}
    /\ w \notin cut
    /\ heard[w] # "more"

\* Once something was sold, the pages, written query by query, agree: a host's
\* earnings are the same on the host's three pages, in the directory and on the
\* leaderboard, which has whoever has a booking while its five places suffice;
\* what guests spent is the headline's revenue, and less the platform's income
\* it is the hosts' revenue; the payments tab's volume and the older page's
\* total add to these exactly the passes, which the others leave out, and the
\* top-ups less that volume are the guests' balances; an account that
\* reconciliation accuses is never a guest's, and a host's is off by what it earned
\* and the earnings page does not show as paid, once its withdrawals are quiet;
\* what a host is told was cancelled, ten at most, had cost nothing; and no more
\* reviews are awaited than the directory shows bookings.
PagesAgree ==
    LET summary == Summary  headline == Headline IN
    Made \cup {p \in Coverage : passStatus[p] # "none"} # {} =>
        /\ \A h \in HostSet :
              LET total == Breakdown(h).total
                  passes == Net(OfHost(ActivePasses, h))
              IN
              /\ {Overview(h).earned, Aggregates(h).revenue, Revenue[h], OldBreakdown(h).net} = {total}
              /\ OldBreakdown(h).total = total + passes
              /\ (\A w \in Payouts : PayeeOf[w] = h => Quiet(w))
                    => -Drift(h) = total + passes - InTransit(h)
              /\ Cardinality(HostSet) <= 5 => (h \in TopHosts <=> Aggregates(h).bookings > 0)
              /\ Attention(h).reviews \in 0 .. Aggregates(h).bookings
              /\ Attention(h).cancelled =
                    Min({10, Cardinality({b \in OfHost(Made \ Confirmed, h) : ChargeOf[b].amount = 0})})
        /\ headline.revenue = SumFunctionOnSet([g \in Payers |-> UserRow(g).spent], ListUsers(""))
        /\ headline.revenue - headline.income = SumFunctionOnSet(Revenue, HostSet)
        /\ summary.volume = headline.revenue + Amount(ActivePasses)
        /\ summary.topups - summary.volume = SumFunctionOnSet(stored, Payers)
        /\ Discrepancies \cap Payers = {}
        /\ Verdict = "success" <=> summary.drifting = 0

\* The earnings page offers more than a withdrawal would be granted only if a
\* booking whose date is over was cancelled while the page was read.
OffersOnlyWhatIsThere ==
    reader.page = "earnings" /\ reader.pc = "done" =>
        reader.shown.available <= reader.granted \/ reader.fell

\* Someone who turns all the pages of a list misses, of the bookings that
\* matched when it was opened and still do, at most one for each that ceased to
\* match meanwhile or came between the last count and its page; and none for
\* each new one that merely pushes the others on.
PagingMissesOnlyLeavers ==
    reader.page = "bookings" /\ reader.pc = "done" =>
        Cardinality((reader.start \ reader.left) \ reader.seen)
            <= Cardinality(reader.left) + Cardinality(reader.late)

\* A page of several statements is wrong only by what was written meanwhile.
PagesTearOnlyByWrites == OffersOnlyWhatIsThere /\ PagingMissesOnlyLeavers

==============================================================================
