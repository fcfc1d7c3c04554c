--------------------------------- MODULE CoHost ---------------------------------
(***************************************************************************)
(* One event shared with other hosts: their invitations, the permission to *)
(* withdraw, and the claims that share its earnings out                    *)
(* (internal/service/cohost.go, internal/repository/cohost_repository.go,  *)
(* the co-host half of internal/service/payout_service.go).                *)
(*                                                                         *)
(* A claim is reserved before the owner's balance pays it and follows the  *)
(* payment that pays it.  The payment's own life, its ledger lines and the *)
(* provider's failures are Payout's; here a withdrawal writes its payment  *)
(* in one step and the provider answers in one.  No booking whose session  *)
(* is over is cancelled here.                                              *)
(***************************************************************************)
EXTENDS Integers, FiniteSetsExt

CONSTANTS
    CoHosts,       \* hosts the event is shared with, each invited once
    Requests,      \* withdrawals the co-hosts send
    Sender,        \* who sends each
    KeyOf,         \* its idempotency key; a retry has the key of the first
    Asked,         \* its amount; 0 asks for whatever is left
    Earnings,      \* what a session that is over adds to the event's pool
    OtherEarnings, \* what the owner has earned elsewhere
    Replies,       \* ways for the provider's call to end
    MaxPassed,     \* bound: the pool
    MaxInFlight    \* withdrawals the server works on at the same time

Keys == {KeyOf[r] : r \in Requests}

ASSUME CoHostAssumption ==
    /\ IsFiniteSet(Requests)
    /\ Sender \in [Requests -> CoHosts]
    /\ DOMAIN KeyOf = Requests
    /\ Asked \in [Requests -> Nat]
    /\ Earnings \subseteq Nat
    /\ Replies \subseteq {"accepted", "paid", "declined", "lost"}
    /\ OtherEarnings \in Nat /\ MaxPassed \in Nat
    /\ MaxInFlight \in Nat \ {0}

VARIABLES
    share,       \* event_co_hosts.status; "none" before the invitation
    canWithdraw, \* event_co_hosts.can_withdraw
    answering,   \* answers whose invitation was read as pending
    passed,      \* the event's pool: net earnings of the sessions that are over
    claim,       \* event_cohost_claims.status of each request's claim
    amount,      \* event_cohost_claims.amount_cents
    linked,      \* claims whose payment_id is set
    payment,     \* payments.status, by idempotency key
    cents,       \* payments.amount_cents
    bank,        \* the transfer at the provider
    unanswered,  \* transfers whose reply was lost
    ownDrawn,    \* what the owner has withdrawn
    credited,    \* failures and reversals already credited: their ledger key
    returned,    \* the payment's status a request goes on with
    pc           \* where each request is

coShares   == <<share, canWithdraw, answering>>
coClaims   == <<claim, amount, linked>>
coPayments == <<payment, cents, bank, unanswered, credited, ownDrawn>>
coVars     == <<coShares, passed, coClaims, coPayments, returned, pc>>

Verdicts == {"completed", "failed", "reversed"}

\* EventClaimedCents, and the payments the owner's balance is net of.
Standing == {r \in Requests : claim[r] \in {"reserved", "completed"}}
Claimed  == SumFunctionOnSet(amount, Standing)
Active   == ownDrawn +
    SumFunctionOnSet(cents,
                     {k \in Keys : payment[k] \in {"processing", "completed"}})

CoHostInit ==
    /\ share = [c \in CoHosts |-> "none"]
    /\ canWithdraw = [c \in CoHosts |-> FALSE] /\ answering = {}
    /\ passed = 0
    /\ claim = [r \in Requests |-> "none"]
    /\ amount = [r \in Requests |-> 0] /\ linked = {}
    /\ payment = [k \in Keys |-> "none"] /\ cents = [k \in Keys |-> 0]
    /\ bank = [k \in Keys |-> "none"]
    /\ unanswered = {} /\ ownDrawn = 0
    /\ credited = {}
    /\ returned = [r \in Requests |-> "none"]
    /\ pc = [r \in Requests |-> "new"]

------------------------------------------------------------------------------
(* The invitation.                                                         *)

InviteCoHost(c, may) ==
    /\ share[c] = "none"
    /\ share' = [share EXCEPT ![c] = "pending"]
    /\ canWithdraw' = [canWithdraw EXCEPT ![c] = may]
    /\ UNCHANGED <<answering, passed, coClaims, coPayments, returned, pc>>

\* RespondToCoHostInvite reads a pending invitation and then sets its status,
\* whatever it has become.
ReadInvite(c) ==
    /\ share[c] = "pending"
    /\ answering' = answering \cup {c}
    /\ UNCHANGED <<share, canWithdraw, passed, coClaims, coPayments, returned, pc>>

RespondToCoHostInvite(c, accept) ==
    /\ c \in answering
    /\ answering' = answering \ {c}
    /\ share' = [share EXCEPT ![c] = IF accept THEN "accepted" ELSE "declined"]
    /\ UNCHANGED <<canWithdraw, passed, coClaims, coPayments, returned, pc>>

SetCoHostCanWithdraw(c) ==
    /\ share[c] # "none"
    /\ canWithdraw' = [canWithdraw EXCEPT ![c] = ~@]
    /\ UNCHANGED <<share, answering, passed, coClaims, coPayments, returned, pc>>

RevokeCoHost(c) ==
    /\ share[c] # "none"
    /\ share' = [share EXCEPT ![c] = "revoked"]
    /\ UNCHANGED <<canWithdraw, answering, passed, coClaims, coPayments, returned, pc>>

Authorized(c) == share[c] = "accepted" /\ canWithdraw[c]

------------------------------------------------------------------------------
(* RequestCoHostWithdrawal.                                                *)

Goes(r, from, to) == pc[r] = from /\ pc' = [pc EXCEPT ![r] = to]
InFlight == {r \in Requests : pc[r] \notin {"new", "done"}}

RequestCoHostWithdrawal(r) ==
    LET sum == IF Asked[r] = 0 THEN passed - Claimed ELSE Asked[r] IN
    /\ Goes(r, "new", "claiming")
    /\ Cardinality(InFlight) < MaxInFlight
    /\ Authorized(Sender[r])
    /\ sum > 0
    /\ amount' = [amount EXCEPT ![r] = sum]
    /\ UNCHANGED <<coShares, passed, claim, linked, coPayments, returned>>

\* ReserveClaim is one statement, but it decides on what was committed when it
\* started, and other claims may be committed before it is.
EventCovers(r) == amount[r] <= passed - Claimed

ReserveClaim(r) ==
    /\ Goes(r, "claiming", "inserting")
    /\ EventCovers(r)
    /\ UNCHANGED <<coShares, passed, coClaims, coPayments, returned>>

CommitClaim(r) ==
    /\ Goes(r, "inserting", "requested")
    /\ claim' = [claim EXCEPT ![r] = "reserved"]
    /\ UNCHANGED <<coShares, passed, amount, linked, coPayments, returned>>

\* RequestWithdrawal, on the owner's behalf: a key that has its payment is
\* answered with it, unseen ...
Replay(r) ==
    /\ payment[KeyOf[r]] # "none"
    /\ Goes(r, "requested", "linking")
    /\ returned' = [returned EXCEPT ![r] = payment[KeyOf[r]]]
    /\ UNCHANGED <<coShares, passed, coClaims, coPayments>>

\* ... or else the owner's balance, the event's pool and the co-host's rights
\* are looked at (steps 3b to 4), and the payment is written under its unique
\* key (steps 6 and 7).
Affordable(r) ==
    /\ amount[r] <= passed + OtherEarnings - Active
    /\ amount[r] <= passed
    /\ Authorized(Sender[r])

OpenPayment(r) ==
    LET k == KeyOf[r] IN
    /\ Goes(r, "requested", "sending")
    /\ payment[k] = "none"
    /\ Affordable(r)
    /\ payment' = [payment EXCEPT ![k] = "processing"]
    /\ cents' = [cents EXCEPT ![k] = amount[r]]
    /\ UNCHANGED <<coShares, passed, coClaims, bank, unanswered, credited, ownDrawn, returned>>

\* Any check or write in between may fail instead.
Refuse(r) ==
    /\ Goes(r, "requested", "releasing")
    /\ UNCHANGED <<coShares, passed, coClaims, coPayments, returned>>

\* The provider's answer (steps 8 and 9).  A lost one is taken for a refusal.
BankAfter(reply) ==
    CASE reply = "paid"     -> "completed"
      [] reply = "declined" -> "failed"
      [] OTHER              -> "inflight"
PaymentAfter(reply) ==
    CASE reply = "paid"     -> "completed"
      [] reply = "accepted" -> "processing"
      [] OTHER              -> "failed"

Transfer(r, reply) ==
    LET k == KeyOf[r] IN
    /\ Goes(r, "sending", "linking")
    /\ bank' = [bank EXCEPT ![k] = BankAfter(reply)]
    /\ payment' = [payment EXCEPT ![k] = PaymentAfter(reply)]
    /\ unanswered' = IF reply = "lost" THEN unanswered \cup {k} ELSE unanswered
    /\ returned' = [returned EXCEPT ![r] = PaymentAfter(reply)]
    /\ UNCHANGED <<coShares, passed, coClaims, cents, credited, ownDrawn>>

AttachPayment(r) ==
    /\ Goes(r, "linking", "closing")
    /\ linked' = linked \cup {r}
    /\ UNCHANGED <<coShares, passed, claim, amount, coPayments, returned>>

\* The claim follows the payment as it was returned, not as it is; one that is still
\* processing is left to the webhook.
\* Fault: whatever is not completed is released.
FollowStrict(was, status) == IF status = "completed" THEN "completed" ELSE "failed"
Follow(was, status) ==
    CASE status = "completed"            -> "completed"
      [] status \in {"failed", "reversed"} -> "failed"
      [] OTHER                           -> was

CloseClaim(r) ==
    /\ Goes(r, "closing", "done")
    /\ claim' = [claim EXCEPT ![r] = Follow(@, returned[r])]
    /\ returned' = [returned EXCEPT ![r] = "none"]
    /\ UNCHANGED <<coShares, passed, amount, linked, coPayments>>

\* An error releases the claim: nothing left the platform.
ReleaseClaim(r) ==
    /\ Goes(r, "releasing", "done")
    /\ claim' = [claim EXCEPT ![r] = "failed"]
    /\ UNCHANGED <<coShares, passed, amount, linked, coPayments, returned>>

\* A request that is refused before its claim, or dies at any point.
Die(r) ==
    /\ r \in InFlight
    /\ pc' = [pc EXCEPT ![r] = "done"]
    /\ returned' = [returned EXCEPT ![r] = "none"]
    /\ UNCHANGED <<coShares, passed, coClaims, coPayments>>

------------------------------------------------------------------------------
(* The webhook.                                                            *)

BankSettles(k) ==
    /\ \/ bank[k] = "inflight" /\ bank' = [bank EXCEPT ![k] = "completed"]
       \/ bank[k] = "inflight" /\ bank' = [bank EXCEPT ![k] = "failed"]
       \/ bank[k] = "completed" /\ bank' = [bank EXCEPT ![k] = "reversed"]
    /\ UNCHANGED <<coShares, passed, coClaims, payment, cents, unanswered, credited,
                   ownDrawn, returned, pc>>

\* What the provider has reason to say, once or many times, early or late.
Announced(k) ==
    IF bank[k] = "reversed" THEN {"completed", "reversed"} ELSE {bank[k]} \cap Verdicts

\* HandlePayoutWebhook: a failure or a reversal is credited once, under a
\* ledger key of its own; then the payment, and after it the claims that are
\* linked to it, unless that last write fails or the process dies first.
HandlePayoutWebhook(k, v) ==
    /\ v \in Announced(k) /\ payment[k] # "none"
    /\ <<k, v>> \notin credited
    /\ credited' = IF v = "completed" THEN credited ELSE credited \cup {<<k, v>>}
    /\ payment' = [payment EXCEPT ![k] = v]
    /\ \/ claim' = [r \in Requests |->
                        IF r \in linked /\ KeyOf[r] = k THEN Follow(claim[r], v) ELSE claim[r]]
       \/ UNCHANGED claim
    /\ UNCHANGED <<coShares, passed, amount, linked, cents, bank, unanswered, ownDrawn,
                   returned, pc>>

------------------------------------------------------------------------------

\* A session is over.
Occur(sum) ==
    /\ passed + sum <= MaxPassed
    /\ passed' = passed + sum
    /\ UNCHANGED <<coShares, coClaims, coPayments, returned, pc>>

\* The owner withdraws what the balance shows; claims do not count there.
OwnerWithdraws ==
    /\ passed + OtherEarnings > Active
    /\ ownDrawn' = ownDrawn + (passed + OtherEarnings - Active)
    /\ UNCHANGED <<coShares, passed, coClaims, payment, cents, bank, unanswered,
                   credited, returned, pc>>

CoHostNext ==
    \/ \E c \in CoHosts :
          \/ \E may \in BOOLEAN : InviteCoHost(c, may)
          \/ ReadInvite(c)
          \/ \E accept \in BOOLEAN : RespondToCoHostInvite(c, accept)
          \/ SetCoHostCanWithdraw(c) \/ RevokeCoHost(c)
    \/ \E r \in Requests :
          \/ RequestCoHostWithdrawal(r) \/ ReserveClaim(r) \/ CommitClaim(r)
          \/ Replay(r) \/ OpenPayment(r) \/ Refuse(r)
          \/ \E reply \in Replies : Transfer(r, reply)
          \/ AttachPayment(r) \/ CloseClaim(r) \/ ReleaseClaim(r) \/ Die(r)
    \/ \E k \in Keys :
          \/ BankSettles(k)
          \/ \E v \in Verdicts : HandlePayoutWebhook(k, v)
    \/ \E sum \in Earnings : Occur(sum)
    \/ OwnerWithdraws

CoHostSpec == CoHostInit /\ [][CoHostNext]_coVars

------------------------------------------------------------------------------
(* Properties.                                                             *)

\* Money that is on its way to a co-host, or has arrived, is held by a claim:
\* "Only 'failed' releases the reservation - so a payout stuck at 'processing'
\* keeps holding its slice" (migrations/20260926120000_add_event_co_hosts.sql).
\* Whatever retries, refusals, deaths and late webhooks do; only a transfer
\* whose reply was lost is outside it, as it is for the owner's own payouts.
PaidWasClaimed ==
    \A k \in Keys : bank[k] \in {"inflight", "completed"} /\ k \notin unanswered
        => \E r \in Standing : KeyOf[r] = k

\* The claims that stand, but for those of transfers that came back or whose reply
\* was lost, which a webhook may restore.
Kept == {r \in Standing : KeyOf[r] \notin unanswered
                          /\ bank[KeyOf[r]] \notin {"failed", "reversed"}}

\* What the claims that stand draw of an event is there to be drawn: "two concurrent
\* withdrawals cannot both pass it" (cohost_repository.go:39), "the second sees the
\* first's row" (297).  A statement sees what was committed when it began, so the
\* second does not, and this is violated when two withdrawals overlap.
ClaimsExclusive == SumFunctionOnSet(amount, Kept) <= passed

==============================================================================
