-------------------------------- MODULE Treasury --------------------------------
(***************************************************************************)
(* The payout methods of the platform and of its hosts, the beneficiaries  *)
(* they stand for at Cashfree, and the platform's own withdrawals          *)
(* (internal/service/payout_service.go, internal/repository/               *)
(* payout_repository.go, internal/lib/payout/cashfree_provider.go).        *)
(*                                                                         *)
(* A handler looks a method up in one step and changes it in a later one.  *)
(***************************************************************************)
EXTENDS Integers, FiniteSets

CONSTANTS
    Methods,       \* payout methods that may be added
    Holder,        \* the host whose each is; NoHost: the platform's
    NoHost,
    Editors,       \* requests for methods served at the same time
    Withdrawals,   \* requests of the administrators
    LedgerKey,     \* the idempotency key each came with
    Blank,         \* the key of a request that brings none
    Sum,           \* the amount of each
    Answers,       \* ways for the provider's call to end
    Collected,     \* the platform's balance at the start
    Nobody         \* no method

ASSUME TreasuryAssumption ==
    /\ DOMAIN Holder = Methods
    /\ DOMAIN LedgerKey = Withdrawals
    /\ Sum \in [Withdrawals -> Nat \ {0}]
    /\ Answers \subseteq {"accepted", "paid", "declined", "lost"}
    /\ Collected \in Nat
    /\ Nobody \notin Methods

VARIABLES
    method,    \* payout_methods: "none", "secondary", "primary", "deleted"
    editor,    \* what each handler of methods is doing
    payees,    \* methods whose beneficiary Cashfree knows
    request,   \* where each withdrawal is
    via,       \* the method it goes to
    debited,   \* withdrawals whose debit is in the ledger
    undone,    \* those with a reversal beside it
    order,     \* payments.status of each withdrawal that has a row
    transfer,  \* the transfer at the provider
    balance    \* accounts.balance_cents of the platform

trMethods == <<method, editor>>
trBooks   == <<debited, undone, order, transfer, balance>>
trVars    == <<trMethods, payees, request, via, trBooks>>

Holders      == {Holder[m] : m \in Methods}
Own(h)       == {m \in Methods : Holder[m] = h}
Existing     == {m \in Methods : method[m] \in {"primary", "secondary"}}
Primaries(h) == {m \in Own(h) : method[m] = "primary"}

\* as: the method's status as it was read, or is to be.
Resting == [pc |-> "idle", m |-> Nobody, as |-> "none"]

TreasuryTypeOK ==
    /\ method \in [Methods -> {"none", "secondary", "primary", "deleted"}]
    /\ editor \in [Editors -> [pc: {"idle", "adding", "registering", "promoting", "deleting"},
                               m: Methods \cup {Nobody}, as: {"none", "primary", "secondary"}]]
    /\ payees \subseteq Methods
    /\ request \in [Withdrawals -> {"new", "debiting", "opening", "undoing", "sending",
                                    "transferring", "crediting", "done"}]
    /\ via \in [Withdrawals -> Methods \cup {Nobody}]
    /\ debited \subseteq Withdrawals /\ undone \subseteq debited
    /\ order \in [Withdrawals -> {"none", "processing", "completed", "failed", "reversed"}]
    /\ transfer \in [Withdrawals -> {"none", "inflight", "completed", "failed", "reversed"}]
    /\ balance \in Nat

\* What earlier requests left: of a holder's methods one is primary.
TreasuryInit ==
    /\ method \in [Methods -> {"none", "secondary", "primary"}]
    /\ \A h \in Holders : Existing \cap Own(h) # {} => Cardinality(Primaries(h)) = 1
    /\ editor = [e \in Editors |-> Resting]
    /\ payees = {}
    /\ request = [w \in Withdrawals |-> "new"]
    /\ via = [w \in Withdrawals |-> Nobody]
    /\ debited = {} /\ undone = {}
    /\ order = [w \in Withdrawals |-> "none"]
    /\ transfer = [w \in Withdrawals |-> "none"]
    /\ balance = Collected

------------------------------------------------------------------------------
(* Payout methods.                                                         *)

Edits(e, pc, m, as) ==
    /\ editor[e] = Resting
    /\ editor' = [editor EXCEPT ![e] = [pc |-> pc, m |-> m, as |-> as]]
    /\ UNCHANGED <<method, payees, request, via, trBooks>>

Edited(e, pc) ==
    /\ editor[e].pc = pc
    /\ editor' = [editor EXCEPT ![e] = Resting]
    /\ UNCHANGED <<request, via, trBooks>>

\* AddPayoutMethod, AddAdminPayoutMethod: the holder's first method becomes the
\* primary one.
FirstIsPrimary(h) == IF Existing \cap Own(h) = {} THEN "primary" ELSE "secondary"

ListMethods(e, m) ==
    /\ method[m] = "none"
    /\ Edits(e, "adding", m, FirstIsPrimary(Holder[m]))

\* The platform's method is there; a host's goes on to Cashfree.
AddAdminPayoutMethod(e) ==
    LET m == editor[e].m IN
    /\ Edited(e, "adding")
    /\ Holder[m] = NoHost /\ method[m] = "none"
    /\ method' = [method EXCEPT ![m] = editor[e].as]
    /\ UNCHANGED payees

AddPayoutMethod(e) ==
    LET m == editor[e].m IN
    /\ editor[e].pc = "adding"
    /\ Holder[m] # NoHost /\ method[m] = "none"
    /\ method' = [method EXCEPT ![m] = editor[e].as]
    /\ editor' = [editor EXCEPT ![e].pc = "registering"]
    /\ UNCHANGED <<payees, request, via, trBooks>>

\* authorize and addBeneficiary, which knows a beneficiary that is there:
\* either may fail.
AddBeneficiary(m, ok) == IF ok THEN payees' = payees \cup {m} ELSE UNCHANGED payees

\* A failure is a warning.
RegisterBeneficiary(e, ok) ==
    /\ Edited(e, "registering")
    /\ AddBeneficiary(editor[e].m, ok)
    /\ UNCHANGED method

ChoosePrimary(e, m) == m \in Existing /\ Edits(e, "promoting", m, method[m])

\* SetPrimary, in a transaction: none of the holder's is primary, and then this
\* one, if it is still there.
\* Fault: none of anyone's is.
UnsetsAll(m) == Existing
Unsets(m)    == Existing \cap Own(Holder[m])

SetPrimary(e) ==
    LET m == editor[e].m IN
    /\ Edited(e, "promoting")
    /\ method' = [n \in Methods |->
                    IF n \notin Unsets(m) THEN method[n]
                    ELSE IF n = m THEN "primary" ELSE "secondary"]
    /\ UNCHANGED payees

\* DeletePayoutMethod refuses the primary one, of what it read.
\* Fault: it deletes any.
MayDeleteAny(m)    == m \in Existing
MayDeleteMethod(m) == method[m] = "secondary"

ChooseDelete(e, m) == MayDeleteMethod(m) /\ Edits(e, "deleting", m, method[m])

\* The beneficiary stays.
DeletePayoutMethod(e) ==
    /\ Edited(e, "deleting")
    /\ method' = [method EXCEPT ![editor[e].m] = "deleted"]
    /\ UNCHANGED payees

------------------------------------------------------------------------------
(* RequestAdminWithdrawal.                                                 *)

Moves(w, from, to) == request[w] = from /\ request' = [request EXCEPT ![w] = to]

\* A key that has its payment is answered with it.
Replayed(w) ==
    LedgerKey[w] # Blank
      /\ \E v \in Withdrawals : LedgerKey[v] = LedgerKey[w] /\ order[v] # "none"

\* Nothing else is looked at: not the balance, and of a method that is named,
\* not whose it is.
AcceptWithdrawal(w, m) ==
    /\ Moves(w, "new", "debiting")
    /\ ~Replayed(w)
    /\ m \in Existing
    /\ via' = [via EXCEPT ![w] = m]
    /\ UNCHANGED <<trMethods, payees, trBooks>>

\* The debit's ledger key is UNIQUE, and the empty key is one key.
\* Fault: a key in use is not refused.
MayDebitAgain(w) == w \notin debited
MayDebit(w)      == \A v \in debited : LedgerKey[v] # LedgerKey[w]

WriteDebit(w) ==
    /\ Moves(w, "debiting", "opening")
    /\ MayDebit(w)
    /\ debited' = debited \cup {w}
    /\ UNCHANGED <<trMethods, payees, via, undone, order, transfer, balance>>

\* The payment row, which gets a key of its own where the request had none;
\* or, when it cannot be written, the debit's reversal.  The row's foreign key
\* wants the method.
OpenOrder(w) ==
    /\ Moves(w, "opening", "sending")
    /\ via[w] \in Existing
    /\ order' = [order EXCEPT ![w] = "processing"]
    /\ UNCHANGED <<trMethods, payees, via, debited, undone, transfer, balance>>

OpenOrderFails(w) ==
    /\ Moves(w, "opening", "undoing")
    /\ UNCHANGED <<trMethods, payees, via, trBooks>>

UndoDebit(w) ==
    /\ Moves(w, "undoing", "done")
    /\ undone' = undone \cup {w}
    /\ UNCHANGED <<trMethods, payees, via, debited, order, transfer, balance>>

\* InitiateTransfer makes the method a beneficiary, or fails and sends nothing.
InitiateTransfer(w, ok) ==
    /\ Moves(w, "sending", IF ok THEN "transferring" ELSE "crediting")
    /\ AddBeneficiary(via[w], ok)
    /\ order' = [order EXCEPT ![w] = IF ok THEN "processing" ELSE "failed"]
    /\ UNCHANGED <<trMethods, via, debited, undone, transfer, balance>>

\* The provider's answer; a failed transfer goes on to credit the account.
SendOrder(w, answer) ==
    /\ Moves(w, "transferring", IF answer \in {"declined", "lost"} THEN "crediting" ELSE "done")
    /\ transfer' = [transfer EXCEPT ![w] =
          CASE answer = "paid"     -> "completed"
            [] answer = "declined" -> "failed"
            [] OTHER               -> "inflight"]
    /\ order' = [order EXCEPT ![w] =
          CASE answer = "paid"     -> "completed"
            [] answer = "accepted" -> "processing"
            [] OTHER               -> "failed"]
    /\ UNCHANGED <<trMethods, payees, via, debited, undone, balance>>

CreditAccount(w) ==
    /\ Moves(w, "crediting", "done")
    /\ balance' = balance + Sum[w]
    /\ UNCHANGED <<trMethods, payees, via, debited, undone, order, transfer>>

\* A withdrawal is refused, or dies with its process.
GiveUpWithdrawal(w) ==
    /\ request[w] # "done"
    /\ request' = [request EXCEPT ![w] = "done"]
    /\ UNCHANGED <<trMethods, payees, via, trBooks>>

\* The transfer's fate, and the webhook that reports it as it is.
TransferSettles(w) ==
    /\ \/ transfer[w] = "inflight" /\ transfer' = [transfer EXCEPT ![w] = "completed"]
       \/ transfer[w] = "inflight" /\ transfer' = [transfer EXCEPT ![w] = "failed"]
       \/ transfer[w] = "completed" /\ transfer' = [transfer EXCEPT ![w] = "reversed"]
    /\ UNCHANGED <<trMethods, payees, request, via, debited, undone, order, balance>>

SettleOrder(w) ==
    /\ transfer[w] \in {"completed", "failed", "reversed"} /\ order[w] # "none"
    /\ order' = [order EXCEPT ![w] = transfer[w]]
    /\ undone' = IF transfer[w] = "completed" THEN undone ELSE undone \cup {w}
    /\ UNCHANGED <<trMethods, payees, request, via, debited, transfer, balance>>

DeletesNext ==
    \E e \in Editors :
       \/ \E m \in Methods : ChooseDelete(e, m)
       \/ DeletePayoutMethod(e)

MethodsNext ==
    \/ \E e \in Editors :
          \/ \E m \in Methods : ListMethods(e, m) \/ ChoosePrimary(e, m)
          \/ AddPayoutMethod(e) \/ AddAdminPayoutMethod(e) \/ SetPrimary(e)
          \/ \E ok \in BOOLEAN : RegisterBeneficiary(e, ok)
    \/ DeletesNext

OrdersNext ==
    \E w \in Withdrawals :
       \/ \E m \in Methods : AcceptWithdrawal(w, m)
       \/ WriteDebit(w) \/ OpenOrder(w) \/ OpenOrderFails(w) \/ UndoDebit(w)
       \/ \E ok \in BOOLEAN : InitiateTransfer(w, ok)
       \/ \E answer \in Answers : SendOrder(w, answer)
       \/ CreditAccount(w) \/ GiveUpWithdrawal(w)
       \/ TransferSettles(w) \/ SettleOrder(w)

TreasuryNext == MethodsNext \/ OrdersNext

TreasurySpec == TreasuryInit /\ [][TreasuryNext]_trVars

------------------------------------------------------------------------------
(* Properties.                                                             *)

\* One key moves the platform's money at most once, however requests with it
\* overlap: two that pass the replay check together are told apart only by the
\* ledger's key.
AdminPaidOnce ==
    \A v, w \in Withdrawals :
        transfer[v] # "none" /\ transfer[w] # "none" /\ LedgerKey[v] = LedgerKey[w] => v = w

\* A host, or the platform, is left with no primary method only by two of its
\* own requests that overlap: a deletion of what has become the primary method
\* since it was read, or the choice of a method that is gone.
PrimaryLostOnlyByRace ==
    [][\A h \in Holders :
          Primaries(h) # {} /\ Primaries(h)' = {} =>
             \E e \in Editors :
                /\ editor[e].m \in Own(h)
                /\ \/ /\ editor[e].pc = "deleting" /\ editor[e].as = "secondary"
                      /\ editor[e].m \in Primaries(h)
                   \/ editor[e].pc = "promoting" /\ method[editor[e].m] = "deleted"]_method

\* payout_service.go:658-661: "NO accountRepo.Credit: nothing was debited ...
\* the old code's Credit here was a bug that inflated the host wallet".
FailureCreditsNothing == balance <= Collected

==============================================================================
