---------------------------- MODULE PayoutProofs -----------------------------
(***************************************************************************)
(* What TLAPS proves about withdrawals, for any number of withdrawals and  *)
(* of handlers at work on them, cut off anywhere, and any amounts.         *)
(***************************************************************************)
EXTENDS Payout, Sums

------------------------------------------------------------------------------
(* The inductive invariant.  What keeps a withdrawal single is that the    *)
(* handler which wrote its debit owns it: no other handler ever writes its *)
(* payment or sends its transfer, and what webhooks touch has been sent.   *)

\* What a handler does once it has written its withdrawal's debit.
Owning == {"opening", "starting", "sending", "completing", "failing", "reversing"}

Owns(h) == proc[h].pc \in Owning

\* A handler at work is at work on some withdrawal.
Named == \A h \in Handlers : proc[h].pc # "idle" => proc[h].key \in Keys

\* An owner's withdrawal has its debit, and the owner is the only one.
Owned ==
    \A h \in Handlers :
        Owns(h) => /\ Has("debit", proc[h].key)
                   /\ \A g \in Handlers :
                         Owns(g) /\ proc[g].key = proc[h].key => g = h

\* Until the transfer is sent nobody else has sent it.
Unsent ==
    \A h \in Handlers :
        proc[h].pc \in {"opening", "starting", "sending"} => asked[proc[h].key] = 0

\* A transfer is sent from a payment that counts.
Opened ==
    \A h \in Handlers :
        proc[h].pc \in {"starting", "sending"}
            => status[proc[h].key] \in {"pending", "processing"}

\* What the provider knows was asked for once, and is in the books.
Sent ==
    \A k \in Keys :
        /\ asked[k] \in {0, 1}
        /\ asked[k] = 0 => bank[k] = "none"
        /\ asked[k] = 1 => Has("debit", k) /\ status[k] # "none"

\* A verdict is about a transfer the provider knows.
Judged ==
    \A h \in Handlers :
        proc[h].pc \in {"settling", "marking", "recording"}
            => proc[h].verdict \in Verdicts /\ bank[proc[h].key] # "none"

IInv == TypeOK /\ Named /\ Owned /\ Unsent /\ Opened /\ Sent /\ Judged

\* A handler at rest is well typed.
LEMMA IdleIsProcess == Idle \in Process /\ Idle.pc = "idle"
BY DEF Idle, Process

\* Init establishes the invariant.
LEMMA InitSafe == Init => IInv
<1> SUFFICES ASSUME Init PROVE IInv
  OBVIOUS
<1>1. TypeOK
  BY IdleIsProcess DEF Init, TypeOK
<1>2. Named /\ Owned /\ Unsent /\ Opened /\ Judged
  BY DEF Init, Idle, Named, Owned, Owns, Owning, Unsent, Opened, Judged
<1>3. Sent
  BY DEF Init, Sent
<1> QED BY <1>1, <1>2, <1>3 DEF IInv

\* What Become and Go do to the handlers: one moves, the others stay.
LEMMA BecomeMoves ==
    ASSUME TypeOK, NEW h \in Handlers, NEW p \in Process, Become(h, p)
    PROVE  /\ proc' \in [Handlers -> Process]
           /\ proc'[h] = p
           /\ \A g \in Handlers : g # h => proc'[g] = proc[g]
BY DEF TypeOK, Become

\* Go moves one handler on and keeps what it is working on.
LEMMA GoMoves ==
    ASSUME TypeOK, NEW h \in Handlers, NEW pc \in ClerkSteps \cup CourierSteps,
           Go(h, pc)
    PROVE  /\ proc' \in [Handlers -> Process]
           /\ proc'[h].pc = pc
           /\ proc'[h].key = proc[h].key
           /\ proc'[h].sum = proc[h].sum
           /\ proc'[h].verdict = proc[h].verdict
           /\ \A g \in Handlers : g # h => proc'[g] = proc[g]
<1> DEFINE p == [proc[h] EXCEPT !.pc = pc]
<1>1. proc[h] \in Process
  BY DEF TypeOK
<1>2. /\ p \in Process
      /\ p.pc = pc /\ p.key = proc[h].key /\ p.sum = proc[h].sum
      /\ p.verdict = proc[h].verdict
  BY <1>1 DEF Process
<1>3. Become(h, p)
  BY DEF Go
<1> HIDE DEF p
<1> QED BY <1>2, <1>3, BecomeMoves

\* Going idle disturbs nothing.
LEMMA Resting ==
    ASSUME IInv, NEW h \in Handlers, Become(h, Idle), UNCHANGED <<books, bank, asked, unanswered>>,
           passed' \in Nat
    PROVE  IInv'
<1>2. /\ proc' \in [Handlers -> Process]
      /\ proc'[h].pc = "idle"
      /\ \A g \in Handlers : g # h => proc'[g] = proc[g]
  BY IdleIsProcess, BecomeMoves DEF IInv
<1>3. TypeOK'
  BY <1>2 DEF IInv, TypeOK, books
<1>4. Named' /\ Unsent' /\ Opened' /\ Judged'
  BY <1>2 DEF IInv, Named, Unsent, Opened, Judged, books
<1>5. Owned'
  BY <1>2 DEF IInv, Owned, Owns, Owning, Has, books
<1>6. Sent'
  BY DEF IInv, Sent, Has, books
<1> QED BY <1>3, <1>4, <1>5, <1>6 DEF IInv

------------------------------------------------------------------------------
(* Every step keeps the invariant.                                         *)

\* The balance check writes nothing.
LEMMA CheckAvailableSafe == ASSUME IInv, NEW h \in Handlers, CheckAvailable(h) PROVE IInv'
<1> DEFINE k == proc[h].key
<1>1. /\ TypeOK /\ k \in Keys /\ proc[h].pc = "checking" /\ proc[h] \in Process
  BY DEF IInv, TypeOK, Named, CheckAvailable, At
<1>2. /\ proc' \in [Handlers -> Process]
      /\ proc'[h].pc = "debiting"
      /\ proc'[h].key = k /\ proc'[h].verdict = proc[h].verdict
      /\ \A g \in Handlers : g # h => proc'[g] = proc[g]
  BY <1>1, GoMoves DEF CheckAvailable, ClerkSteps, CourierSteps
<1>3. TypeOK'
  BY <1>1, <1>2 DEF CheckAvailable, TypeOK, Process, books, outside
<1>4. Named' /\ Unsent' /\ Judged'
  BY <1>1, <1>2 DEF IInv, CheckAvailable, Named, Unsent, Owned, Owns, Owning,
     Sent, Has, Judged, TypeOK, books, outside
<1>5. Opened'
  BY <1>1, <1>2 DEF IInv, CheckAvailable, Opened, Owned, Owns, Owning,
     Unsent, Sent, Judged, TypeOK, books, outside
<1>6. Owned'
  BY <1>1, <1>2 DEF IInv, CheckAvailable, Owned, Owns, Owning, Has, books,
     outside
<1>7. Sent'
  BY <1>1, <1>2 DEF IInv, CheckAvailable, Sent, Owned, Owns, Owning, Unsent,
     Opened, Has, TypeOK, books, outside
<1> QED BY <1>3, <1>4, <1>5, <1>6, <1>7 DEF IInv

\* Whoever writes the debit becomes the owner: an earlier owner would have left
\* it.
LEMMA WriteDebitSafe == ASSUME IInv, NEW h \in Handlers, WriteDebit(h) PROVE IInv'
<1> DEFINE k == proc[h].key
<1>1. /\ TypeOK /\ k \in Keys /\ proc[h].pc = "debiting" /\ proc[h] \in Process
  BY DEF IInv, TypeOK, Named, WriteDebit, At
<1>2. /\ proc' \in [Handlers -> Process]
      /\ proc'[h].pc = "opening"
      /\ proc'[h].key = k /\ proc'[h].verdict = proc[h].verdict
      /\ \A g \in Handlers : g # h => proc'[g] = proc[g]
  BY <1>1, GoMoves DEF WriteDebit, ClerkSteps, CourierSteps
<1>3. TypeOK'
  BY <1>1, <1>2 DEF WriteDebit, TypeOK, Process, books, outside, MayWrite,
     Write, Has, Lines
<1>4. Named' /\ Unsent' /\ Judged'
  BY <1>1, <1>2 DEF IInv, WriteDebit, Named, Unsent, Owned, Owns, Owning,
     Sent, Has, Judged, TypeOK, books, outside, MayWrite, Write, Has, Lines
<1>5. Opened'
  BY <1>1, <1>2 DEF IInv, WriteDebit, Opened, Owned, Owns, Owning, Unsent,
     Sent, Judged, TypeOK, books, outside, MayWrite, Write, Has, Lines
<1>6. Owned'
  BY <1>1, <1>2 DEF IInv, WriteDebit, Owned, Owns, Owning, Has, books,
     outside, MayWrite, Write, Has, Lines
<1>7. Sent'
  BY <1>1, <1>2 DEF IInv, WriteDebit, Sent, Owned, Owns, Owning, Unsent,
     Opened, Has, TypeOK, books, outside, MayWrite, Write, Has, Lines
<1> QED BY <1>3, <1>4, <1>5, <1>6, <1>7 DEF IInv

\* The payment row is opened by the owner, before anything is sent.
LEMMA OpenPaymentSafe == ASSUME IInv, NEW h \in Handlers, OpenPayment(h) PROVE IInv'
<1> DEFINE k == proc[h].key
<1>1. /\ TypeOK /\ k \in Keys /\ proc[h].pc = "opening" /\ proc[h] \in Process
  BY DEF IInv, TypeOK, Named, OpenPayment, At
<1>2. /\ proc' \in [Handlers -> Process]
      /\ proc'[h].pc = "starting"
      /\ proc'[h].key = k /\ proc'[h].verdict = proc[h].verdict
      /\ \A g \in Handlers : g # h => proc'[g] = proc[g]
  BY <1>1, GoMoves DEF OpenPayment, ClerkSteps, CourierSteps
<1>3. TypeOK'
  BY <1>1, <1>2 DEF OpenPayment, TypeOK, Process, books, outside
<1>4. Named' /\ Unsent' /\ Judged'
  BY <1>1, <1>2 DEF IInv, OpenPayment, Named, Unsent, Owned, Owns, Owning,
     Sent, Has, Judged, TypeOK, books, outside
<1>5. Opened'
  BY <1>1, <1>2 DEF IInv, OpenPayment, Opened, Owned, Owns, Owning, Unsent,
     Sent, Judged, TypeOK, books, outside
<1>6. Owned'
  BY <1>1, <1>2 DEF IInv, OpenPayment, Owned, Owns, Owning, Has, books, outside
<1>7. Sent'
  BY <1>1, <1>2 DEF IInv, OpenPayment, Sent, Owned, Owns, Owning, Unsent,
     Opened, Has, TypeOK, books, outside
<1> QED BY <1>3, <1>4, <1>5, <1>6, <1>7 DEF IInv

\* The error path of the payment row.
LEMMA OpenFailsSafe == ASSUME IInv, NEW h \in Handlers, OpenFails(h) PROVE IInv'
<1> DEFINE k == proc[h].key
<1>1. /\ TypeOK /\ k \in Keys /\ proc[h].pc = "opening" /\ proc[h] \in Process
  BY DEF IInv, TypeOK, Named, OpenFails, At
<1>2. /\ proc' \in [Handlers -> Process]
      /\ proc'[h].pc = "reversing"
      /\ proc'[h].key = k /\ proc'[h].verdict = proc[h].verdict
      /\ \A g \in Handlers : g # h => proc'[g] = proc[g]
  BY <1>1, GoMoves DEF OpenFails, ClerkSteps, CourierSteps
<1>3. TypeOK'
  BY <1>1, <1>2 DEF OpenFails, TypeOK, Process, books, outside
<1>4. Named' /\ Unsent' /\ Judged'
  BY <1>1, <1>2 DEF IInv, OpenFails, Named, Unsent, Owned, Owns, Owning,
     Sent, Has, Judged, TypeOK, books, outside
<1>5. Opened'
  BY <1>1, <1>2 DEF IInv, OpenFails, Opened, Owned, Owns, Owning, Unsent,
     Sent, Judged, TypeOK, books, outside
<1>6. Owned'
  BY <1>1, <1>2 DEF IInv, OpenFails, Owned, Owns, Owning, Has, books, outside
<1>7. Sent'
  BY <1>1, <1>2 DEF IInv, OpenFails, Sent, Owned, Owns, Owning, Unsent,
     Opened, Has, TypeOK, books, outside
<1> QED BY <1>3, <1>4, <1>5, <1>6, <1>7 DEF IInv

\* The owner marks the payment processing.
LEMMA StartSafe == ASSUME IInv, NEW h \in Handlers, Start(h) PROVE IInv'
<1> DEFINE k == proc[h].key
<1>1. /\ TypeOK /\ k \in Keys /\ proc[h].pc = "starting" /\ proc[h] \in Process
  BY DEF IInv, TypeOK, Named, Start, At
<1>2. /\ proc' \in [Handlers -> Process]
      /\ proc'[h].pc = "sending"
      /\ proc'[h].key = k /\ proc'[h].verdict = proc[h].verdict
      /\ \A g \in Handlers : g # h => proc'[g] = proc[g]
  BY <1>1, GoMoves DEF Start, ClerkSteps, CourierSteps
<1>3. TypeOK'
  BY <1>1, <1>2 DEF Start, TypeOK, Process, books, outside
<1>4. Named' /\ Unsent' /\ Judged'
  BY <1>1, <1>2 DEF IInv, Start, Named, Unsent, Owned, Owns, Owning, Sent,
     Has, Judged, TypeOK, books, outside
<1>5. Opened'
  BY <1>1, <1>2 DEF IInv, Start, Opened, Owned, Owns, Owning, Unsent, Sent,
     Judged, TypeOK, books, outside
<1>6. Owned'
  BY <1>1, <1>2 DEF IInv, Start, Owned, Owns, Owning, Has, books, outside
<1>7. Sent'
  BY <1>1, <1>2 DEF IInv, Start, Sent, Owned, Owns, Owning, Unsent, Opened,
     Has, TypeOK, books, outside
<1> QED BY <1>3, <1>4, <1>5, <1>6, <1>7 DEF IInv

\* The owner marks the payment completed.
LEMMA CompleteSafe == ASSUME IInv, NEW h \in Handlers, Complete(h) PROVE IInv'
<1> DEFINE k == proc[h].key
<1>1. /\ TypeOK /\ k \in Keys /\ proc[h].pc = "completing" /\ proc[h] \in Process
  BY DEF IInv, TypeOK, Named, Complete, At
<1>2. /\ proc' \in [Handlers -> Process]
      /\ proc'[h].pc = "idle"
      /\ \A g \in Handlers : g # h => proc'[g] = proc[g]
  BY <1>1, IdleIsProcess, BecomeMoves DEF Complete
<1>3. TypeOK'
  BY <1>1, <1>2 DEF Complete, TypeOK, Process, books, outside
<1>4. Named' /\ Unsent' /\ Judged'
  BY <1>1, <1>2 DEF IInv, Complete, Named, Unsent, Owned, Owns, Owning, Sent,
     Has, Judged, TypeOK, books, outside
<1>5. Opened'
  BY <1>1, <1>2 DEF IInv, Complete, Opened, Owned, Owns, Owning, Unsent,
     Sent, Judged, TypeOK, books, outside
<1>6. Owned'
  BY <1>1, <1>2 DEF IInv, Complete, Owned, Owns, Owning, Has, books, outside
<1>7. Sent'
  BY <1>1, <1>2 DEF IInv, Complete, Sent, Owned, Owns, Owning, Unsent,
     Opened, Has, TypeOK, books, outside
<1> QED BY <1>3, <1>4, <1>5, <1>6, <1>7 DEF IInv

\* The owner marks the payment failed.
LEMMA FailSafe == ASSUME IInv, NEW h \in Handlers, Fail(h) PROVE IInv'
<1> DEFINE k == proc[h].key
<1>1. /\ TypeOK /\ k \in Keys /\ proc[h].pc = "failing" /\ proc[h] \in Process
  BY DEF IInv, TypeOK, Named, Fail, At
<1>2. /\ proc' \in [Handlers -> Process]
      /\ proc'[h].pc = "reversing"
      /\ proc'[h].key = k /\ proc'[h].verdict = proc[h].verdict
      /\ \A g \in Handlers : g # h => proc'[g] = proc[g]
  BY <1>1, GoMoves DEF Fail, ClerkSteps, CourierSteps
<1>3. TypeOK'
  BY <1>1, <1>2 DEF Fail, TypeOK, Process, books, outside
<1>4. Named' /\ Unsent' /\ Judged'
  BY <1>1, <1>2 DEF IInv, Fail, Named, Unsent, Owned, Owns, Owning, Sent,
     Has, Judged, TypeOK, books, outside
<1>5. Opened'
  BY <1>1, <1>2 DEF IInv, Fail, Opened, Owned, Owns, Owning, Unsent, Sent,
     Judged, TypeOK, books, outside
<1>6. Owned'
  BY <1>1, <1>2 DEF IInv, Fail, Owned, Owns, Owning, Has, books, outside
<1>7. Sent'
  BY <1>1, <1>2 DEF IInv, Fail, Sent, Owned, Owns, Owning, Unsent, Opened,
     Has, TypeOK, books, outside
<1> QED BY <1>3, <1>4, <1>5, <1>6, <1>7 DEF IInv

\* The owner reverses the debit.
LEMMA ReverseSafe == ASSUME IInv, NEW h \in Handlers, Reverse(h) PROVE IInv'
<1> DEFINE k == proc[h].key
<1>1. /\ TypeOK /\ k \in Keys /\ proc[h].pc = "reversing" /\ proc[h] \in Process
  BY DEF IInv, TypeOK, Named, Reverse, At
<1>2. /\ proc' \in [Handlers -> Process]
      /\ proc'[h].pc = "idle"
      /\ \A g \in Handlers : g # h => proc'[g] = proc[g]
  BY <1>1, IdleIsProcess, BecomeMoves DEF Reverse
<1>3. TypeOK'
  BY <1>1, <1>2 DEF Reverse, TypeOK, Process, books, outside, MayWrite,
     Write, Has, Lines
<1>4. Named' /\ Unsent' /\ Judged'
  BY <1>1, <1>2 DEF IInv, Reverse, Named, Unsent, Owned, Owns, Owning, Sent,
     Has, Judged, TypeOK, books, outside, MayWrite, Write, Has, Lines
<1>5. Opened'
  BY <1>1, <1>2 DEF IInv, Reverse, Opened, Owned, Owns, Owning, Unsent, Sent,
     Judged, TypeOK, books, outside, MayWrite, Write, Has, Lines
<1>6. Owned'
  BY <1>1, <1>2 DEF IInv, Reverse, Owned, Owns, Owning, Has, books, outside,
     MayWrite, Write, Has, Lines
<1>7. Sent'
  BY <1>1, <1>2 DEF IInv, Reverse, Sent, Owned, Owns, Owning, Unsent, Opened,
     Has, TypeOK, books, outside, MayWrite, Write, Has, Lines
<1> QED BY <1>3, <1>4, <1>5, <1>6, <1>7 DEF IInv

\* A completed webhook is about a transfer that was sent, so no owner is about
\* to send it.
LEMMA SettleCompletedSafe == ASSUME IInv, NEW h \in Handlers, SettleCompleted(h) PROVE IInv'
<1> DEFINE k == proc[h].key
<1>1. /\ TypeOK /\ k \in Keys /\ proc[h].pc = "settling" /\ proc[h] \in Process
      /\ proc[h].verdict \in Verdicts /\ bank[k] # "none"
  BY DEF IInv, TypeOK, Named, Judged, SettleCompleted, At
<1>2. /\ proc' \in [Handlers -> Process]
      /\ proc'[h].pc = "recording"
      /\ proc'[h].key = k /\ proc'[h].verdict = proc[h].verdict
      /\ \A g \in Handlers : g # h => proc'[g] = proc[g]
  BY <1>1, GoMoves DEF SettleCompleted, ClerkSteps, CourierSteps
<1>3. TypeOK'
  BY <1>1, <1>2 DEF SettleCompleted, TypeOK, Process, books, outside
<1>4. Named' /\ Unsent' /\ Judged'
  BY <1>1, <1>2 DEF IInv, SettleCompleted, Named, Unsent, Owned, Owns,
     Owning, Sent, Has, Judged, TypeOK, books, outside
<1>5. Opened'
  BY <1>1, <1>2 DEF IInv, SettleCompleted, Opened, Owned, Owns, Owning,
     Unsent, Sent, Judged, TypeOK, books, outside
<1>6. Owned'
  BY <1>1, <1>2 DEF IInv, SettleCompleted, Owned, Owns, Owning, Has, books,
     outside
<1>7. Sent'
  BY <1>1, <1>2 DEF IInv, SettleCompleted, Sent, Owned, Owns, Owning, Unsent,
     Opened, Has, TypeOK, books, outside
<1> QED BY <1>3, <1>4, <1>5, <1>6, <1>7 DEF IInv

\* A reversal leaves payments and transfers alone.
LEMMA CreditBackSafe == ASSUME IInv, NEW h \in Handlers, CreditBack(h) PROVE IInv'
<1> DEFINE k == proc[h].key
<1>1. /\ TypeOK /\ k \in Keys /\ proc[h].pc = "settling" /\ proc[h] \in Process
      /\ proc[h].verdict \in Verdicts /\ bank[k] # "none"
  BY DEF IInv, TypeOK, Named, Judged, CreditBack, At
<1>2. /\ proc' \in [Handlers -> Process]
      /\ proc'[h].pc = "marking"
      /\ proc'[h].key = k /\ proc'[h].verdict = proc[h].verdict
      /\ \A g \in Handlers : g # h => proc'[g] = proc[g]
  BY <1>1, GoMoves DEF CreditBack, ClerkSteps, CourierSteps
<1>3. TypeOK'
  BY <1>1, <1>2 DEF CreditBack, TypeOK, Process, books, outside, MayWrite,
     Write, Has, Lines, Verdicts
<1>4. Named' /\ Unsent' /\ Judged'
  BY <1>1, <1>2 DEF IInv, CreditBack, Named, Unsent, Owned, Owns, Owning,
     Sent, Has, Judged, TypeOK, books, outside, MayWrite, Write, Has, Lines,
     Verdicts
<1>5. Opened'
  BY <1>1, <1>2 DEF IInv, CreditBack, Opened, Owned, Owns, Owning, Unsent,
     Sent, Judged, TypeOK, books, outside, MayWrite, Write, Has, Lines, Verdicts
<1>6. Owned'
  BY <1>1, <1>2 DEF IInv, CreditBack, Owned, Owns, Owning, Has, books,
     outside, MayWrite, Write, Has, Lines, Verdicts
<1>7. Sent'
  BY <1>1, <1>2 DEF IInv, CreditBack, Sent, Owned, Owns, Owning, Unsent,
     Opened, Has, TypeOK, books, outside, MayWrite, Write, Has, Lines, Verdicts
<1> QED BY <1>3, <1>4, <1>5, <1>6, <1>7 DEF IInv

\* A failed or reversed webhook marks a payment that has been sent.
LEMMA MarkSafe == ASSUME IInv, NEW h \in Handlers, Mark(h) PROVE IInv'
<1> DEFINE k == proc[h].key
<1>1. /\ TypeOK /\ k \in Keys /\ proc[h].pc = "marking" /\ proc[h] \in Process
      /\ proc[h].verdict \in Verdicts /\ bank[k] # "none"
  BY DEF IInv, TypeOK, Named, Judged, Mark, At
<1>2. /\ proc' \in [Handlers -> Process]
      /\ proc'[h].pc = "recording"
      /\ proc'[h].key = k /\ proc'[h].verdict = proc[h].verdict
      /\ \A g \in Handlers : g # h => proc'[g] = proc[g]
  BY <1>1, GoMoves DEF Mark, ClerkSteps, CourierSteps
<1>3. TypeOK'
  BY <1>1, <1>2 DEF Mark, TypeOK, Process, books, outside, Verdicts
<1>4. Named' /\ Unsent' /\ Judged'
  BY <1>1, <1>2 DEF IInv, Mark, Named, Unsent, Owned, Owns, Owning, Sent,
     Has, Judged, TypeOK, books, outside, Verdicts
<1>5. Opened'
  BY <1>1, <1>2 DEF IInv, Mark, Opened, Owned, Owns, Owning, Unsent, Sent,
     Judged, TypeOK, books, outside, Verdicts
<1>6. Owned'
  BY <1>1, <1>2 DEF IInv, Mark, Owned, Owns, Owning, Has, books, outside,
     Verdicts
<1>7. Sent'
  BY <1>1, <1>2 DEF IInv, Mark, Sent, Owned, Owns, Owning, Unsent, Opened,
     Has, TypeOK, books, outside, Verdicts
<1> QED BY <1>3, <1>4, <1>5, <1>6, <1>7 DEF IInv

\* The record of a webhook disturbs nothing.
LEMMA RecordSafe == ASSUME IInv, NEW h \in Handlers, Record(h) PROVE IInv'
<1> DEFINE k == proc[h].key
<1>1. /\ TypeOK /\ k \in Keys /\ proc[h].pc = "recording" /\ proc[h] \in Process
      /\ proc[h].verdict \in Verdicts /\ bank[k] # "none"
  BY DEF IInv, TypeOK, Named, Judged, Record, At
<1>2. /\ proc' \in [Handlers -> Process]
      /\ proc'[h].pc = "idle"
      /\ \A g \in Handlers : g # h => proc'[g] = proc[g]
  BY <1>1, IdleIsProcess, BecomeMoves DEF Record
<1>3. TypeOK'
  BY <1>1, <1>2 DEF Record, TypeOK, Process, books, outside, Verdicts
<1>4. Named' /\ Unsent' /\ Judged'
  BY <1>1, <1>2 DEF IInv, Record, Named, Unsent, Owned, Owns, Owning, Sent,
     Has, Judged, TypeOK, books, outside, Verdicts
<1>5. Opened'
  BY <1>1, <1>2 DEF IInv, Record, Opened, Owned, Owns, Owning, Unsent, Sent,
     Judged, TypeOK, books, outside, Verdicts
<1>6. Owned'
  BY <1>1, <1>2 DEF IInv, Record, Owned, Owns, Owning, Has, books, outside,
     Verdicts
<1>7. Sent'
  BY <1>1, <1>2 DEF IInv, Record, Sent, Owned, Owns, Owning, Unsent, Opened,
     Has, TypeOK, books, outside, Verdicts
<1> QED BY <1>3, <1>4, <1>5, <1>6, <1>7 DEF IInv

\* A handler that takes up a withdrawal writes nothing.
LEMMA TakingUp ==
    ASSUME IInv, NEW h \in Handlers, NEW p \in Process, Become(h, p),
           UNCHANGED <<books, outside>>, p.key \in Keys,
           \/ p.pc \in {"requested", "checking", "polling"}
           \/ p.pc = "settling" /\ p.verdict \in Verdicts /\ bank[p.key] # "none"
    PROVE  IInv'
<1>1. /\ proc' \in [Handlers -> Process]
      /\ proc'[h] = p
      /\ \A g \in Handlers : g # h => proc'[g] = proc[g]
  BY BecomeMoves DEF IInv
<1>2. TypeOK'
  BY <1>1 DEF IInv, TypeOK, books, outside
<1>3. Named' /\ Unsent' /\ Opened' /\ Judged' /\ Sent'
  BY <1>1 DEF IInv, Named, Unsent, Opened, Judged, Sent, Has, books, outside
<1>4. Owned'
  BY <1>1 DEF IInv, Owned, Owns, Owning, Has, books, outside
<1> QED BY <1>2, <1>3, <1>4 DEF IInv

\* Reading the earnings writes nothing.
LEMMA ReadEarningsSafe ==
    ASSUME IInv, NEW h \in Handlers, ReadEarnings(h)
    PROVE  IInv'
<1> DEFINE k == proc[h].key
           p == [proc[h] EXCEPT !.pc = "checking", !.seen = passed]
<1>1. TypeOK /\ k \in Keys /\ proc[h].pc = "requested" /\ proc[h] \in Process
  BY DEF IInv, TypeOK, Named, ReadEarnings, At
<1>2. p \in Process /\ p.key = k /\ p.pc = "checking"
  BY <1>1 DEF Process, ClerkSteps, TypeOK
<1>3. Become(h, p) /\ UNCHANGED <<books, outside>>
  BY DEF ReadEarnings
<1> HIDE DEF p
<1> QED BY <1>1, <1>2, <1>3, TakingUp

\* An update whose error is ignored leaves the payment as it was.
LEMMA SkipSafe == ASSUME IInv, NEW h \in Handlers, Skip(h) PROVE IInv'
<1> DEFINE k == proc[h].key
<1>1. /\ TypeOK /\ k \in Keys /\ proc[h] \in Process
      /\ proc[h].pc \in {"starting", "failing"}
  BY DEF IInv, TypeOK, Named, Skip, At
<1>2. /\ proc' \in [Handlers -> Process]
      /\ \/ proc[h].pc = "starting" /\ proc'[h].pc = "sending"
         \/ proc[h].pc = "failing" /\ proc'[h].pc = "reversing"
      /\ proc'[h].key = k
      /\ \A g \in Handlers : g # h => proc'[g] = proc[g]
  BY <1>1, GoMoves DEF Skip, At, ClerkSteps, CourierSteps
<1>3. UNCHANGED <<books, outside>>
  BY DEF Skip
<1>4. TypeOK'
  BY <1>1, <1>2, <1>3 DEF TypeOK, books, outside
<1>5. Named' /\ Unsent' /\ Opened' /\ Judged' /\ Sent'
  BY <1>1, <1>2, <1>3 DEF IInv, Named, Unsent, Opened, Judged, Sent, Has,
     books, outside
<1>6. Owned'
  BY <1>1, <1>2, <1>3 DEF IInv, Owned, Owns, Owning, Has, books, outside
<1> QED BY <1>4, <1>5, <1>6 DEF IInv

\* A request takes up its withdrawal.
LEMMA RequestSafe ==
    ASSUME IInv, NEW h \in Handlers, NEW k \in Keys, Request(h, k)
    PROVE  IInv'
<1> DEFINE p == [Idle EXCEPT !.pc = "requested", !.key = k, !.sum = Amount[k]]
<1>1. p \in Process /\ p.key = k /\ p.pc = "requested"
  <2>1. Amount[k] \in Nat
    BY PayoutAssumption DEF Request, PayoutAssumption
  <2> QED BY <2>1 DEF Idle, Process, ClerkSteps
<1>2. Become(h, p) /\ UNCHANGED <<books, outside>>
  BY DEF Request
<1> HIDE DEF p
<1> QED BY <1>1, <1>2, TakingUp

\* The weekly run takes up the week's withdrawal.
LEMMA AutoPayoutSafe ==
    ASSUME IInv, NEW h \in Handlers, NEW k \in Keys, AutoPayout(h, k)
    PROVE  IInv'
<1>1. PICK sum \in MinAuto .. passed :
         Become(h, [Idle EXCEPT !.pc = "requested", !.key = k, !.sum = sum])
  BY DEF AutoPayout
<1> DEFINE p == [Idle EXCEPT !.pc = "requested", !.key = k, !.sum = sum]
<1>2. p \in Process /\ p.key = k /\ p.pc = "requested"
  <2>1. sum \in Nat
    BY PayoutAssumption DEF IInv, TypeOK, PayoutAssumption
  <2> QED BY <2>1 DEF Idle, Process, ClerkSteps
<1>3. Become(h, p) /\ UNCHANGED <<books, outside>>
  BY <1>1 DEF AutoPayout
<1> HIDE DEF p
<1> QED BY <1>2, <1>3, TakingUp

\* A webhook is about a transfer the provider knows.
LEMMA WebhookSafe ==
    ASSUME IInv, NEW h \in Handlers, NEW k \in Keys, NEW v \in Verdicts,
           Webhook(h, k, v)
    PROVE  IInv'
<1> DEFINE p == [Idle EXCEPT !.pc = "settling", !.key = k, !.verdict = v]
<1>1. p \in Process /\ p.key = k /\ p.pc = "settling" /\ p.verdict = v
  BY DEF Idle, Process, CourierSteps
<1>2. Become(h, p) /\ UNCHANGED <<books, outside>>
  BY DEF Webhook
<1>3. bank[k] # "none"
  BY DEF Webhook, Announced
<1> HIDE DEF p
<1> QED BY <1>1, <1>2, <1>3, TakingUp

\* Reconciliation takes up a payment.
LEMMA ReconcileSafe ==
    ASSUME IInv, NEW h \in Handlers, NEW k \in Keys, Reconcile(h, k)
    PROVE  IInv'
<1> DEFINE p == [Idle EXCEPT !.pc = "polling", !.key = k]
<1>1. p \in Process /\ p.key = k /\ p.pc = "polling"
  BY DEF Idle, Process, CourierSteps
<1>2. Become(h, p) /\ UNCHANGED <<books, outside>>
  BY DEF Reconcile
<1> HIDE DEF p
<1> QED BY <1>1, <1>2, TakingUp

\* What the provider answers is a verdict about a transfer it knows.
LEMMA PollSafe == ASSUME IInv, NEW h \in Handlers, Poll(h) PROVE IInv'
<1> DEFINE k == proc[h].key
           p == [proc[h] EXCEPT !.pc = "settling", !.verdict = bank[k]]
<1>1. k \in Keys /\ bank[k] \in Verdicts /\ proc[h] \in Process
  BY DEF IInv, TypeOK, Named, Poll, At, Final
<1>2. p \in Process /\ p.key = k /\ p.pc = "settling" /\ p.verdict = bank[k]
  BY <1>1 DEF Process, CourierSteps
<1>3. Become(h, p) /\ UNCHANGED <<books, outside>>
  BY DEF Poll
<1>4. bank[k] # "none"
  BY <1>1 DEF Verdicts
<1> HIDE DEF p
<1> QED BY <1>1, <1>2, <1>3, <1>4, TakingUp

\* The transfer is sent once: its owner alone is at this step.
LEMMA SendSafe ==
    ASSUME IInv, NEW h \in Handlers, NEW r \in Replies, Send(h, r)
    PROVE  IInv'
<1> DEFINE w == proc[h].key
<1>1. /\ TypeOK /\ w \in Keys /\ proc[h].pc = "sending" /\ proc[h] \in Process
      /\ asked[w] = 0 /\ Has("debit", w) /\ status[w] # "none"
  BY DEF IInv, TypeOK, Named, Unsent, Owned, Owns, Owning, Opened, Send, At
<1>2. /\ proc' \in [Handlers -> Process]
      /\ \/ proc'[h].pc = "idle"
         \/ proc'[h].pc \in {"completing", "failing"} /\ proc'[h].key = w
      /\ \A g \in Handlers : g # h => proc'[g] = proc[g]
  <2>1. CASE AfterSend(r) = "idle"
    BY <1>1, <2>1, IdleIsProcess, BecomeMoves DEF Send
  <2>2. CASE AfterSend(r) # "idle"
    <3>1. AfterSend(r) \in {"completing", "failing"}
      BY <2>2 DEF AfterSend
    <3>2. Go(h, AfterSend(r))
      BY <2>2 DEF Send
    <3> QED BY <1>1, <3>1, <3>2, GoMoves DEF ClerkSteps
  <2> QED BY <2>1, <2>2
<1>3. /\ asked' = [asked EXCEPT ![w] = 1]
      /\ bank' = [bank EXCEPT ![w] = BankAfter(r)]
      /\ BankAfter(r) \in {"none", "inflight", "completed", "failed"}
      /\ UNCHANGED <<books, passed>>
      /\ unanswered' \subseteq Keys
  <2>1. asked' = [asked EXCEPT ![w] = 1]
    BY <1>1 DEF Send, TypeOK
  <2>2. unanswered' \subseteq Keys
    BY <1>1 DEF Send, TypeOK
  <2> QED BY <2>1, <2>2 DEF Send, BankAfter
<1> HIDE DEF w
<1>4. /\ \A j \in Keys : asked'[j] = IF j = w THEN 1 ELSE asked[j]
      /\ \A j \in Keys : j # w => bank'[j] = bank[j]
      /\ UNCHANGED <<status, journal>>
  BY <1>1, <1>3 DEF TypeOK, books
<1>5. TypeOK'
  BY <1>1, <1>2, <1>3 DEF TypeOK, books
<1>6. Named' /\ Opened'
  BY <1>1, <1>2, <1>3 DEF IInv, Named, Opened, books, w
<1>7. Owned'
  <2>1. \A g \in Handlers : Owns(g)' => Owns(g) /\ proc'[g].key = proc[g].key
    BY <1>1, <1>2 DEF Owns, Owning, w
  <2> QED BY <1>4, <2>1 DEF IInv, Owned, Has
<1>8. Unsent'
  BY <1>1, <1>2, <1>3 DEF IInv, Unsent, Owned, Owns, Owning, TypeOK, w
<1>9. Sent'
  <2>1. ASSUME NEW j \in Keys, j # w
        PROVE  /\ asked'[j] \in {0, 1}
               /\ asked'[j] = 0 => bank'[j] = "none"
               /\ asked'[j] = 1 => Has("debit", j)' /\ status'[j] # "none"
    BY <1>4, <2>1 DEF IInv, Sent, Has
  <2>2. asked'[w] = 1 /\ <<"debit", w>> \in journal' /\ status'[w] # "none"
    BY <1>1, <1>4 DEF Has
  <2>3. ASSUME NEW j \in Keys
        PROVE  /\ asked'[j] \in {0, 1}
               /\ asked'[j] = 0 => bank'[j] = "none"
               /\ asked'[j] = 1 => Has("debit", j)' /\ status'[j] # "none"
    <3>1. CASE j = w
      BY <2>2, <3>1 DEF Has
    <3> QED BY <2>1, <3>1
  <2> QED BY <2>3 DEF Sent
<1>10. Judged'
  \* a handler with a verdict is at work on another withdrawal
  <2>1. bank[w] = "none"
    BY <1>1 DEF IInv, Sent
  <2> QED BY <1>1, <1>2, <1>3, <2>1 DEF IInv, Judged, TypeOK, w
<1> QED BY <1>5, <1>6, <1>7, <1>8, <1>9, <1>10 DEF IInv

\* The provider and the host's bookings go their own way.
LEMMA OutsideSafe ==
    ASSUME IInv, UNCHANGED <<books, asked, unanswered, proc>>, passed' \in Nat,
           \/ UNCHANGED bank
           \/ \E k \in Keys : Settle(k) \/ Return(k)
    PROVE  IInv'
<1>1. /\ bank' \in [Keys -> {"none", "inflight", "completed", "failed", "reversed"}]
      /\ \A k \in Keys : bank'[k] = "none" <=> bank[k] = "none"
  BY DEF IInv, TypeOK, Settle, Return
<1>2. TypeOK'
  BY <1>1 DEF IInv, TypeOK, books
<1>3. Named' /\ Owned' /\ Unsent' /\ Opened'
  BY DEF IInv, Named, Owned, Owns, Unsent, Opened, Has, books
<1>4. Sent'
  BY <1>1 DEF IInv, Sent, Has, books
<1>5. Judged'
  BY <1>1 DEF IInv, Judged, Named
<1> QED BY <1>2, <1>3, <1>4, <1>5 DEF IInv

\* Every step keeps the invariant.
LEMMA StepSafe == IInv /\ [Next]_vars => IInv'
<1> SUFFICES ASSUME IInv, [Next]_vars PROVE IInv'
  OBVIOUS
<1> USE DEF Handlers
<1>1. ASSUME NEW h \in Clerks, NEW k \in Keys, Request(h, k) \/ AutoPayout(h, k)
      PROVE  IInv'
  BY <1>1, RequestSafe, AutoPayoutSafe
<1>2. ASSUME NEW h \in Couriers, NEW k \in Keys,
             Reconcile(h, k) \/ \E v \in Verdicts : Webhook(h, k, v)
      PROVE  IInv'
  BY <1>2, ReconcileSafe, WebhookSafe
<1>3. ASSUME NEW h \in Handlers, ClerkStep(h) PROVE IInv'
  BY <1>3, ReadEarningsSafe, CheckAvailableSafe, WriteDebitSafe,
     OpenPaymentSafe,
     OpenFailsSafe, StartSafe, SkipSafe, SendSafe, CompleteSafe, FailSafe,
     ReverseSafe DEF ClerkStep
<1>4. ASSUME NEW h \in Handlers, CourierStep(h) PROVE IInv'
  BY <1>4, PollSafe, SettleCompletedSafe, CreditBackSafe, MarkSafe, RecordSafe
     DEF CourierStep
<1>5. ASSUME NEW h \in Handlers, GiveUp(h) \/ Abort(h) PROVE IInv'
  BY <1>5, Resting DEF GiveUp, Abort, outside, IInv, TypeOK
<1>6. ASSUME NEW k \in Keys, Settle(k) \/ Return(k) PROVE IInv'
  BY <1>6, OutsideSafe DEF Settle, Return, IInv, TypeOK
<1>7. ASSUME Earn \/ CancelPast PROVE IInv'
  <2>1. passed' \in Nat
    <3>1. Earnings \subseteq Nat /\ 0 \in Nat
      BY PayoutAssumption DEF PayoutAssumption
    <3> QED BY <1>7, <3>1 DEF Earn, CancelPast
  <2>2. UNCHANGED <<books, asked, unanswered, proc>> /\ UNCHANGED bank
    BY <1>7 DEF Earn, CancelPast
  <2> QED BY <2>1, <2>2, OutsideSafe
<1>8. CASE UNCHANGED vars
  BY <1>8, OutsideSafe DEF vars, outside, IInv, TypeOK
<1> QED BY <1>1, <1>2, <1>3, <1>4, <1>5, <1>6, <1>7, <1>8 DEF Next, Serve

------------------------------------------------------------------------------
(* The theorems.                                                           *)

\* The invariant holds throughout.
LEMMA Invariant == Spec => []IInv
BY InitSafe, StepSafe, PTL DEF Spec

\* Every reachable state is well typed.
THEOREM TypeCorrect == Spec => []TypeOK
<1>1. IInv => TypeOK
  BY DEF IInv
<1> QED BY Invariant, <1>1, PTL

\* What the provider was asked to transfer is in the books, wherever a handler was
\* cut off.
THEOREM SentIsInTheBooks == Spec => []DebitedBeforeSent
<1>1. IInv => DebitedBeforeSent
  BY DEF IInv, Sent, TypeOK, DebitedBeforeSent
<1> QED BY Invariant, <1>1, PTL

\* One key, however often it is retried and by however many servers at once, asks
\* for one transfer.
THEOREM PaidOnceAWeek == Spec => []OneTransferPerKey
<1>1. IInv => OneTransferPerKey
  BY DEF IInv, Sent, OneTransferPerKey
<1> QED BY Invariant, <1>1, PTL

------------------------------------------------------------------------------
(* A repeated webhook credits nothing.                                     *)

\* Only a withdrawal that was debited is credited.
Backed == \A k \in Keys, line \in Lines : Has(line, k) => Has("debit", k)

\* One more reversal is one more amount.
LEMMA OneMore ==
    ASSUME NEW a \in Int, NEW c \in Int
    PROVE  a * (c - 1) + a = a * ((c + 1) - 1)
BY SMT

\* A reversal under a new key adds the amount once.
LEMMA CreditAdds ==
    ASSUME IInv, Backed, WebhookCreditsOnce, NEW k \in Keys,
           NEW line \in Lines \ {"debit"}, MayWrite(line, k), Has("debit", k),
           Write(line, k, amount[k]), UNCHANGED amount
    PROVE  Backed' /\ WebhookCreditsOnce'
<1>1. Backed'
  BY DEF Backed, Write, Has
<1>2. ASSUME NEW j \in Keys, j # k
      PROVE  Credits(j)' = Credits(j) /\ written'[j] = written[j]
                /\ (Has("debit", j)' <=> Has("debit", j))
  BY <1>2 DEF Credits, Write, Has, IInv, TypeOK
<1>3. /\ Credits(k)' = Credits(k) \cup {line}
      /\ line \notin Credits(k)
      /\ written'[k] = written[k] + amount[k]
      /\ Has("debit", k)'
  BY DEF Credits, Write, Has, MayWrite, IInv, TypeOK
<1>4. IsFiniteSet(Credits(k)) /\ Cardinality(Credits(k)) \in Nat
  <2>1. IsFiniteSet(Lines)
    <3>1. Lines = ((({} \cup {"debit"}) \cup {"start"}) \cup {"failed"}) \cup {"reversed"}
      BY DEF Lines
    <3> QED BY <3>1, FS_EmptySet, FS_AddElement
  <2> QED BY <2>1, FS_Subset, FS_CardinalityType DEF Credits
<1>5. Cardinality(Credits(k)') = Cardinality(Credits(k)) + 1
  BY <1>3, <1>4, FS_AddElement
<1>6. written'[k] = amount[k] * (Cardinality(Credits(k)') - 1)
  <2> DEFINE c == Cardinality(Credits(k))
  <2>1. c \in Int /\ amount[k] \in Int
    BY <1>4 DEF IInv, TypeOK
  <2>2. written[k] = amount[k] * (c - 1)
    BY DEF WebhookCreditsOnce
  <2> HIDE DEF c
  <2>3. amount[k] * (c - 1) + amount[k] = amount[k] * ((c + 1) - 1)
    BY <2>1, OneMore
  <2> QED BY <1>3, <1>5, <2>2, <2>3 DEF c
<1>7. WebhookCreditsOnce'
  <2>1. ASSUME NEW j \in Keys
        PROVE  (written[j] = amount[j] * (Cardinality(Credits(j))
                                - IF Has("debit", j) THEN 1 ELSE 0))'
    <3>1. CASE j = k
      BY <1>3, <1>6, <3>1
    <3>2. CASE j # k
      BY <1>2, <3>2 DEF WebhookCreditsOnce
    <3> QED BY <3>1, <3>2
  <2> QED BY <2>1 DEF WebhookCreditsOnce
<1> QED BY <1>1, <1>7

\* The debit of a fresh key makes up for its amount.
LEMMA DebitBalances ==
    ASSUME IInv, Backed, WebhookCreditsOnce, NEW h \in Handlers, WriteDebit(h)
    PROVE  Backed' /\ WebhookCreditsOnce'
<1> DEFINE w == proc[h].key
           cents == proc[h].sum
<1>1. w \in Keys /\ cents \in Nat /\ ~Has("debit", w)
  BY DEF IInv, TypeOK, Process, Named, WriteDebit, At, MayWrite
<1>2. /\ journal' = journal \cup {<<"debit", w>>}
      /\ written' = [written EXCEPT ![w] = @ + -cents]
      /\ amount' = [amount EXCEPT ![w] = cents]
  BY DEF WriteDebit, Write
<1> HIDE DEF w, cents
<1>3. Backed'
  BY <1>2 DEF Backed, Has
<1>4. \A j \in Keys : Credits(j)' = Credits(j)
  BY <1>2 DEF Credits, Has
<1>5. Credits(w) = {}
  BY <1>1 DEF Backed, Credits
<1>6. ASSUME NEW j \in Keys
      PROVE  (written[j] = amount[j] * (Cardinality(Credits(j))
                              - IF Has("debit", j) THEN 1 ELSE 0))'
  <2>1. CASE j = w
    <3>1. Cardinality(Credits(j)) = 0 /\ Cardinality(Credits(j)') = 0
      BY <1>4, <1>5, <2>1, FS_EmptySet
    <3>2. amount[j] \in Nat /\ written[j] = amount[j] * (0 - 0)
      BY <1>1, <2>1, <3>1 DEF WebhookCreditsOnce, IInv, TypeOK
    <3>3. written[j] = 0
      BY <3>2, SMT
    <3>4. written'[j] = -cents /\ amount'[j] = cents /\ Has("debit", j)'
      BY <1>1, <1>2, <2>1, <3>3 DEF IInv, TypeOK, Has
    <3>5. -cents = cents * (0 - 1)
      BY <1>1, SMT
    <3> QED BY <3>1, <3>4, <3>5
  <2>2. CASE j # w
    <3>1. /\ written'[j] = written[j] /\ amount'[j] = amount[j]
          /\ Has("debit", j)' <=> Has("debit", j)
      BY <1>2, <2>2 DEF IInv, TypeOK, Has
    <3> QED BY <1>4, <3>1 DEF WebhookCreditsOnce
  <2> QED BY <2>1, <2>2
<1> QED BY <1>3, <1>6 DEF WebhookCreditsOnce

\* However often and however late webhooks come, each reversal is credited once.
THEOREM ReversedOncePerKey == Spec => []WebhookCreditsOnce
<1>1. Init => Backed /\ WebhookCreditsOnce
  <2> SUFFICES ASSUME Init PROVE Backed /\ WebhookCreditsOnce
    OBVIOUS
  <2>1. Backed
    BY DEF Init, Backed, Has
  <2>2. \A k \in Keys : Credits(k) = {} /\ ~Has("debit", k)
    BY DEF Init, Credits, Has
  <2>3. Cardinality({}) = 0
    BY FS_EmptySet
  <2> QED BY <2>1, <2>2, <2>3 DEF Init, WebhookCreditsOnce
<1>2. ASSUME IInv, Backed, WebhookCreditsOnce, [Next]_vars
      PROVE  Backed' /\ WebhookCreditsOnce'
  <2>1. ASSUME NEW h \in Handlers, WriteDebit(h)
        PROVE  Backed' /\ WebhookCreditsOnce'
    BY <1>2, <2>1, DebitBalances
  <2>2. ASSUME NEW h \in Handlers, Reverse(h)
        PROVE  Backed' /\ WebhookCreditsOnce'
    <3> DEFINE w == proc[h].key
    <3>1. w \in Keys /\ Has("debit", w)
      BY <1>2, <2>2 DEF Reverse, At, IInv, Named, Owned, Owns, Owning
    <3>2. MayWrite("start", w) /\ Write("start", w, amount[w]) /\ UNCHANGED amount
      BY <2>2 DEF Reverse
    <3> HIDE DEF w
    <3> QED BY <1>2, <3>1, <3>2, CreditAdds DEF Lines
  <2>3. ASSUME NEW h \in Handlers, CreditBack(h)
        PROVE  Backed' /\ WebhookCreditsOnce'
    <3> DEFINE w == proc[h].key
               v == proc[h].verdict
    <3>1. w \in Keys /\ v \in Verdicts /\ bank[w] # "none" /\ v # "completed"
      BY <1>2, <2>3 DEF CreditBack, At, IInv, Named, Judged
    <3>2. Has("debit", w)
      BY <1>2, <3>1 DEF IInv, Sent
    <3>3. MayWrite(v, w) /\ Write(v, w, amount[w]) /\ UNCHANGED amount
      BY <2>3 DEF CreditBack
    <3>4. v \in Lines \ {"debit"}
      BY <3>1 DEF Verdicts, Lines
    <3> HIDE DEF w, v
    <3> QED BY <1>2, <3>1, <3>2, <3>3, <3>4, CreditAdds
  <2>4. ASSUME UNCHANGED <<amount, journal, written>>
        PROVE  Backed' /\ WebhookCreditsOnce'
    <3>1. \A k \in Keys : Credits(k)' = Credits(k)
      BY <2>4 DEF Credits, Has
    <3> QED BY <1>2, <2>4, <3>1 DEF Backed, WebhookCreditsOnce, Has
  <2>5. \/ UNCHANGED <<amount, journal, written>>
        \/ \E h \in Handlers : WriteDebit(h) \/ Reverse(h) \/ CreditBack(h)
    BY <1>2 DEF Next, Request, AutoPayout, Reconcile, Webhook, Serve, ClerkStep,
       CourierStep, ReadEarnings, CheckAvailable, OpenPayment, OpenFails, Start,
       Skip, Send, Complete, Fail, Poll, SettleCompleted, Mark, Record, GiveUp,
       Abort, Settle, Return, Earn, CancelPast, vars, books
  <2> QED BY <2>1, <2>2, <2>3, <2>4, <2>5
<1> QED BY <1>1, <1>2, Invariant, PTL DEF Spec

------------------------------------------------------------------------------
(* Money with the bank is counted, but for transfers whose reply was lost. *)
(* A handler that marks any other payment failed or reversed knows what    *)
(* the bank has done: the verdict it carries is final, and a refused       *)
(* transfer is never sent again.                                           *)

\* A verdict that takes the money back is what the bank has done.
Followed ==
    \A h \in Handlers :
        proc[h].pc \in {"settling", "marking"} /\ proc[h].verdict # "completed"
            => bank[proc[h].key] = proc[h].verdict

\* A request fails when its transfer has, or when it never heard of it.
Unpaid ==
    \A h \in Handlers :
        proc[h].pc = "failing" /\ proc[h].key \notin unanswered
            => bank[proc[h].key] \notin {"inflight", "completed"}

Counting == PaidMoneyIsCounted /\ Followed /\ Unpaid

\* A step that leaves payments and transfers alone and takes up nothing that
\* could fail a payment.
LEMMA QuietCounts ==
    ASSUME IInv, Counting, NEW h \in Handlers, UNCHANGED <<status, bank, unanswered>>,
           \A g \in Handlers : g # h => proc'[g] = proc[g],
           \/ proc'[h].pc \notin {"settling", "marking", "failing"}
           \/ /\ proc'[h].pc \in {"settling", "marking"}
              /\ proc'[h].verdict # "completed" => bank[proc'[h].key] = proc'[h].verdict
    PROVE  Counting'
<1>1. PaidMoneyIsCounted'
  BY DEF Counting, PaidMoneyIsCounted
<1>2. Followed'
  BY DEF Counting, Followed
<1>3. Unpaid'
  BY DEF Counting, Unpaid
<1> QED BY <1>1, <1>2, <1>3 DEF Counting

\* A step of an owner or a courier that sets its payment's status.
LEMMA MarkingCounts ==
    ASSUME IInv, Counting, NEW h \in Handlers, NEW s, UNCHANGED <<bank, unanswered>>,
           \A g \in Handlers : g # h => proc'[g] = proc[g],
           status' = [status EXCEPT ![proc[h].key] = s],
           proc'[h].pc \notin {"settling", "marking", "failing"},
           proc[h].key \notin unanswered
               => (bank[proc[h].key] \in {"inflight", "completed"} => s \in Counted)
    PROVE  Counting'
<1>1. PaidMoneyIsCounted'
  BY DEF Counting, PaidMoneyIsCounted, IInv, TypeOK
<1>2. Followed'
  BY DEF Counting, Followed
<1>3. Unpaid'
  BY DEF Counting, Unpaid
<1> QED BY <1>1, <1>2, <1>3 DEF Counting

\* Sending: the payment counts, and no other handler is at work on the transfer.
LEMMA SendCounts ==
    ASSUME IInv, Counting,
           NEW h \in Handlers, NEW r \in Replies, Send(h, r)
    PROVE  Counting'
<1> DEFINE w == proc[h].key
<1>1. /\ TypeOK /\ w \in Keys /\ proc[h].pc = "sending"
      /\ status[w] \in Counted /\ bank[w] = "none"
  BY DEF IInv, Named, Unsent, Opened, Sent, Send, At, Counted
<1>2. /\ \A g \in Handlers : g # h => proc'[g] = proc[g]
      /\ proc'[h].pc \in {"idle", "completing", "failing"}
      /\ proc'[h].pc = "failing"
            => r \in {"declined", "refused", "lost"} /\ proc'[h].key = w
  <2>1. r \in AllReplies
    BY PayoutAssumption DEF PayoutAssumption
  <2>2. CASE AfterSend(r) = "idle"
    BY <1>1, <2>2, IdleIsProcess, BecomeMoves DEF Send
  <2>3. CASE AfterSend(r) # "idle"
    <3>1. /\ AfterSend(r) \in {"completing", "failing"}
          /\ AfterSend(r) = "failing" => r \in {"declined", "refused", "lost"}
      BY <2>1, <2>3 DEF AfterSend, AllReplies
    <3>2. Go(h, AfterSend(r))
      BY <2>3 DEF Send
    <3> QED BY <1>1, <3>1, <3>2, GoMoves DEF ClerkSteps
  <2> QED BY <2>2, <2>3
<1>3. /\ bank'[w] = BankAfter(r)
      /\ r \in {"declined", "refused"} => BankAfter(r) \in {"none", "failed"}
      /\ r = "lost" => w \in unanswered'
      /\ unanswered \subseteq unanswered'
      /\ \A j \in Keys : j # w => bank'[j] = bank[j]
      /\ UNCHANGED status
  BY <1>1 DEF Send, BankAfter, TypeOK, books
<1>4. \A g \in Handlers :
         /\ proc[g].pc \in {"settling", "marking"} => proc[g].key # w
         /\ proc[g].pc = "failing" /\ g # h => proc[g].key # w
  BY <1>1 DEF IInv, Judged, Owned, Owns, Owning
<1> HIDE DEF w
<1>5. PaidMoneyIsCounted'
  BY <1>1, <1>3 DEF Counting, PaidMoneyIsCounted
<1>6. Followed'
  <2>1. ASSUME NEW g \in Handlers, proc'[g].pc \in {"settling", "marking"},
               proc'[g].verdict # "completed"
        PROVE  bank'[proc'[g].key] = proc'[g].verdict
    <3>1. g # h /\ proc'[g] = proc[g]
      BY <1>2, <2>1
    <3>2. proc[g].key \in Keys /\ proc[g].key # w
      BY <1>4, <2>1, <3>1 DEF IInv, Named
    <3> QED BY <1>3, <2>1, <3>1, <3>2 DEF Counting, Followed
  <2> QED BY <2>1 DEF Followed
<1>7. Unpaid'
  <2>1. ASSUME NEW g \in Handlers, proc'[g].pc = "failing",
               proc'[g].key \notin unanswered'
        PROVE  bank'[proc'[g].key] \notin {"inflight", "completed"}
    <3>1. CASE g = h
      BY <1>2, <1>3, <2>1, <3>1
    <3>2. CASE g # h
      <4>1. proc'[g] = proc[g] /\ proc[g].key \in Keys /\ proc[g].key # w
        BY <1>2, <1>4, <2>1, <3>2 DEF IInv, Named
      <4> QED BY <1>3, <2>1, <4>1 DEF Counting, Unpaid
    <3> QED BY <3>1, <3>2
  <2> QED BY <2>1 DEF Unpaid
<1> QED BY <1>5, <1>6, <1>7 DEF Counting

\* The provider finishes and returns only what it has not failed.
LEMMA OutsideCounts ==
    ASSUME IInv, Counting, UNCHANGED <<status, unanswered, proc>>,
           \/ UNCHANGED bank
           \/ \E k \in Keys : Settle(k) \/ Return(k)
    PROVE  Counting'
<1>1. CASE UNCHANGED bank
  BY <1>1 DEF Counting, PaidMoneyIsCounted, Followed, Unpaid
<1>2. ASSUME NEW k \in Keys, Settle(k) \/ Return(k) PROVE Counting'
  <2>1. /\ bank[k] \in {"inflight", "completed"}
        /\ bank[k] = "completed" => bank'[k] = "reversed"
        /\ \A j \in Keys : j # k => bank'[j] = bank[j]
    BY <1>2 DEF Settle, Return, IInv, TypeOK
  <2>2. PaidMoneyIsCounted'
    BY <2>1 DEF Counting, PaidMoneyIsCounted
  <2>3. Followed'
    <3>1. ASSUME NEW g \in Handlers, proc[g].pc \in {"settling", "marking"},
                 proc[g].verdict # "completed"
          PROVE  proc[g].key \in Keys \ {k}
      BY <2>1, <3>1 DEF IInv, Named, Judged, Counting, Followed, Verdicts
    <3> QED BY <2>1, <3>1 DEF Counting, Followed
  <2>4. Unpaid'
    <3>1. ASSUME NEW g \in Handlers, proc[g].pc = "failing",
                 proc[g].key \notin unanswered
          PROVE  proc[g].key \in Keys \ {k}
      BY <2>1, <3>1 DEF IInv, Named, Counting, Unpaid
    <3> QED BY <2>1, <3>1 DEF Counting, Unpaid
  <2> QED BY <2>2, <2>3, <2>4 DEF Counting
<1> QED BY <1>1, <1>2

\* Every step keeps the count.
LEMMA StepCounts ==
    ASSUME IInv, Counting, [Next]_vars
    PROVE  Counting'
<1>1. ASSUME NEW h \in Clerks, NEW k \in Keys, Request(h, k) \/ AutoPayout(h, k)
      PROVE  Counting'
  <2>1. /\ proc'[h].pc = "requested"
        /\ \A g \in Handlers : g # h => proc'[g] = proc[g]
        /\ UNCHANGED <<status, bank, unanswered>>
    BY <1>1 DEF Request, AutoPayout, Become, Idle, IInv, TypeOK, Handlers,
       books, outside
  <2> QED BY <2>1, QuietCounts DEF Handlers
<1>2. ASSUME NEW h \in Couriers, NEW k \in Keys, Reconcile(h, k) PROVE Counting'
  <2>1. /\ proc'[h].pc = "polling"
        /\ \A g \in Handlers : g # h => proc'[g] = proc[g]
        /\ UNCHANGED <<status, bank, unanswered>>
    BY <1>2 DEF Reconcile, Become, Idle, IInv, TypeOK, Handlers, books, outside
  <2> QED BY <2>1, QuietCounts DEF Handlers
<1>3. ASSUME NEW h \in Couriers, NEW k \in Keys, NEW v \in Verdicts, Webhook(h, k, v)
      PROVE  Counting'
  <2>1. /\ proc'[h].pc = "settling" /\ proc'[h].key = k /\ proc'[h].verdict = v
        /\ \A g \in Handlers : g # h => proc'[g] = proc[g]
        /\ UNCHANGED <<status, bank, unanswered>>
    BY <1>3 DEF Webhook, Become, Idle, IInv, TypeOK, Handlers, books, outside
  <2>2. v # "completed" => bank[k] = v
    BY <1>3 DEF Webhook, Announced
  <2> QED BY <2>1, <2>2, QuietCounts DEF Handlers
<1>4. ASSUME NEW h \in Handlers, Poll(h) PROVE Counting'
  <2> DEFINE w == proc[h].key
  <2>1. /\ proc'[h].pc = "settling" /\ proc'[h].key = w
        /\ proc'[h].verdict = bank[w]
        /\ \A g \in Handlers : g # h => proc'[g] = proc[g]
        /\ UNCHANGED <<status, bank, unanswered>>
    BY <1>4 DEF Poll, Become, IInv, TypeOK, Process, books, outside
  <2> HIDE DEF w
  <2> QED BY <2>1, QuietCounts
<1>5. ASSUME NEW h \in Handlers,
             ReadEarnings(h) \/ CheckAvailable(h) \/ WriteDebit(h) \/ OpenFails(h)
               \/ Skip(h) \/ Reverse(h) \/ Record(h) \/ GiveUp(h) \/ Abort(h)
      PROVE  Counting'
  <2>1. /\ proc'[h].pc \in {"checking", "debiting", "opening", "reversing", "sending", "idle"}
        /\ \A g \in Handlers : g # h => proc'[g] = proc[g]
        /\ UNCHANGED <<status, bank, unanswered>>
    <3>1. CASE ReadEarnings(h)
      BY <3>1 DEF ReadEarnings, Become, IInv, TypeOK, Process, books, outside
    <3>2. CASE CheckAvailable(h) \/ WriteDebit(h) \/ OpenFails(h) \/ Skip(h)
      BY <3>2 DEF CheckAvailable, WriteDebit, OpenFails, Skip, Go, Become, IInv,
         TypeOK, Process, books, outside
    <3>3. CASE Reverse(h) \/ Record(h) \/ GiveUp(h) \/ Abort(h)
      BY <3>3, IdleIsProcess DEF Reverse, Record, GiveUp, Abort, Become, IInv,
         TypeOK, books, outside
    <3> QED BY <1>5, <3>1, <3>2, <3>3
  <2> QED BY <2>1, QuietCounts
<1>6. ASSUME NEW h \in Handlers, CreditBack(h) PROVE Counting'
  <2>1. /\ proc'[h].pc = "marking" /\ proc'[h].key = proc[h].key
        /\ proc'[h].verdict = proc[h].verdict
        /\ \A g \in Handlers : g # h => proc'[g] = proc[g]
        /\ UNCHANGED <<status, bank, unanswered>>
    BY <1>6 DEF CreditBack, Go, Become, IInv, TypeOK, Process, outside
  <2>2. proc[h].verdict # "completed" => bank[proc[h].key] = proc[h].verdict
    BY <1>6 DEF CreditBack, At, Counting, Followed
  <2> QED BY <2>1, <2>2, QuietCounts
<1>7. ASSUME NEW h \in Handlers,
             OpenPayment(h) \/ Start(h) \/ Complete(h) \/ SettleCompleted(h)
      PROVE  Counting'
  <2>1. /\ proc'[h].pc \in {"starting", "sending", "idle", "recording"}
        /\ \A g \in Handlers : g # h => proc'[g] = proc[g]
        /\ UNCHANGED <<bank, unanswered>>
    <3>1. CASE OpenPayment(h) \/ Start(h) \/ SettleCompleted(h)
      BY <3>1 DEF OpenPayment, Start, SettleCompleted, Go, Become, IInv, TypeOK,
         Process, outside
    <3>2. CASE Complete(h)
      BY <3>2, IdleIsProcess DEF Complete, Become, IInv, TypeOK, outside
    <3> QED BY <1>7, <3>1, <3>2
  <2>2. PICK s \in Counted : status' = [status EXCEPT ![proc[h].key] = s]
    BY <1>7 DEF OpenPayment, Start, Complete, SettleCompleted, Counted
  <2> QED BY <2>1, <2>2, MarkingCounts
<1>8. ASSUME NEW h \in Handlers, Fail(h) PROVE Counting'
  <2>1. /\ proc'[h].pc = "reversing"
        /\ \A g \in Handlers : g # h => proc'[g] = proc[g]
        /\ UNCHANGED <<bank, unanswered>>
        /\ status' = [status EXCEPT ![proc[h].key] = "failed"]
    BY <1>8 DEF Fail, Go, Become, IInv, TypeOK, Process, outside
  <2>2. proc[h].key \notin unanswered
          => bank[proc[h].key] \notin {"inflight", "completed"}
    BY <1>8 DEF Fail, At, Counting, Unpaid
  <2> QED BY <2>1, <2>2, MarkingCounts
<1>9. ASSUME NEW h \in Handlers, Mark(h) PROVE Counting'
  <2> DEFINE v == proc[h].verdict
  <2>1. /\ proc'[h].pc = "recording"
        /\ \A g \in Handlers : g # h => proc'[g] = proc[g]
        /\ UNCHANGED <<bank, unanswered>>
        /\ status' = [status EXCEPT ![proc[h].key] = v]
    BY <1>9 DEF Mark, Go, Become, IInv, TypeOK, Process, outside
  <2>2. bank[proc[h].key] \in {"inflight", "completed"} => v \in Counted
    BY <1>9 DEF Mark, At, Counting, Followed, IInv, Judged, Verdicts, Counted
  <2> HIDE DEF v
  <2> QED BY <2>1, <2>2, MarkingCounts
<1>10. ASSUME NEW k \in Keys, Settle(k) \/ Return(k) PROVE Counting'
  BY <1>10, OutsideCounts DEF Settle, Return, books
<1>11. ASSUME Earn \/ CancelPast \/ UNCHANGED vars PROVE Counting'
  BY <1>11, OutsideCounts DEF Earn, CancelPast, vars, books, outside
<1>12. ASSUME NEW h \in Handlers, NEW r \in Replies, Send(h, r) PROVE Counting'
  BY <1>12, SendCounts
<1> QED
  BY <1>1, <1>2, <1>3, <1>4, <1>5, <1>6, <1>7, <1>8, <1>9, <1>10, <1>11, <1>12
     DEF Next, Serve, ClerkStep, CourierStep

\* Money that is with the bank is counted against the balance, whatever comes
\* late, twice or not at all, unless its own reply was lost.
THEOREM PaidMoneyStaysCounted == Spec => []PaidMoneyIsCounted
<1>1. Init => Counting
  BY DEF Init, Idle, Counting, PaidMoneyIsCounted, Followed, Unpaid
<1>2. IInv /\ Counting /\ [Next]_vars => Counting'
  BY StepCounts
<1>3. Counting => PaidMoneyIsCounted
  BY DEF Counting
<1> QED BY <1>1, <1>2, <1>3, Invariant, PTL DEF Spec

------------------------------------------------------------------------------
(* No overdraft, of one request at a time and earnings that stay earned.   *)
(* The check of step 3b is made on what was read before; what makes it     *)
(* good until the transfer is sent is that nobody else sends in between,   *)
(* so the invariant carries what the request in progress may still add.    *)

OneAtATime == \A c, d \in Clerks : c = d

\* Transfers that are with the bank or with the host, and were heard of.
Held    == {k \in Keys \ unanswered : bank[k] \in {"inflight", "completed"}}
HeldSum == SumFunctionOnSet(amount, Held)

\* What a request that passed its check is about to send.
Claim(h) ==
    IF proc[h].pc = "debiting" THEN proc[h].sum
    ELSE IF proc[h].pc \in {"opening", "starting", "sending"} THEN amount[proc[h].key]
    ELSE 0

ReadIsEarned ==
    \A h \in Handlers : proc[h].pc = "checking" => proc[h].seen <= passed

CouriersOnlySettle == \A h \in Couriers : proc[h].pc \notin ClerkSteps

Room == /\ HeldSum <= passed
        /\ \A h \in Handlers : HeldSum + Claim(h) <= passed
        /\ ReadIsEarned
        /\ CouriersOnlySettle

LEMMA HeldNat ==
    ASSUME IsFiniteSet(Keys), TypeOK
    PROVE  IsFiniteSet(Held) /\ HeldSum \in Nat
<1>1. IsFiniteSet(Held) /\ \A k \in Held : amount[k] \in Nat
  BY FS_Subset DEF Held, TypeOK
<1> QED BY <1>1, SumNat DEF HeldSum

LEMMA ClaimNat ==
    ASSUME TypeOK, Named, NEW h \in Handlers
    PROVE  Claim(h) \in Nat
<1>1. proc[h] \in Process
  BY DEF TypeOK
<1>2. proc[h].sum \in Nat
  BY <1>1 DEF Process
<1>3. proc[h].pc \in {"opening", "starting", "sending"} => amount[proc[h].key] \in Nat
  BY DEF Named, TypeOK
<1> QED BY <1>2, <1>3 DEF Claim

\* What is counted contains what is held.
LEMMA HeldIsCounted ==
    ASSUME IsFiniteSet(Keys), TypeOK, PaidMoneyIsCounted
    PROVE  Active \in Nat /\ HeldSum <= Active
<1> DEFINE counted == {k \in Keys : status[k] \in Counted}
<1>1. /\ Held \in SUBSET counted /\ IsFiniteSet(counted)
      /\ \A k \in counted : amount[k] \in Nat
  BY FS_Subset DEF Held, PaidMoneyIsCounted, TypeOK
<1>2. Active = SumFunctionOnSet(amount, counted)
  BY DEF Active, SumOf
<1> HIDE DEF counted
<1> QED BY <1>1, <1>2, SumNat, SumSubset DEF HeldSum

\* A transfer that ends, or a debit that is not yet sent, holds nothing more.
LEMMA HeldShrinks ==
    ASSUME IsFiniteSet(Keys), TypeOK, TypeOK', Held' \subseteq Held,
           \A k \in Held' : amount'[k] = amount[k]
    PROVE  HeldSum' <= HeldSum
<1>1. IsFiniteSet(Held) /\ IsFiniteSet(Held') /\ \A k \in Held : amount[k] \in Nat
  BY HeldNat, FS_Subset DEF Held, TypeOK
<1>2. SumFunctionOnSet(amount', Held') = SumFunctionOnSet(amount, Held')
  BY <1>1, SumSame
<1>3. SumFunctionOnSet(amount, Held') <= SumFunctionOnSet(amount, Held)
  BY <1>1, SumSubset
<1> QED BY <1>2, <1>3 DEF HeldSum

\* A step that sends nothing and raises no claim.
LEMMA Calm ==
    ASSUME IsFiniteSet(Keys), IInv, IInv', Room, passed <= passed',
           Held' \subseteq Held, \A k \in Held' : amount'[k] = amount[k],
           \A g \in Handlers : Claim(g)' <= Claim(g),
           ReadIsEarned', CouriersOnlySettle'
    PROVE  Room'
<1>1. HeldSum' <= HeldSum /\ HeldSum \in Nat /\ HeldSum' \in Nat
  <2>1. HeldSum' \in Nat
    BY FS_Subset, HeldNat, SumNat DEF IInv, Held, TypeOK, HeldSum
  <2> QED BY <2>1, HeldShrinks, HeldNat DEF IInv
<1>2. passed \in Nat /\ passed' \in Nat
  BY DEF IInv, TypeOK
<1>3. ASSUME NEW g \in Handlers PROVE HeldSum' + Claim(g)' <= passed'
  <2>1. Claim(g) \in Nat
    BY ClaimNat DEF IInv
  <2>2. Claim(g)' \in Nat
    <3>1. proc'[g].sum \in Nat
      BY DEF IInv, TypeOK, Process
    <3>2. proc'[g].pc \in {"opening", "starting", "sending"} => amount'[proc'[g].key] \in Nat
      BY DEF IInv, Named, TypeOK
    <3> QED BY <3>1, <3>2 DEF Claim
  <2>3. HeldSum + Claim(g) <= passed /\ Claim(g)' <= Claim(g)
    BY DEF Room
  <2> QED BY <1>1, <1>2, <2>1, <2>2, <2>3
<1>4. HeldSum' <= passed'
  BY <1>1, <1>2 DEF Room
<1> QED BY <1>3, <1>4 DEF Room

\* One handler moves on, to where it claims no more than before.
LEMMA CalmMove ==
    ASSUME IsFiniteSet(Keys), IInv, IInv', Room, NEW h \in Handlers,
           \A g \in Handlers : g # h => proc'[g] = proc[g],
           UNCHANGED <<passed, bank, unanswered, amount>>,
           Claim(h)' <= Claim(h),
           proc'[h].pc = "checking" => proc'[h].seen <= passed,
           h \in Couriers => proc'[h].pc \notin ClerkSteps
    PROVE  Room'
<1>1. Held' = Held
  BY DEF Held
<1>2. passed <= passed'
  BY DEF IInv, TypeOK
<1>3. \A g \in Handlers : Claim(g)' <= Claim(g)
  <2> SUFFICES ASSUME NEW g \in Handlers, g # h PROVE Claim(g)' <= Claim(g)
    OBVIOUS
  <2>1. Claim(g)' = Claim(g) /\ Claim(g) \in Nat
    BY ClaimNat DEF Claim, IInv
  <2> QED BY <2>1
<1>4. ReadIsEarned'
  BY DEF Room, ReadIsEarned
<1>5. CouriersOnlySettle'
  BY DEF Room, CouriersOnlySettle, Handlers
<1> QED BY <1>1, <1>2, <1>3, <1>4, <1>5, Calm

\* The only request in progress.
LEMMA OtherClaims ==
    ASSUME OneAtATime, Room, NEW h \in Clerks, NEW g \in Handlers, g # h
    PROVE  Claim(g) = 0 /\ proc[g].pc \notin ClerkSteps
<1>1. g \in Couriers
  BY DEF OneAtATime, Handlers
<1>2. proc[g].pc \notin ClerkSteps
  BY <1>1 DEF Room, CouriersOnlySettle
<1> QED BY <1>2 DEF Claim, ClerkSteps

\* A handler on a clerk's step is a clerk.
LEMMA ClerksServe ==
    ASSUME Room, NEW h \in Handlers, proc[h].pc \in ClerkSteps
    PROVE  h \in Clerks
BY DEF Room, CouriersOnlySettle, Handlers

\* The check leaves room for what it lets through.
LEMMA CheckAvailableRoom ==
    ASSUME IsFiniteSet(Keys), OneAtATime, IInv, IInv', PaidMoneyIsCounted, Room,
           NEW h \in Handlers, CheckAvailable(h)
    PROVE  Room'
<1>1. /\ h \in Clerks /\ proc[h].pc = "checking" /\ proc[h].seen <= passed
      /\ proc[h] \in Process /\ passed \in Nat
  BY ClerksServe DEF CheckAvailable, At, ClerkSteps, Room, ReadIsEarned, IInv, TypeOK
<1>2. /\ proc'[h].pc = "debiting" /\ proc'[h].sum = proc[h].sum
      /\ \A g \in Handlers : g # h => proc'[g] = proc[g]
  BY GoMoves DEF CheckAvailable, ClerkSteps, IInv
<1>3. /\ UNCHANGED <<passed, bank, unanswered, amount>>
      /\ proc[h].sum <= proc[h].seen - Active
  BY DEF CheckAvailable, Affords, books, outside
<1>4. Held' = Held /\ HeldSum' = HeldSum
  BY <1>3 DEF Held, HeldSum
<1>5. Active \in Nat /\ HeldSum <= Active /\ HeldSum \in Nat
  BY HeldIsCounted, HeldNat DEF IInv
<1>6. proc[h].sum \in Nat /\ proc[h].seen \in Nat
  BY <1>1 DEF Process
<1>7. Claim(h)' = proc[h].sum
  BY <1>2 DEF Claim
<1>8. HeldSum + Claim(h)' <= passed
  BY <1>1, <1>3, <1>5, <1>6, <1>7
<1>9. ASSUME NEW g \in Handlers PROVE HeldSum' + Claim(g)' <= passed'
  <2>1. CASE g = h
    BY <1>3, <1>4, <1>8, <2>1
  <2>2. CASE g # h
    <3>1. Claim(g)' = Claim(g)
      BY <1>2, <1>3, <2>2 DEF Claim
    <3> QED BY <1>3, <1>4, <3>1 DEF Room
  <2> QED BY <2>1, <2>2
<1>10. ReadIsEarned'
  BY <1>2, <1>3 DEF Room, ReadIsEarned
<1>11. CouriersOnlySettle'
  BY <1>1, <1>2, PayoutAssumption DEF Room, CouriersOnlySettle, Handlers, PayoutAssumption
<1> QED BY <1>3, <1>4, <1>9, <1>10, <1>11 DEF Room

\* The transfer takes the room its claim has kept.
LEMMA SendRoom ==
    ASSUME IsFiniteSet(Keys), OneAtATime, IInv, IInv', Room,
           NEW h \in Handlers, NEW r \in Replies, Send(h, r)
    PROVE  Room'
<1> DEFINE w == proc[h].key
<1>1. /\ h \in Clerks /\ proc[h].pc = "sending" /\ w \in Keys
      /\ bank[w] = "none" /\ TypeOK /\ passed \in Nat /\ amount[w] \in Nat
  BY ClerksServe DEF Send, At, ClerkSteps, IInv, TypeOK, Named, Unsent, Sent
<1>2. /\ \A g \in Handlers : g # h => proc'[g] = proc[g]
      /\ proc'[h].pc \in {"idle", "completing", "failing"}
  <2>2. CASE AfterSend(r) = "idle"
    BY <1>1, <2>2, IdleIsProcess, BecomeMoves DEF Send
  <2>3. CASE AfterSend(r) # "idle"
    <3>1. AfterSend(r) \in {"completing", "failing"}
      BY PayoutAssumption, <2>3 DEF PayoutAssumption, AfterSend, AllReplies
    <3>2. Go(h, AfterSend(r))
      BY <2>3 DEF Send
    <3> QED BY <1>1, <3>1, <3>2, GoMoves DEF ClerkSteps
  <2> QED BY <2>2, <2>3
<1>3. /\ UNCHANGED <<passed, amount>>
      /\ unanswered' = unanswered \/ unanswered' = unanswered \cup {w}
      /\ \A j \in Keys : j # w => bank'[j] = bank[j]
  BY <1>1 DEF Send, TypeOK, books
<1>4. HeldSum + amount[w] <= passed
  <2>1. Claim(h) = amount[w]
    BY <1>1 DEF Claim
  <2> QED BY <2>1 DEF Room
<1> HIDE DEF w
<1>5. w \notin Held /\ (Held' = Held \/ Held' = Held \cup {w})
  BY <1>1, <1>3 DEF Held
<1>6. IsFiniteSet(Held) /\ HeldSum \in Nat /\ \A k \in Held : amount[k] \in Int
  BY <1>1, HeldNat DEF Held, TypeOK
<1>7. HeldSum' <= passed'
  <2>1. CASE Held' = Held
    <3>1. HeldSum' = HeldSum
      BY <1>3, <2>1 DEF HeldSum
    <3> QED BY <1>1, <1>3, <1>4, <1>6, <3>1
  <2>2. CASE Held' = Held \cup {w}
    <3>1. HeldSum' = SumFunctionOnSet(amount, Held \cup {w})
      BY <1>3, <2>2 DEF HeldSum
    <3>2. HeldSum' = HeldSum + amount[w]
      BY <1>1, <1>5, <1>6, <3>1, SumAdd DEF HeldSum
    <3> QED BY <1>3, <1>4, <3>2
  <2> QED BY <1>5, <2>1, <2>2
<1>8. \A g \in Handlers : Claim(g)' = 0
  <2>1. Claim(h)' = 0
    BY <1>2 DEF Claim
  <2>2. ASSUME NEW g \in Handlers, g # h PROVE Claim(g)' = 0
    <3>1. proc[g].pc \notin ClerkSteps /\ proc'[g] = proc[g]
      BY <1>1, <1>2, <2>2, OtherClaims
    <3> QED BY <3>1 DEF Claim, ClerkSteps
  <2> QED BY <2>1, <2>2
<1>9. HeldSum' \in Int
  <2>1. IsFiniteSet(Held') /\ \A k \in Held' : amount'[k] \in Nat
    BY FS_Subset DEF Held, IInv, TypeOK
  <2> QED BY <2>1, SumNat DEF HeldSum
<1>10. ReadIsEarned'
  BY <1>2, <1>3 DEF Room, ReadIsEarned
<1>11. CouriersOnlySettle'
  BY <1>1, <1>2, PayoutAssumption DEF Room, CouriersOnlySettle, Handlers, PayoutAssumption
<1> QED BY <1>7, <1>8, <1>9, <1>10, <1>11 DEF Room

\* The debit turns the sum that was checked into the one that will be sent.
LEMMA WriteDebitRoom ==
    ASSUME IsFiniteSet(Keys), OneAtATime, IInv, IInv', Room,
           NEW h \in Handlers, WriteDebit(h)
    PROVE  Room'
<1> DEFINE k == proc[h].key
<1>1. /\ h \in Clerks /\ proc[h].pc = "debiting" /\ k \in Keys /\ TypeOK
      /\ passed \in Nat /\ bank[k] = "none"
  BY ClerksServe DEF WriteDebit, At, ClerkSteps, MayWrite, IInv, TypeOK, Named, Sent
<1>2. /\ proc'[h].pc = "opening" /\ proc'[h].key = k
      /\ \A g \in Handlers : g # h => proc'[g] = proc[g]
  BY <1>1, GoMoves DEF WriteDebit, ClerkSteps
<1>3. /\ UNCHANGED <<passed, bank, unanswered>>
      /\ amount' = [amount EXCEPT ![k] = proc[h].sum]
  BY DEF WriteDebit, outside
<1>4. Held' = Held /\ \A j \in Held' : amount'[j] = amount[j]
  BY <1>1, <1>3 DEF Held, TypeOK
<1>5. Claim(h) = proc[h].sum /\ Claim(h)' = proc[h].sum /\ Claim(h) \in Nat
  BY <1>1, <1>2, <1>3, ClaimNat DEF Claim, TypeOK, IInv
<1>6. ASSUME NEW g \in Handlers, g # h PROVE Claim(g) = 0 /\ Claim(g)' = 0
  <2>1. Claim(g) = 0 /\ proc[g].pc \notin ClerkSteps /\ proc'[g] = proc[g]
    BY <1>1, <1>2, <1>6, OtherClaims
  <2> QED BY <2>1 DEF Claim, ClerkSteps
<1>7. \A g \in Handlers : Claim(g)' <= Claim(g)
  BY <1>5, <1>6
<1>8. ReadIsEarned'
  BY <1>2, <1>3 DEF Room, ReadIsEarned
<1>9. CouriersOnlySettle'
  BY <1>1, <1>2, PayoutAssumption DEF Room, CouriersOnlySettle, Handlers, PayoutAssumption
<1> QED BY <1>1, <1>3, <1>4, <1>7, <1>8, <1>9, Calm

\* Every other step of a handler claims nothing new.
LEMMA ServeRoom ==
    ASSUME IsFiniteSet(Keys), OneAtATime, IInv, IInv', PaidMoneyIsCounted, Room,
           NEW h \in Handlers, Serve(h) \/ Abort(h)
    PROVE  Room'
<1>t. /\ TypeOK /\ proc[h] \in Process /\ passed \in Nat /\ Claim(h) \in Nat
      /\ \A p : Become(h, p) => /\ proc'[h] = p
                               /\ \A g \in Handlers : g # h => proc'[g] = proc[g]
  BY ClaimNat DEF IInv, TypeOK, Become
<1>c. h \in Couriers => proc[h].pc \notin ClerkSteps
  BY DEF Room, CouriersOnlySettle
<1>1. CASE ReadEarnings(h)
  <2>1. /\ proc'[h] = [proc[h] EXCEPT !.pc = "checking", !.seen = passed]
        /\ \A g \in Handlers : g # h => proc'[g] = proc[g]
        /\ UNCHANGED <<passed, bank, unanswered, amount>> /\ proc[h].pc = "requested"
    BY <1>1, <1>t DEF ReadEarnings, At, books, outside
  <2>2. proc'[h].pc = "checking" /\ proc'[h].seen = passed
    BY <1>t, <2>1 DEF Process
  <2>3. Claim(h)' = 0
    BY <2>2 DEF Claim
  <2>4. h \notin Couriers /\ Claim(h)' <= Claim(h) /\ proc'[h].seen <= passed
    BY <1>c, <1>t, <2>1, <2>2, <2>3 DEF ClerkSteps
  <2> QED BY <2>1, <2>4, CalmMove
<1>2. CASE OpenPayment(h) \/ Start(h) \/ Skip(h)
  <2>1. PICK pc \in {"starting", "sending", "reversing"} : Go(h, pc)
    BY <1>2 DEF OpenPayment, Start, Skip
  <2>2. /\ proc'[h].pc = pc /\ proc'[h].key = proc[h].key
        /\ \A g \in Handlers : g # h => proc'[g] = proc[g]
    BY <1>t, <2>1, GoMoves DEF ClerkSteps
  <2>3. /\ UNCHANGED <<passed, bank, unanswered, amount>>
        /\ proc[h].pc \in {"opening", "starting", "failing"}
        /\ proc[h].pc = "failing" => pc = "reversing"
    BY <1>2, <1>t, <2>2 DEF OpenPayment, Start, Skip, At, Go, Process, books, outside
  <2>4. Claim(h)' <= Claim(h)
    <3>1. CASE proc[h].pc \in {"opening", "starting"}
      <4>1. Claim(h) = amount[proc[h].key]
        BY <3>1 DEF Claim
      <4>2. Claim(h)' = Claim(h) \/ Claim(h)' = 0
        BY <2>2, <2>3, <4>1 DEF Claim
      <4> QED BY <1>t, <4>2
    <3>2. CASE proc[h].pc = "failing"
      <4>1. Claim(h)' = 0
        BY <2>2, <2>3, <3>2 DEF Claim
      <4> QED BY <1>t, <4>1
    <3> QED BY <2>3, <3>1, <3>2
  <2> QED BY <1>c, <2>2, <2>3, <2>4, CalmMove DEF ClerkSteps
<1>3. CASE \/ OpenFails(h) \/ Complete(h) \/ Fail(h) \/ Reverse(h)
           \/ Poll(h) \/ SettleCompleted(h) \/ CreditBack(h) \/ Mark(h) \/ Record(h)
           \/ GiveUp(h) \/ Abort(h)
  <2>1. /\ \A g \in Handlers : g # h => proc'[g] = proc[g]
        /\ proc'[h].pc \in {"idle", "reversing", "settling", "recording", "marking"}
        /\ proc'[h].pc = "reversing" => proc[h].pc \in ClerkSteps
    <3>1. CASE Complete(h) \/ Reverse(h) \/ Record(h) \/ GiveUp(h) \/ Abort(h)
      BY <1>t, <3>1, IdleIsProcess DEF Complete, Reverse, Record, GiveUp, Abort
    <3>2. CASE OpenFails(h) \/ Fail(h)
      BY <1>t, <3>2, GoMoves DEF OpenFails, Fail, At, ClerkSteps
    <3>3. CASE SettleCompleted(h) \/ CreditBack(h) \/ Mark(h)
      BY <1>t, <3>3, GoMoves DEF SettleCompleted, CreditBack, Mark, CourierSteps
    <3>4. CASE Poll(h)
      BY <1>t, <3>4 DEF Poll, Become, TypeOK, Process
    <3> QED BY <1>3, <3>1, <3>2, <3>3, <3>4
  <2>2. UNCHANGED <<passed, bank, unanswered, amount>>
    BY <1>3 DEF OpenFails, Complete, Fail, Reverse, Poll, SettleCompleted, CreditBack,
       Mark, Record, GiveUp, Abort, books, outside
  <2>3. Claim(h)' = 0
    BY <2>1 DEF Claim
  <2> QED BY <1>c, <1>t, <2>1, <2>2, <2>3, CalmMove DEF ClerkSteps
<1> QED BY <1>1, <1>2, <1>3, CheckAvailableRoom, WriteDebitRoom, SendRoom
        DEF Serve, ClerkStep, CourierStep

\* The rest of Next.
LEMMA OutsideRoom ==
    ASSUME IsFiniteSet(Keys), ~PastRefunds, IInv, IInv', Room, UNCHANGED amount,
           \/ Earn \/ CancelPast \/ UNCHANGED vars
           \/ \E k \in Keys : Settle(k) \/ Return(k)
    PROVE  Room'
<1>1. passed <= passed' /\ UNCHANGED proc
  BY DEF Earn, CancelPast, Settle, Return, vars, outside, IInv, TypeOK
<1>2. Held' \subseteq Held
  BY DEF Held, Earn, CancelPast, Settle, Return, vars, outside, IInv, TypeOK
<1>3. \A g \in Handlers : Claim(g)' <= Claim(g)
  <2> SUFFICES ASSUME NEW g \in Handlers PROVE Claim(g)' <= Claim(g)
    OBVIOUS
  <2>1. Claim(g)' = Claim(g) /\ Claim(g) \in Nat
    BY <1>1, ClaimNat DEF Claim, IInv
  <2> QED BY <2>1
<1>4. CouriersOnlySettle'
  BY <1>1 DEF Room, CouriersOnlySettle
<1>5. ReadIsEarned'
  <2> SUFFICES ASSUME NEW g \in Handlers, proc[g].pc = "checking"
               PROVE  proc[g].seen <= passed'
    BY <1>1 DEF ReadIsEarned
  <2>1. proc[g].seen \in Nat /\ passed \in Nat /\ passed' \in Nat
    BY DEF IInv, TypeOK, Process
  <2> QED BY <1>1, <2>1 DEF Room, ReadIsEarned
<1> QED BY <1>1, <1>2, <1>3, <1>4, <1>5, Calm

LEMMA StepRoom ==
    ASSUME IsFiniteSet(Keys), OneAtATime, ~PastRefunds, IInv, IInv', PaidMoneyIsCounted,
           Room, [Next]_vars
    PROVE  Room'
<1>0. TypeOK
  BY DEF IInv
<1>1. ASSUME NEW h \in Clerks, NEW k \in Keys, Request(h, k) \/ AutoPayout(h, k)
      PROVE  Room'
  <2>1. h \in Handlers /\ h \notin Couriers
    BY PayoutAssumption DEF PayoutAssumption, Handlers
  <2>2. /\ proc'[h].pc = "requested"
        /\ \A g \in Handlers : g # h => proc'[g] = proc[g]
        /\ UNCHANGED <<passed, bank, unanswered, amount>>
    BY <1>0, <1>1, <2>1 DEF Request, AutoPayout, Become, Idle, TypeOK, books, outside
  <2>3. Claim(h)' = 0 /\ Claim(h) \in Nat
    BY <2>1, <2>2, ClaimNat DEF Claim, IInv
  <2> QED BY <2>1, <2>2, <2>3, CalmMove
<1>2. ASSUME NEW h \in Couriers, NEW k \in Keys,
             Reconcile(h, k) \/ \E v \in Verdicts : Webhook(h, k, v)
      PROVE  Room'
  <2>1. h \in Handlers
    BY DEF Handlers
  <2>2. /\ proc'[h].pc \in {"polling", "settling"}
        /\ \A g \in Handlers : g # h => proc'[g] = proc[g]
        /\ UNCHANGED <<passed, bank, unanswered, amount>>
    BY <1>0, <1>2, <2>1 DEF Reconcile, Webhook, Become, Idle, TypeOK, books, outside
  <2>3. Claim(h)' = 0 /\ Claim(h) \in Nat
    BY <2>1, <2>2, ClaimNat DEF Claim, IInv
  <2> QED BY <2>1, <2>2, <2>3, CalmMove DEF ClerkSteps
<1>3. CASE \E k \in Keys : Settle(k) \/ Return(k)
  BY <1>3, OutsideRoom DEF Settle, Return, books
<1>4. CASE Earn \/ CancelPast \/ UNCHANGED vars
  BY <1>4, OutsideRoom DEF Earn, CancelPast, vars, books
<1> QED BY <1>1, <1>2, <1>3, <1>4, ServeRoom DEF Next

\* If requests are served one at a time and no earning is taken back, the host
\* never holds, or is on the way to hold, more than has been earned, but for
\* transfers whose reply was lost: not by retries, by the weekly run, by
\* interruptions, or by webhooks that come late, twice or never.
THEOREM NeverOverdrawn ==
    ASSUME IsFiniteSet(Keys), OneAtATime, ~PastRefunds
    PROVE  Spec => []NoOverdraft
<1>1. Init => Counting
  BY DEF Init, Idle, Counting, PaidMoneyIsCounted, Followed, Unpaid
<1>2. Init => Room
  <2> SUFFICES ASSUME Init PROVE Room
    OBVIOUS
  <2>1. Held = {} /\ passed = 0
    BY DEF Init, Held
  <2>2. HeldSum = 0
    BY <2>1, SumEmpty DEF HeldSum
  <2>3. \A h \in Handlers : proc[h].pc = "idle" /\ Claim(h) = 0
    BY DEF Init, Idle, Claim
  <2>4. ReadIsEarned /\ CouriersOnlySettle
    BY <2>3 DEF ReadIsEarned, CouriersOnlySettle, ClerkSteps, Handlers
  <2> QED BY <2>1, <2>2, <2>3, <2>4 DEF Room
<1>3. IInv /\ IInv' /\ Counting /\ [Next]_vars => Counting'
  BY StepCounts
<1>4. IInv /\ IInv' /\ Counting /\ Room /\ [Next]_vars => Room'
  BY StepRoom DEF Counting
<1>5. Room => NoOverdraft
  BY DEF Room, NoOverdraft, SumOf, HeldSum, Held
<1> QED BY <1>1, <1>2, <1>3, <1>4, <1>5, Invariant, PTL DEF Spec

==============================================================================
