----------------------------- MODULE TopUpProofs -----------------------------
(***************************************************************************)
(* What TLAPS proves about top-ups and refunds to the card, for any number *)
(* of them and of handlers at work on them, cut off anywhere, and any      *)
(* amounts.                                                                *)
(***************************************************************************)
EXTENDS TopUp, Sums

------------------------------------------------------------------------------
(* The inductive invariant.  A top-up is credited by whoever reserved it,  *)
(* and a refund is sent by whoever opened its row; everyone else who       *)
(* touches them finds the reservation, or the row, already there.          *)

\* A handler at work is at work on a payment of the right kind.
Named ==
    \A h \in Handlers :
        /\ proc[h].pc \in TopupSteps => proc[h].of \in Topups
        /\ proc[h].pc \in RefundSteps => proc[h].of \in Refunds

\* The handler that credits a top-up reserved it, nobody else did, and nothing
\* has been credited yet.
Reserved ==
    \A h \in Handlers :
        proc[h].pc = "crediting" =>
            /\ <<"topup", proc[h].of>> \in journal
            /\ moved[proc[h].of] = 0
            /\ \A g \in Handlers :
                  proc[g].pc = "crediting" /\ proc[g].of = proc[h].of => g = h

\* A credited top-up is in the ledger.
Credited ==
    \A t \in Topups :
        moved[t] = 0 \/ (moved[t] = Paid[t] /\ <<"topup", t>> \in journal)

\* What a handler does between opening a refund's row and the gateway's answer.
Owning == {"journaling", "debiting", "sending"}

Owns(h) == proc[h].pc \in Owning

\* Until the gateway has answered, one handler owns the refund.
Owned ==
    \A h \in Handlers :
        Owns(h) =>
            /\ refund[proc[h].of] # "none"
            /\ gateway[proc[h].of] = "none"
            /\ \A g \in Handlers : Owns(g) /\ proc[g].of = proc[h].of => g = h

\* The owner debits the wallet before it calls the gateway.
Debited ==
    \A h \in Handlers :
        /\ proc[h].pc \in {"journaling", "debiting"} => moved[proc[h].of] = 0
        /\ proc[h].pc = "sending" => moved[proc[h].of] = -Asked[proc[h].of]

\* Every answer of the gateway reaches the handler that asked.
NothingLost == "lost" \notin Replies

\* What is given back has no owner any more, and was refused or has failed.
Undone ==
    \A h \in Handlers :
        proc[h].pc \in {"reversing", "returning"} =>
            /\ refund[proc[h].of] # "none"
            /\ NothingLost => gateway[proc[h].of] \in {"none", "failed"}
            /\ \A g \in Handlers : Owns(g) => proc[g].of # proc[h].of

\* A refund with the gateway's id is known there.
Known ==
    /\ \A r \in linked : gateway[r] # "none" /\ refund[r] # "none"
    /\ \A h \in Handlers :
          proc[h].pc = "linking" => /\ gateway[proc[h].of] # "none"
                                    /\ refund[proc[h].of] # "none"

\* A refund without a row has moved nothing.
Fresh == \A r \in Refunds : refund[r] = "none" => gateway[r] = "none" /\ moved[r] = 0

IInv ==
    /\ TypeOK
    /\ Named
    /\ Reserved
    /\ Credited
    /\ Owned
    /\ Debited
    /\ Undone
    /\ Known
    /\ Fresh
    /\ NothingLost => RefundIsDebited

\* Init establishes the invariant.
LEMMA InitSafe == Init => IInv
<1> SUFFICES ASSUME Init PROVE IInv
  OBVIOUS
<1>1. TypeOK
  BY DEF Init, TypeOK, Idle, Process
<1>2. Named /\ Reserved /\ Owned /\ Debited /\ Undone /\ Known
  BY DEF Init, Idle, Named, TopupSteps, RefundSteps, Reserved, Owned, Owns,
     Owning, Debited, Undone, Known
<1>3. Credited /\ Fresh /\ RefundIsDebited
  BY TopUpAssumption DEF Init, Credited, Fresh, RefundIsDebited, TopUpAssumption
<1> QED BY <1>1, <1>2, <1>3 DEF IInv

------------------------------------------------------------------------------
(* How handlers move.                                                      *)

Steps == {"idle"} \cup TopupSteps \cup RefundSteps

\* Handler h moves to pc to work on x, and every other handler stays.
MovesTo(h, pc, x) ==
    /\ proc' \in [Handlers -> Process]
    /\ proc'[h].pc = pc
    /\ proc'[h].of = x
    /\ \A g \in Handlers : g # h => proc'[g] = proc[g]

\* Become with a well-typed process.
LEMMA BecomeMoves ==
    ASSUME TypeOK, NEW h \in Handlers, NEW p \in Process, Become(h, p)
    PROVE  MovesTo(h, p.pc, p.of)
BY DEF TypeOK, Become, MovesTo

\* Go keeps the payment a handler works on.
LEMMA GoMoves ==
    ASSUME TypeOK, NEW h \in Handlers, NEW pc \in Steps, Go(h, pc)
    PROVE  MovesTo(h, pc, proc[h].of)
<1> DEFINE p == [proc[h] EXCEPT !.pc = pc]
<1>1. proc[h] \in Process
  BY DEF TypeOK
<1>2. p \in Process /\ p.pc = pc /\ p.of = proc[h].of
  BY <1>1 DEF Process, Steps
<1>3. Become(h, p)
  BY DEF Go
<1> HIDE DEF p
<1> QED BY <1>2, <1>3, BecomeMoves

\* Take starts work on a payment.
LEMMA TakeMoves ==
    ASSUME TypeOK, NEW h \in Handlers, NEW pc \in Steps,
           NEW x \in Topups \cup Refunds, Take(h, pc, x)
    PROVE  MovesTo(h, pc, x)
<1> DEFINE p == [Idle EXCEPT !.pc = pc, !.of = x]
<1>1. p \in Process /\ p.pc = pc /\ p.of = x
  BY DEF Idle, Process, Steps
<1>2. Become(h, p)
  BY DEF Take
<1> HIDE DEF p
<1> QED BY <1>1, <1>2, BecomeMoves

\* A handler that answers, or is cut off, works on nothing.
LEMMA RestMoves ==
    ASSUME TypeOK, NEW h \in Handlers, Become(h, Idle)
    PROVE  MovesTo(h, "idle", None)
<1>1. Idle \in Process /\ Idle.pc = "idle" /\ Idle.of = None
  BY DEF Idle, Process
<1> HIDE DEF Idle
<1> QED BY <1>1, BecomeMoves

\* The steps about which the invariant says nothing.
Passive ==
    {"idle", "ordering", "reserving", "marking", "affording", "opening", "undoing",
     "failing", "finishing"}

\* A handler that moves to such a step, and moves no money on the way, keeps the
\* invariant, whatever it writes to a status or adds to the ledger.
LEMMA PassiveSafe ==
    ASSUME IInv, TypeOK', NEW h \in Handlers, NEW pc \in Passive,
           NEW x \in Topups \cup Refunds \cup {None}, MovesTo(h, pc, x),
           pc \in TopupSteps => x \in Topups,
           pc \in RefundSteps => x \in Refunds,
           UNCHANGED <<moved, gateway, linked>>,
           journal \subseteq journal',
           \A r \in Refunds : refund'[r] = "none" => refund[r] = "none"
    PROVE  IInv'
<1>1. Named'
  BY DEF IInv, Named, MovesTo
<1>2. Reserved' /\ Credited'
  BY DEF IInv, Reserved, Credited, MovesTo, Passive, Named, TypeOK
<1>3. Owned' /\ Debited'
  BY DEF IInv, Owned, Owns, Owning, Debited, MovesTo, Passive, Named, RefundSteps
<1>4. Undone'
  BY DEF IInv, Undone, Owns, Owning, MovesTo, Passive, Named, RefundSteps
<1>5. Known' /\ Fresh' /\ (NothingLost => RefundIsDebited')
  BY DEF IInv, Known, Fresh, RefundIsDebited, MovesTo, Passive, Named, RefundSteps,
     TypeOK
<1> QED BY <1>1, <1>2, <1>3, <1>4, <1>5 DEF IInv

------------------------------------------------------------------------------
(* Steps that change what the invariant speaks of.                        *)

\* The reservation's holder credits the top-up.
LEMMA CreditSafe ==
    ASSUME IInv, NEW h \in Handlers, Credit(h)
    PROVE  IInv'
<1> DEFINE x == proc[h].of
<1>1. TypeOK /\ x \in Topups /\ proc[h].pc = "crediting"
  BY DEF IInv, Named, TopupSteps, RefundSteps, Credit, Move, At
<1>2. MovesTo(h, "marking", x)
  BY <1>1, GoMoves DEF Credit, Move, Steps, TopupSteps, RefundSteps
<1>3. TypeOK'
  BY <1>1, <1>2, TopUpAssumption DEF Credit, Move, MovesTo, books, money, outside, TypeOK, TopUpAssumption
<1>4. Named'
  BY <1>1, <1>2 DEF IInv, Named, MovesTo, TopupSteps, RefundSteps
<1>5. Reserved' /\ Credited'
  BY <1>1, <1>2, TopUpAssumption DEF IInv, Reserved, Credited, Named,
     TopupSteps, TypeOK, TopUpAssumption, Credit, Move, MovesTo, books, money, outside
<1>6. Owned' /\ Debited'
  BY <1>1, <1>2, TopUpAssumption DEF IInv, Owned, Owns, Owning, Debited, Undone,
     Known, Fresh, Named, RefundSteps, TypeOK, TopUpAssumption, Credit, Move, MovesTo, books, money, outside
<1>7. Undone'
  BY <1>1, <1>2, TopUpAssumption DEF IInv, Undone, Owned, Owns, Owning, Known, Named,
     RefundSteps, TypeOK, TopUpAssumption, Credit, Move, MovesTo, books, money, outside
<1>8. Known' /\ Fresh' /\ (NothingLost => RefundIsDebited')
  BY <1>1, <1>2, TopUpAssumption DEF IInv, Known, Fresh, RefundIsDebited, Owned, Owns,
     Owning, Debited, Undone, Named, TopupSteps, RefundSteps, TypeOK, TopUpAssumption,
     Credit, Move, MovesTo, books, money, outside
<1> QED BY <1>3, <1>4, <1>5, <1>6, <1>7, <1>8 DEF IInv

\* Whoever opens the row is the refund's first and only owner.
LEMMA OpenRefundSafe ==
    ASSUME IInv, NEW h \in Handlers, OpenRefund(h)
    PROVE  IInv'
<1> DEFINE x == proc[h].of
<1>1. TypeOK /\ x \in Refunds /\ proc[h].pc = "opening"
  BY DEF IInv, Named, TopupSteps, RefundSteps, OpenRefund, At
<1>2. MovesTo(h, "journaling", x)
  BY <1>1, GoMoves DEF OpenRefund, Steps, TopupSteps, RefundSteps
<1>3. TypeOK'
  BY <1>1, <1>2, TopUpAssumption DEF OpenRefund, MovesTo, books, money, outside, TypeOK, TopUpAssumption
<1>4. Named'
  BY <1>1, <1>2 DEF IInv, Named, MovesTo, TopupSteps, RefundSteps
<1>5. Reserved' /\ Credited'
  BY <1>1, <1>2, TopUpAssumption DEF IInv, Reserved, Credited, Named,
     TopupSteps, TypeOK, TopUpAssumption, OpenRefund, MovesTo, books, money, outside
<1>6. Owned' /\ Debited'
  BY <1>1, <1>2, TopUpAssumption DEF IInv, Owned, Owns, Owning, Debited, Undone,
     Known, Fresh, Named, RefundSteps, TypeOK, TopUpAssumption, OpenRefund, MovesTo, books, money, outside
<1>7. Undone'
  BY <1>1, <1>2, TopUpAssumption DEF IInv, Undone, Owned, Owns, Owning, Known, Named,
     RefundSteps, TypeOK, TopUpAssumption, OpenRefund, MovesTo, books, money, outside
<1>8. Known' /\ Fresh' /\ (NothingLost => RefundIsDebited')
  BY <1>1, <1>2, TopUpAssumption DEF IInv, Known, Fresh, RefundIsDebited, Owned, Owns,
     Owning, Debited, Undone, Named, TopupSteps, RefundSteps, TypeOK, TopUpAssumption,
     OpenRefund, MovesTo, books, money, outside
<1> QED BY <1>3, <1>4, <1>5, <1>6, <1>7, <1>8 DEF IInv

\* The owner writes the ledger.
LEMMA WriteDebitSafe ==
    ASSUME IInv, NEW h \in Handlers, WriteDebit(h)
    PROVE  IInv'
<1> DEFINE x == proc[h].of
<1>1. TypeOK /\ x \in Refunds /\ proc[h].pc = "journaling"
  BY DEF IInv, Named, TopupSteps, RefundSteps, WriteDebit, At
<1>2. MovesTo(h, "debiting", x)
  BY <1>1, GoMoves DEF WriteDebit, Steps, TopupSteps, RefundSteps
<1>3. TypeOK'
  BY <1>1, <1>2, TopUpAssumption DEF WriteDebit, MovesTo, books, money, outside, TypeOK, TopUpAssumption
<1>4. Named'
  BY <1>1, <1>2 DEF IInv, Named, MovesTo, TopupSteps, RefundSteps
<1>5. Reserved' /\ Credited'
  BY <1>1, <1>2, TopUpAssumption DEF IInv, Reserved, Credited, Named,
     TopupSteps, TypeOK, TopUpAssumption, WriteDebit, MovesTo, books, money, outside
<1>6. Owned' /\ Debited'
  BY <1>1, <1>2, TopUpAssumption DEF IInv, Owned, Owns, Owning, Debited, Undone,
     Known, Fresh, Named, RefundSteps, TypeOK, TopUpAssumption, WriteDebit, MovesTo, books, money, outside
<1>7. Undone'
  BY <1>1, <1>2, TopUpAssumption DEF IInv, Undone, Owned, Owns, Owning, Known, Named,
     RefundSteps, TypeOK, TopUpAssumption, WriteDebit, MovesTo, books, money, outside
<1>8. Known' /\ Fresh' /\ (NothingLost => RefundIsDebited')
  BY <1>1, <1>2, TopUpAssumption DEF IInv, Known, Fresh, RefundIsDebited, Owned, Owns,
     Owning, Debited, Undone, Named, TopupSteps, RefundSteps, TypeOK, TopUpAssumption,
     WriteDebit, MovesTo, books, money, outside
<1> QED BY <1>3, <1>4, <1>5, <1>6, <1>7, <1>8 DEF IInv

\* The owner debits the wallet.
LEMMA DebitSafe ==
    ASSUME IInv, NEW h \in Handlers, Debit(h)
    PROVE  IInv'
<1> DEFINE x == proc[h].of
<1>1. TypeOK /\ x \in Refunds /\ proc[h].pc = "debiting"
  BY DEF IInv, Named, TopupSteps, RefundSteps, Debit, Move, MayDebit, At
<1>2. MovesTo(h, "sending", x)
  BY <1>1, GoMoves DEF Debit, Move, MayDebit, Steps, TopupSteps, RefundSteps
<1>3. TypeOK'
  BY <1>1, <1>2, TopUpAssumption DEF Debit, Move, MayDebit, MovesTo, books, money, outside, TypeOK, TopUpAssumption
<1>4. Named'
  BY <1>1, <1>2 DEF IInv, Named, MovesTo, TopupSteps, RefundSteps
<1>5. Reserved' /\ Credited'
  BY <1>1, <1>2, TopUpAssumption DEF IInv, Reserved, Credited, Named,
     TopupSteps, TypeOK, TopUpAssumption, Debit, Move, MayDebit, MovesTo, books, money, outside
<1>6. Owned' /\ Debited'
  BY <1>1, <1>2, TopUpAssumption DEF IInv, Owned, Owns, Owning, Debited, Undone,
     Known, Fresh, Named, RefundSteps, TypeOK, TopUpAssumption, Debit, Move, MayDebit, MovesTo, books, money, outside
<1>7. Undone'
  BY <1>1, <1>2, TopUpAssumption DEF IInv, Undone, Owned, Owns, Owning, Known, Named,
     RefundSteps, TypeOK, TopUpAssumption, Debit, Move, MayDebit, MovesTo, books, money, outside
<1>8. Known' /\ Fresh' /\ (NothingLost => RefundIsDebited')
  BY <1>1, <1>2, TopUpAssumption DEF IInv, Known, Fresh, RefundIsDebited, Owned, Owns,
     Owning, Debited, Undone, Named, TopupSteps, RefundSteps, TypeOK, TopUpAssumption,
     Debit, Move, MayDebit, MovesTo, books, money, outside
<1> QED BY <1>3, <1>4, <1>5, <1>6, <1>7, <1>8 DEF IInv

\* The gateway's id is stored once it has answered.
LEMMA LinkSafe ==
    ASSUME IInv, NEW h \in Handlers, Link(h)
    PROVE  IInv'
<1> DEFINE x == proc[h].of
<1>1. TypeOK /\ x \in Refunds /\ proc[h].pc = "linking"
  BY DEF IInv, Named, TopupSteps, RefundSteps, Link, StatusOf, At
<1>2. MovesTo(h, "idle", None)
  BY <1>1, RestMoves DEF Link, StatusOf, Steps, TopupSteps, RefundSteps
<1>3. TypeOK'
  BY <1>1, <1>2, TopUpAssumption DEF Link, StatusOf, MovesTo, books, money, outside, TypeOK, TopUpAssumption
<1>4. Named'
  BY <1>1, <1>2 DEF IInv, Named, MovesTo, TopupSteps, RefundSteps
<1>5. Reserved' /\ Credited'
  BY <1>1, <1>2, TopUpAssumption DEF IInv, Reserved, Credited, Named,
     TopupSteps, TypeOK, TopUpAssumption, Link, StatusOf, MovesTo, books, money, outside
<1>6. Owned' /\ Debited'
  BY <1>1, <1>2, TopUpAssumption DEF IInv, Owned, Owns, Owning, Debited, Undone,
     Known, Fresh, Named, RefundSteps, TypeOK, TopUpAssumption, Link, StatusOf, MovesTo, books, money, outside
<1>7. Undone'
  BY <1>1, <1>2, TopUpAssumption DEF IInv, Undone, Owned, Owns, Owning, Known, Named,
     RefundSteps, TypeOK, TopUpAssumption, Link, StatusOf, MovesTo, books, money, outside
<1>8. Known' /\ Fresh' /\ (NothingLost => RefundIsDebited')
  BY <1>1, <1>2, TopUpAssumption DEF IInv, Known, Fresh, RefundIsDebited, Owned, Owns,
     Owning, Debited, Undone, Named, TopupSteps, RefundSteps, TypeOK, TopUpAssumption,
     Link, StatusOf, MovesTo, books, money, outside
<1> QED BY <1>3, <1>4, <1>5, <1>6, <1>7, <1>8 DEF IInv

\* What was refused, or has failed, is given back.
LEMMA ReturnSafe ==
    ASSUME IInv, NEW h \in Handlers, Return(h)
    PROVE  IInv'
<1> DEFINE x == proc[h].of
<1>1. TypeOK /\ x \in Refunds /\ proc[h].pc = "returning"
  BY DEF IInv, Named, TopupSteps, RefundSteps, Return, Move, At
<1>2. MovesTo(h, "failing", x)
  BY <1>1, GoMoves DEF Return, Move, Steps, TopupSteps, RefundSteps
<1>3. TypeOK'
  BY <1>1, <1>2, TopUpAssumption DEF Return, Move, MovesTo, books, money, outside, TypeOK, TopUpAssumption
<1>4. Named'
  BY <1>1, <1>2 DEF IInv, Named, MovesTo, TopupSteps, RefundSteps
<1>5. Reserved' /\ Credited'
  BY <1>1, <1>2, TopUpAssumption DEF IInv, Reserved, Credited, Named,
     TopupSteps, TypeOK, TopUpAssumption, Return, Move, MovesTo, books, money, outside
<1>6. Owned' /\ Debited'
  BY <1>1, <1>2, TopUpAssumption DEF IInv, Owned, Owns, Owning, Debited, Undone,
     Known, Fresh, Named, RefundSteps, TypeOK, TopUpAssumption, Return, Move, MovesTo, books, money, outside
<1>7. Undone'
  BY <1>1, <1>2, TopUpAssumption DEF IInv, Undone, Owned, Owns, Owning, Known, Named,
     RefundSteps, TypeOK, TopUpAssumption, Return, Move, MovesTo, books, money, outside
<1>8. Known' /\ Fresh' /\ (NothingLost => RefundIsDebited')
  BY <1>1, <1>2, TopUpAssumption DEF IInv, Known, Fresh, RefundIsDebited, Owned, Owns,
     Owning, Debited, Undone, Named, TopupSteps, RefundSteps, TypeOK, TopUpAssumption,
     Return, Move, MovesTo, books, money, outside
<1> QED BY <1>3, <1>4, <1>5, <1>6, <1>7, <1>8 DEF IInv

\* Whoever reserves a top-up first has the credit to make; whoever comes later
\* only marks the row.
LEMMA ReserveSafe ==
    ASSUME IInv, NEW h \in Handlers, Reserve(h)
    PROVE  IInv'
<1> DEFINE t == proc[h].of
<1>1. TypeOK /\ t \in Topups /\ proc[h].pc = "reserving"
  BY DEF IInv, Named, TopupSteps, Reserve, At
<1>2. TypeOK'
  <2>1. MovesTo(h, IF MayReserve(t) THEN "crediting" ELSE "marking", t)
    BY <1>1, GoMoves DEF Reserve, Steps, TopupSteps
  <2> QED BY <1>1, <2>1 DEF Reserve, MovesTo, TypeOK, money, outside
<1>3. CASE ~MayReserve(t)
  <2>1. MovesTo(h, "marking", t)
    BY <1>1, <1>3, GoMoves DEF Reserve, Steps, TopupSteps
  <2> QED BY <1>1, <1>2, <2>1, PassiveSafe
          DEF Reserve, Passive, TopupSteps, RefundSteps, money, outside
<1>4. CASE MayReserve(t)
  <2>1. MovesTo(h, "crediting", t)
    BY <1>1, <1>4, GoMoves DEF Reserve, Steps, TopupSteps
  <2>2. moved[t] = 0 /\ \A g \in Handlers : proc[g].pc = "crediting" => proc[g].of # t
    BY <1>1, <1>4 DEF IInv, Credited, Reserved, MayReserve
  <2>3. Named'
    BY <1>1, <2>1 DEF IInv, Named, MovesTo, TopupSteps, RefundSteps
  <2>4. Reserved' /\ Credited'
    BY <1>1, <2>1, <2>2 DEF IInv, Reserved, Credited, MovesTo, Reserve, money
  <2>5. Owned' /\ Debited' /\ Undone'
    BY <1>1, <2>1 DEF IInv, Owned, Owns, Owning, Debited, Undone, MovesTo, Reserve,
       money, outside
  <2>6. Known' /\ Fresh' /\ (NothingLost => RefundIsDebited')
    BY <1>1, <2>1 DEF IInv, Known, Fresh, RefundIsDebited, MovesTo, Reserve, money, outside
  <2> QED BY <1>2, <2>3, <2>4, <2>5, <2>6 DEF IInv
<1> QED BY <1>3, <1>4

\* The owner calls the gateway, which holds the refund or has refused it.
LEMMA SendSafe ==
    ASSUME IInv, NEW h \in Handlers, NEW reply \in Replies, Send(h, reply)
    PROVE  IInv'
<1> DEFINE r == proc[h].of
           pc == IF reply \in Answers THEN "linking" ELSE "reversing"
<1>1. TypeOK /\ r \in Refunds /\ proc[h].pc = "sending"
  BY DEF IInv, Named, RefundSteps, Send, At
<1>2. MovesTo(h, pc, r)
  <2>1. proc[h] \in Process
    BY <1>1 DEF TypeOK
  <2> DEFINE p == [proc[h] EXCEPT !.reply = reply, !.pc = pc]
  <2>2. p \in Process /\ p.pc = pc /\ p.of = r
    BY <2>1 DEF Process, RefundSteps
  <2>3. Become(h, p)
    BY DEF Send
  <2> HIDE DEF p
  <2> QED BY <1>1, <2>2, <2>3, BecomeMoves
<1>3. /\ gateway' = [gateway EXCEPT ![r] = BankAfter(reply)]
      /\ UNCHANGED <<books, money, captured>>
  BY DEF Send
<1>4. \/ pc = "linking" /\ BankAfter(reply) \in {"pending", "processed", "failed"}
      \/ pc = "reversing" /\ BankAfter(reply) \in {"none", "pending"}
  BY TopUpAssumption DEF TopUpAssumption, AllReplies, Answers, BankAfter
<1>4a. NothingLost /\ pc = "reversing" => BankAfter(reply) = "none"
  BY TopUpAssumption DEF TopUpAssumption, AllReplies, Answers, BankAfter, NothingLost
<1> HIDE DEF pc
<1>5. TypeOK'
  BY <1>1, <1>2, <1>3, <1>4 DEF MovesTo, TypeOK, books, money
<1>6. Named'
  BY <1>1, <1>2, <1>4 DEF IInv, Named, MovesTo, TopupSteps, RefundSteps
<1>7. Reserved' /\ Credited'
  BY <1>1, <1>2, <1>3, <1>4 DEF IInv, Reserved, Credited, MovesTo, books, money
<1>8. Owned' /\ Debited'
  BY <1>1, <1>2, <1>3, <1>4 DEF IInv, Owned, Owns, Owning, Debited, Named, RefundSteps,
     MovesTo, TypeOK, books, money
<1>9. Undone'
  BY <1>1, <1>2, <1>3, <1>4, <1>4a DEF IInv, Undone, Owned, Owns, Owning, Named, RefundSteps,
     MovesTo, TypeOK, books, money
<1>10. Known' /\ Fresh' /\ (NothingLost => RefundIsDebited')
  BY <1>1, <1>2, <1>3, <1>4, <1>4a DEF IInv, Known, Fresh, RefundIsDebited, Owned, Owns, Owning,
     Debited, Named, RefundSteps, MovesTo, TypeOK, books, money
<1> QED BY <1>5, <1>6, <1>7, <1>8, <1>9, <1>10 DEF IInv

\* A handler that gives a refund back finds no owner of it.
LEMMA GiveBackSafe ==
    ASSUME IInv, NEW h \in Handlers, NEW pc \in {"reversing", "returning"},
           NEW r \in Refunds, MovesTo(h, pc, r), TypeOK',
           refund[r] # "none", NothingLost => gateway[r] \in {"none", "failed"},
           \A g \in Handlers : Owns(g) => proc[g].of # r,
           UNCHANGED <<refund, linked, money, outside>>, journal \subseteq journal'
    PROVE  IInv'
<1>1. Named'
  BY DEF IInv, Named, MovesTo, TopupSteps, RefundSteps
<1>2. Reserved' /\ Credited'
  BY DEF IInv, Reserved, Credited, MovesTo, money
<1>3. Owned' /\ Debited'
  BY DEF IInv, Owned, Owns, Owning, Debited, MovesTo, money, outside
<1>4. Undone'
  BY DEF IInv, Undone, Owns, Owning, MovesTo, outside
<1>5. Known' /\ Fresh' /\ (NothingLost => RefundIsDebited')
  BY DEF IInv, Known, Fresh, RefundIsDebited, MovesTo, money, outside
<1> QED BY <1>1, <1>2, <1>3, <1>4, <1>5 DEF IInv

\* A webhook takes up a refund the gateway knows, so its owner is gone.
LEMMA RefundWebhookSafe ==
    ASSUME IInv, NEW h \in Handlers, NEW r \in Refunds, RefundWebhook(h, r)
    PROVE  IInv'
<1> DEFINE pc == IF gateway[r] = "failed" THEN "reversing" ELSE "finishing"
<1>1. MovesTo(h, pc, r)
  BY TakeMoves DEF IInv, RefundWebhook, Steps, RefundSteps
<1>2. TypeOK'
  BY <1>1 DEF IInv, TypeOK, RefundWebhook, MovesTo, books, money, outside
<1>3. /\ refund[r] # "none"
      /\ \A g \in Handlers : Owns(g) => proc[g].of # r
      /\ UNCHANGED <<books, money, outside>>
  BY DEF IInv, Known, Owned, RefundWebhook
<1>4. CASE gateway[r] = "failed"
  BY <1>1, <1>2, <1>3, <1>4, GiveBackSafe DEF books, money, outside
<1>5. CASE gateway[r] # "failed"
  BY <1>1, <1>2, <1>3, <1>5, PassiveSafe DEF Passive, TopupSteps, RefundSteps, books, money,
     outside
<1> QED BY <1>4, <1>5

\* The reversal's ledger entry, and the errors that are passed over.
LEMMA ReverseOrSkipSafe ==
    ASSUME IInv, NEW h \in Handlers, Reverse(h) \/ Skip(h)
    PROVE  IInv'
<1> DEFINE r == proc[h].of
<1>1. TypeOK /\ r \in Refunds /\ proc[h].pc \in {"journaling", "undoing", "reversing", "returning"}
  BY DEF IInv, Named, RefundSteps, Reverse, Skip, At
<1>2. /\ UNCHANGED <<topup, refund, linked, money, outside>>
      /\ journal' \in {journal, journal \cup {<<"reversal", r>>}}
  BY DEF Reverse, Skip, books, money, outside
<1>3. CASE proc[h].pc = "reversing"
  <2>1. MovesTo(h, "returning", r)
    BY <1>1, <1>3, GoMoves DEF Reverse, Skip, At, Steps, RefundSteps
  <2>2. TypeOK'
    BY <1>1, <1>2, <2>1 DEF TypeOK, MovesTo, money, outside
  <2>3. /\ refund[r] # "none" /\ (NothingLost => gateway[r] \in {"none", "failed"})
        /\ \A g \in Handlers : Owns(g) => proc[g].of # r
    BY <1>3 DEF IInv, Undone
  <2> QED BY <1>1, <1>2, <2>1, <2>2, <2>3, GiveBackSafe
<1>4. CASE proc[h].pc # "reversing"
  <2>1. MovesTo(h, "failing", r)
    BY <1>1, <1>4, GoMoves DEF Reverse, Skip, At, Steps, RefundSteps
  <2>2. TypeOK'
    BY <1>1, <1>2, <2>1 DEF TypeOK, MovesTo, money, outside
  <2> QED BY <1>1, <1>2, <2>1, <2>2, PassiveSafe
          DEF Passive, TopupSteps, RefundSteps, money, outside
<1> QED BY <1>3, <1>4

------------------------------------------------------------------------------
(* The other steps.                                                        *)

\* Steps that read, and steps that set the status of a row that is there.
LEMMA ReadingSafe ==
    ASSUME IInv, NEW h \in Handlers,
           \/ CheckWallet(h) \/ DebitFails(h) \/ GiveUp(h) \/ Abort(h)
           \/ \E t \in Topups : Initiate(h, t) \/ Verify(h, t) \/ Captured(h, t)
           \/ \E r \in Refunds : BeginRefund(h, r)
    PROVE  IInv'
<1>1. UNCHANGED <<books, money, outside>>
  BY DEF CheckWallet, DebitFails, GiveUp, Abort, Initiate, Verify, Captured, Settle,
     BeginRefund
<1>2. ASSUME NEW pc \in Passive, NEW x \in Topups \cup Refunds \cup {None},
             pc \in TopupSteps => x \in Topups, pc \in RefundSteps => x \in Refunds,
             MovesTo(h, pc, x)
      PROVE  IInv'
  <2>1. TypeOK'
    BY <1>1, <1>2 DEF IInv, TypeOK, MovesTo, books, money, outside
  <2> QED BY <1>1, <1>2, <2>1, PassiveSafe DEF books, money, outside
<1>3. TypeOK
  BY DEF IInv
<1>4. CASE CheckWallet(h) \/ DebitFails(h)
  <2>1. proc[h].of \in Refunds
    BY <1>4 DEF IInv, Named, RefundSteps, CheckWallet, DebitFails, At
  <2>2. MovesTo(h, "opening", proc[h].of) \/ MovesTo(h, "undoing", proc[h].of)
    BY <1>3, <1>4, GoMoves DEF CheckWallet, DebitFails, Steps, RefundSteps
  <2> QED BY <1>2, <2>1, <2>2 DEF Passive, TopupSteps, RefundSteps
<1>5. CASE GiveUp(h) \/ Abort(h)
  <2>1. MovesTo(h, "idle", None)
    BY <1>3, <1>5, RestMoves DEF GiveUp, Abort
  <2> QED BY <1>2, <2>1 DEF Passive, TopupSteps, RefundSteps
<1>6. CASE \E t \in Topups : Initiate(h, t) \/ Verify(h, t) \/ Captured(h, t)
  <2>1. PICK t \in Topups : MovesTo(h, "ordering", t) \/ MovesTo(h, "reserving", t)
    BY <1>3, <1>6, TakeMoves DEF Initiate, Verify, Captured, Settle, FirstSettle, Steps,
       TopupSteps
  <2> QED BY <1>2, <2>1 DEF Passive, TopupSteps, RefundSteps
<1>7. CASE \E r \in Refunds : BeginRefund(h, r)
  <2>1. PICK r \in Refunds : MovesTo(h, "affording", r)
    BY <1>3, <1>7, TakeMoves DEF BeginRefund, Steps, RefundSteps
  <2> QED BY <1>2, <2>1 DEF Passive, TopupSteps, RefundSteps
<1> QED BY <1>4, <1>5, <1>6, <1>7

\* Steps that set the status of a top-up or of a refund.
LEMMA StatusSafe ==
    ASSUME IInv, NEW h \in Handlers, RecordOrder(h) \/ Mark(h) \/ Finish(h) \/ Fail(h)
    PROVE  IInv'
<1>1. TypeOK /\ UNCHANGED <<linked, journal, money, outside>>
  BY DEF IInv, RecordOrder, Mark, Finish, Fail
<1>2. MovesTo(h, "idle", None)
  BY <1>1, RestMoves DEF RecordOrder, Mark, Finish, Fail
<1>3. TypeOK' /\ \A r \in Refunds : refund'[r] = "none" => refund[r] = "none"
  <2>1. CASE RecordOrder(h) \/ Mark(h)
    <3>1. proc[h].of \in Topups
      BY <2>1 DEF IInv, Named, TopupSteps, RecordOrder, Mark, At
    <3> QED BY <1>1, <1>2, <2>1, <3>1 DEF RecordOrder, Mark, TypeOK, MovesTo, money, outside
  <2>2. CASE Finish(h) \/ Fail(h)
    <3>1. proc[h].of \in Refunds
      BY <2>2 DEF IInv, Named, RefundSteps, Finish, Fail, At
    <3> QED BY <1>1, <1>2, <2>2, <3>1 DEF Finish, Fail, TypeOK, MovesTo, money, outside
  <2> QED BY <2>1, <2>2
<1> QED BY <1>1, <1>2, <1>3, PassiveSafe DEF Passive, TopupSteps, RefundSteps, money, outside

\* The gateway, the guest and the booking desk.
LEMMA WorldSafe ==
    ASSUME IInv, \/ \E t \in Topups : Pay(t)
                 \/ \E r \in Refunds : Conclude(r)
                 \/ \E n \in Prices : Book(n) \/ CancelBooking(n)
    PROVE  IInv'
<1>1. UNCHANGED <<books, moved, proc>>
  BY DEF Pay, Conclude, Book, CancelBooking, money
<1>2. /\ \A r \in Refunds : gateway'[r] # gateway[r] =>
            gateway[r] = "pending" /\ gateway'[r] \in {"processed", "failed"}
      /\ TypeOK'
  <2>1. CASE \E t \in Topups : Pay(t)
    BY <2>1 DEF IInv, TypeOK, Pay, books, money
  <2>2. CASE \E r \in Refunds : Conclude(r)
    BY <2>2 DEF IInv, TypeOK, Conclude, books, money
  <2>3. CASE \E n \in Prices : Book(n) \/ CancelBooking(n)
    BY <2>3, TopUpAssumption DEF IInv, TypeOK, Book, CancelBooking, MayDebit, books, outside,
       TopUpAssumption
  <2> QED BY <2>1, <2>2, <2>3
<1>3. Named' /\ Reserved' /\ Credited' /\ Debited'
  BY <1>1 DEF IInv, Named, Reserved, Credited, Debited, books
<1>4. Owned' /\ Undone'
  BY <1>1, <1>2 DEF IInv, Owned, Owns, Owning, Undone, Named, RefundSteps, books
<1>5. Known' /\ Fresh' /\ (NothingLost => RefundIsDebited')
  BY <1>1, <1>2 DEF IInv, Known, Fresh, RefundIsDebited, Named, RefundSteps, TypeOK, books
<1> QED BY <1>2, <1>3, <1>4, <1>5 DEF IInv

\* Stuttering.
LEMMA StutterSafe == ASSUME IInv, UNCHANGED vars PROVE IInv'
BY DEF IInv, vars, books, money, outside, TypeOK, Named, Reserved, Credited, Owned, Owns,
   Debited, Undone, Known, Fresh, RefundIsDebited

------------------------------------------------------------------------------
(* The theorems.                                                           *)

\* The invariant is inductive.
LEMMA Inductive == ASSUME IInv, [Next]_vars PROVE IInv'
<1>1. ASSUME NEW h \in Handlers, Serve(h) PROVE IInv'
  BY <1>1, CreditSafe, OpenRefundSafe, WriteDebitSafe, DebitSafe, LinkSafe, ReturnSafe,
     ReserveSafe, SendSafe, ReverseOrSkipSafe, ReadingSafe, StatusSafe DEF Serve
<1>2. ASSUME NEW h \in Handlers, Abort(h) PROVE IInv'
  BY <1>2, ReadingSafe
<1>3. CASE \/ \E h \in Clerks, t \in Topups : Initiate(h, t)
           \/ \E h \in Handlers, t \in Topups : Verify(h, t) \/ Captured(h, t)
           \/ \E h \in Clerks, r \in Refunds : BeginRefund(h, r)
  BY <1>3, ReadingSafe DEF Handlers
<1>4. CASE \E h \in Couriers, r \in Refunds : RefundWebhook(h, r)
  BY <1>4, RefundWebhookSafe DEF Handlers
<1> QED BY <1>1, <1>2, <1>3, <1>4, WorldSafe, StutterSafe DEF Next

\* Whatever is cut off, repeated or raced, the invariant holds.
LEMMA Invariant == Spec => []IInv
<1>1. IInv /\ [Next]_vars => IInv'
  BY Inductive
<1> QED BY InitSafe, <1>1, PTL DEF Spec

\* Every reachable state is well typed: no wallet is ever overdrawn.
THEOREM TypeCorrect == Spec => []TypeOK
<1>1. IInv => TypeOK
  BY DEF IInv
<1> QED BY Invariant, <1>1, PTL

\* However many handlers race to credit a top-up, and wherever each is cut off,
\* it is credited once or not at all (bug C5).
THEOREM NeverCreditedTwice == Spec => []CreditedOnce
<1>1. IInv => CreditedOnce
  BY DEF IInv, Credited, CreditedOnce
<1> QED BY Invariant, <1>1, PTL

\* Unless an answer of the gateway is lost, money on its way to the card is out
\* of the wallet.
THEOREM RefundAlwaysDebited == ASSUME "lost" \notin Replies PROVE Spec => []RefundIsDebited
<1>1. IInv => RefundIsDebited
  BY DEF IInv, NothingLost
<1> QED BY Invariant, <1>1, PTL

------------------------------------------------------------------------------
(* Money is conserved.                                                     *)
(*                                                                         *)
(* What the wallet and the bookings hold is what the payments have moved,  *)
(* always.  That the payments have moved no more than was paid in needs    *)
(* that no refund is given back twice, which the code guarantees only when *)
(* refund webhooks are handled one after the other and to their end.       *)

Finite == IsFiniteSet(Topups) /\ IsFiniteSet(Refunds)

SerialWebhooks ==
    /\ \A c, d \in Couriers : c = d
    /\ Couriers \cap Abortable = {}

\* What a request does between opening a refund's row and leaving it.
Holding == {"journaling", "debiting", "sending", "linking", "undoing", "reversing",
            "returning", "failing"}

\* A webhook gives back what has failed at the gateway and is linked.
WebhookPlaces ==
    \A h \in Couriers :
        /\ proc[h].pc \in {"idle", "reserving", "crediting", "marking", "reversing",
                           "returning", "failing", "finishing"}
        /\ proc[h].pc \in {"reversing", "returning", "failing"} =>
              proc[h].of \in linked /\ gateway[proc[h].of] = "failed"

\* A request that holds a refund is the only one, and no webhook knows it yet.
HeldApart ==
    \A h \in Clerks : proc[h].pc \in Holding =>
        /\ refund[proc[h].of] # "none"
        /\ proc[h].of \notin linked
        /\ \A g \in Clerks : proc[g].pc \in Holding /\ proc[g].of = proc[h].of => g = h

\* The money is out of the wallet until it is given back.
OutUntilReturned ==
    \A h \in Handlers :
        proc[h].pc \in {"linking", "reversing", "returning"} =>
            moved[proc[h].of] = -Asked[proc[h].of]

\* A failed refund whose row does not say so is still out, unless the webhook that
\* gives it back is about to write the row.
AwaitsReturn ==
    \A r \in linked :
        gateway[r] = "failed" /\ refund[r] \notin Final =>
            \/ moved[r] = -Asked[r]
            \/ \E h \in Couriers : proc[h].pc = "failing" /\ proc[h].of = r

OutOrBack == \A r \in Refunds : moved[r] \in {0, -Asked[r]}

Refunding == WebhookPlaces /\ HeldApart /\ OutUntilReturned /\ AwaitsReturn /\ OutOrBack

LEMMA RefundingInitially == Init => Refunding
BY DEF Init, Idle, Refunding, WebhookPlaces, HeldApart, Holding, OutUntilReturned,
   AwaitsReturn, OutOrBack, Handlers

\* Whoever holds a refund and is no courier is a clerk.
LEMMA ClerkSteps ==
    ASSUME Refunding, NEW h \in Handlers,
           proc[h].pc \in {"opening", "journaling", "debiting", "sending", "linking", "undoing"}
    PROVE  h \in Clerks
BY DEF Refunding, WebhookPlaces, Handlers

\* A handler moves to a step that holds no refund.
LEMMA QuietRefunds ==
    ASSUME IInv, Refunding, SerialWebhooks, NEW h \in Handlers,
           NEW pc \in {"idle", "ordering", "reserving", "crediting", "marking", "affording",
                       "opening", "finishing"},
           NEW x, MovesTo(h, pc, x),
           h \in Couriers => /\ proc[h].pc # "failing"
                             /\ pc \notin {"ordering", "affording", "opening"},
           UNCHANGED <<refund, linked, gateway>>,
           \A r \in Refunds : moved'[r] = moved[r]
    PROVE  Refunding'
<1>1. WebhookPlaces'
  BY DEF Refunding, WebhookPlaces, MovesTo, Handlers
<1>2. HeldApart'
  BY DEF Refunding, HeldApart, Holding, MovesTo, Handlers
<1>3. OutUntilReturned'
  BY DEF Refunding, OutUntilReturned, MovesTo, IInv, Named, RefundSteps
<1>4. AwaitsReturn'
  BY DEF Refunding, AwaitsReturn, MovesTo, IInv, TypeOK, Handlers
<1>5. OutOrBack'
  BY DEF Refunding, OutOrBack
<1> QED BY <1>1, <1>2, <1>3, <1>4, <1>5 DEF Refunding

\* A handler that holds a refund goes on with it.
LEMMA HoldOn ==
    ASSUME IInv, Refunding, SerialWebhooks, NEW h \in Handlers,
           NEW pc \in {"debiting", "undoing", "returning", "failing"},
           MovesTo(h, pc, proc[h].of),
           proc[h].pc \in Holding \ {"failing"},
           pc = "returning" => proc[h].pc = "reversing",
           h \in Couriers => pc = "returning",
           UNCHANGED <<refund, linked, gateway, moved>>
    PROVE  Refunding'
<1>1. WebhookPlaces'
  BY DEF Refunding, WebhookPlaces, MovesTo, Handlers, Holding
<1>2. HeldApart'
  BY DEF Refunding, HeldApart, Holding, MovesTo, Handlers
<1>3. OutUntilReturned'
  BY DEF Refunding, OutUntilReturned, MovesTo
<1>4. AwaitsReturn'
  BY DEF Refunding, AwaitsReturn, MovesTo, Handlers, Holding
<1>5. OutOrBack'
  BY DEF Refunding, OutOrBack
<1> QED BY <1>1, <1>2, <1>3, <1>4, <1>5 DEF Refunding

LEMMA OpenRefundRefunding ==
    ASSUME IInv, Refunding, NEW h \in Handlers, OpenRefund(h)
    PROVE  Refunding'
<1> DEFINE x == proc[h].of
<1>1. /\ TypeOK /\ x \in Refunds /\ proc[h].pc = "opening" /\ h \in Clerks
      /\ refund[x] = "none"
  BY ClerkSteps DEF IInv, Named, RefundSteps, OpenRefund, At
<1>2. MovesTo(h, "journaling", x)
  BY <1>1, GoMoves DEF OpenRefund, Steps, RefundSteps
<1>3. /\ refund' = [refund EXCEPT ![x] = "pending"] /\ x \notin linked
      /\ UNCHANGED <<linked, gateway, moved>>
  BY <1>1 DEF OpenRefund, IInv, Known, money, outside
<1>c. h \notin Couriers
  BY <1>1, TopUpAssumption DEF TopUpAssumption
<1> HIDE DEF x
<1>4. WebhookPlaces'
  BY <1>c, <1>2, <1>3 DEF Refunding, WebhookPlaces, MovesTo, Handlers
<1>5. HeldApart'
  <2>1. \A g \in Clerks : proc[g].pc \in Holding => proc[g].of # x /\ proc[g].of \in Refunds
    BY <1>1 DEF Refunding, HeldApart, IInv, Named, Handlers, Holding, RefundSteps
  <2> QED BY <1>1, <1>2, <1>3, <2>1 DEF Refunding, HeldApart, MovesTo, Handlers, TypeOK
<1>6. OutUntilReturned'
  BY <1>2, <1>3 DEF Refunding, OutUntilReturned, MovesTo
<1>7. AwaitsReturn'
  BY <1>1, <1>c, <1>2, <1>3 DEF Refunding, AwaitsReturn, MovesTo, Handlers, TypeOK
<1>8. OutOrBack'
  BY <1>3 DEF Refunding, OutOrBack
<1> QED BY <1>4, <1>5, <1>6, <1>7, <1>8 DEF Refunding

LEMMA DebitRefunding ==
    ASSUME IInv, Refunding, NEW h \in Handlers, Debit(h)
    PROVE  Refunding'
<1> DEFINE x == proc[h].of
<1>1. /\ TypeOK /\ x \in Refunds /\ proc[h].pc = "debiting" /\ h \in Clerks
      /\ moved[x] = 0 /\ Asked[x] \in Nat
  BY ClerkSteps, TopUpAssumption DEF IInv, Named, RefundSteps, Debited, Debit, At, TopUpAssumption
<1>2. MovesTo(h, "sending", x)
  BY <1>1, GoMoves DEF Debit, Steps, RefundSteps
<1>3. /\ moved'[x] = -Asked[x] /\ \A r \in Refunds \ {x} : moved'[r] = moved[r]
      /\ UNCHANGED <<refund, linked, gateway>>
  BY <1>1 DEF Debit, Move, TypeOK, books, outside
<1>c. h \notin Couriers
  BY <1>1, TopUpAssumption DEF TopUpAssumption
<1>d. x \notin linked
  BY <1>1 DEF Refunding, HeldApart, Holding
<1> HIDE DEF x
<1>4. WebhookPlaces'
  BY <1>c, <1>2, <1>3 DEF Refunding, WebhookPlaces, MovesTo, Handlers
<1>5. HeldApart'
  <2>1. x = proc[h].of
    BY DEF x
  <2> QED BY <1>1, <1>2, <1>3, <2>1 DEF Refunding, HeldApart, MovesTo, Handlers, Holding
<1>6. OutUntilReturned'
  <2>1. ASSUME NEW g \in Handlers, g # h, proc[g].pc \in {"linking", "reversing", "returning"}
        PROVE  proc[g].of \in Refunds
    BY <2>1 DEF IInv, Named, RefundSteps
  <2> QED BY <1>2, <1>3, <2>1 DEF Refunding, OutUntilReturned, MovesTo
<1>7. AwaitsReturn'
  BY <1>1, <1>c, <1>d, <1>2, <1>3 DEF Refunding, AwaitsReturn, MovesTo, Handlers, TypeOK
<1>8. OutOrBack'
  BY <1>3 DEF Refunding, OutOrBack
<1> QED BY <1>4, <1>5, <1>6, <1>7, <1>8 DEF Refunding

LEMMA SendRefunding ==
    ASSUME IInv, Refunding, NEW h \in Handlers, NEW reply \in Replies, Send(h, reply)
    PROVE  Refunding'
<1> DEFINE r == proc[h].of
           pc == IF reply \in Answers THEN "linking" ELSE "reversing"
<1>1. /\ TypeOK /\ r \in Refunds /\ proc[h].pc = "sending" /\ h \in Clerks
      /\ moved[r] = -Asked[r]
  BY ClerkSteps DEF IInv, Named, RefundSteps, Debited, Send, At
<1>2. MovesTo(h, pc, r) /\ pc \in {"linking", "reversing"}
  <2>1. proc[h] \in Process
    BY <1>1 DEF TypeOK
  <2> DEFINE p == [proc[h] EXCEPT !.reply = reply, !.pc = pc]
  <2>2. p \in Process /\ p.pc = pc /\ p.of = r
    BY <2>1 DEF Process, RefundSteps
  <2>3. Become(h, p)
    BY DEF Send
  <2> HIDE DEF p
  <2> QED BY <1>1, <2>2, <2>3, BecomeMoves
<1>3. /\ \A x \in Refunds \ {r} : gateway'[x] = gateway[x]
      /\ UNCHANGED <<refund, linked, moved>>
  BY <1>1 DEF Send, TypeOK, books, money
<1>c. h \notin Couriers
  BY <1>1, TopUpAssumption DEF TopUpAssumption
<1>d. r \notin linked /\ linked \subseteq Refunds
  BY <1>1 DEF Refunding, HeldApart, Holding, TypeOK
<1>e. r = proc[h].of
  OBVIOUS
<1> HIDE DEF r, pc
<1>4. WebhookPlaces'
  BY <1>c, <1>d, <1>2, <1>3 DEF Refunding, WebhookPlaces, MovesTo, Handlers
<1>5. HeldApart'
  BY <1>1, <1>2, <1>3, <1>e DEF Refunding, HeldApart, MovesTo, Handlers, Holding
<1>6. OutUntilReturned'
  BY <1>1, <1>2, <1>3 DEF Refunding, OutUntilReturned, MovesTo
<1>7. AwaitsReturn'
  BY <1>1, <1>c, <1>d, <1>2, <1>3 DEF Refunding, AwaitsReturn, MovesTo, Handlers
<1>8. OutOrBack'
  BY <1>3 DEF Refunding, OutOrBack
<1> QED BY <1>4, <1>5, <1>6, <1>7, <1>8 DEF Refunding

LEMMA LinkRefunding ==
    ASSUME IInv, Refunding, NEW h \in Handlers, Link(h)
    PROVE  Refunding'
<1> DEFINE r == proc[h].of
<1>1. /\ TypeOK /\ r \in Refunds /\ proc[h].pc = "linking" /\ h \in Clerks
      /\ moved[r] = -Asked[r]
  BY ClerkSteps DEF IInv, Named, RefundSteps, Refunding, OutUntilReturned, Link, At
<1>2. MovesTo(h, "idle", None)
  BY <1>1, RestMoves DEF Link
<1>3. /\ refund' = [refund EXCEPT ![r] = StatusOf(proc[h].reply)]
      /\ linked' = linked \cup {r}
      /\ UNCHANGED <<gateway, moved>>
  BY <1>1 DEF Link, money, outside
<1>s. StatusOf(proc[h].reply) # "none"
  BY DEF StatusOf
<1>c. h \notin Couriers
  BY <1>1, TopUpAssumption DEF TopUpAssumption
<1>f. \A g \in Clerks : g # h /\ proc[g].pc \in Holding => proc[g].of # r
  BY <1>1 DEF Refunding, HeldApart, Holding
<1> DEFINE status == StatusOf(proc[h].reply)
<1>g. \A x \in Refunds : refund'[x] = (IF x = r THEN status ELSE refund[x])
  BY <1>1, <1>3 DEF TypeOK
<1>h. linked \subseteq Refunds
  BY <1>1 DEF TypeOK
<1>i. \A g \in Clerks : proc[g].pc \in Holding => proc[g].of \in Refunds
  BY DEF IInv, Named, RefundSteps, Holding, Handlers
<1> HIDE DEF r, status
<1>4. WebhookPlaces'
  BY <1>c, <1>2, <1>3 DEF Refunding, WebhookPlaces, MovesTo, Handlers
<1>5. HeldApart'
  <2>1. \A g \in Clerks : proc'[g].pc \in Holding =>
            g # h /\ proc'[g] = proc[g] /\ proc[g].of # r /\ proc[g].of \in Refunds
    BY <1>2, <1>f, <1>i DEF MovesTo, Handlers, Holding
  <2> QED BY <1>g, <1>3, <2>1 DEF Refunding, HeldApart
<1>6. OutUntilReturned'
  BY <1>1, <1>2, <1>3 DEF Refunding, OutUntilReturned, MovesTo
<1>7. AwaitsReturn'
  <2>1. ASSUME NEW x \in linked', gateway[x] = "failed", refund'[x] \notin Final, moved[x] # -Asked[x]
        PROVE  \E g \in Couriers : proc[g].pc = "failing" /\ proc[g].of = x
    BY <1>1, <1>3, <1>g, <1>h, <2>1 DEF Refunding, AwaitsReturn
  <2> QED BY <1>c, <1>2, <1>3, <2>1 DEF AwaitsReturn, MovesTo, Handlers
<1>8. OutOrBack'
  BY <1>3 DEF Refunding, OutOrBack
<1> QED BY <1>4, <1>5, <1>6, <1>7, <1>8 DEF Refunding

\* The one courier takes up a refund: nobody else is giving it back.
LEMMA WebhookRefunding ==
    ASSUME IInv, Refunding, SerialWebhooks, NEW h \in Couriers, NEW r \in Refunds,
           RefundWebhook(h, r)
    PROVE  Refunding'
<1> DEFINE pc == IF gateway[r] = "failed" THEN "reversing" ELSE "finishing"
<1>1. TypeOK /\ proc[h].pc = "idle" /\ h \in Handlers /\ h \notin Clerks
  BY TopUpAssumption DEF IInv, RefundWebhook, Free, Handlers, TopUpAssumption
<1>2. MovesTo(h, pc, r) /\ ((pc = "reversing" /\ gateway[r] = "failed") \/ pc = "finishing")
  BY <1>1, TakeMoves DEF RefundWebhook, Steps, RefundSteps
<1>3. /\ r \in linked /\ refund[r] \notin Final
      /\ UNCHANGED <<refund, linked, gateway, moved>>
  BY DEF RefundWebhook, books, money, outside
<1>4. \A g \in Couriers : g = h
  BY DEF SerialWebhooks
<1>5. gateway[r] = "failed" => moved[r] = -Asked[r]
  BY <1>1, <1>3, <1>4 DEF Refunding, AwaitsReturn
<1> HIDE DEF pc
<1>6. WebhookPlaces'
  BY <1>4, <1>2, <1>3, <1>1 DEF Refunding, WebhookPlaces, MovesTo
<1>7. HeldApart'
  BY <1>1, <1>2, <1>3 DEF Refunding, HeldApart, MovesTo, Handlers
<1>8. OutUntilReturned'
  BY <1>5, <1>2, <1>3, <1>1 DEF Refunding, OutUntilReturned, MovesTo
<1>9. AwaitsReturn'
  BY <1>1, <1>4, <1>2, <1>3 DEF Refunding, AwaitsReturn, MovesTo, Handlers
<1>10. OutOrBack'
  BY <1>3 DEF Refunding, OutOrBack
<1> QED BY <1>6, <1>7, <1>8, <1>9, <1>10 DEF Refunding

\* The row says how the refund ended.
LEMMA EndRefunding ==
    ASSUME IInv, Refunding, SerialWebhooks, NEW h \in Handlers, Finish(h) \/ Fail(h)
    PROVE  Refunding'
<1> DEFINE r == proc[h].of
<1>1. TypeOK /\ r \in Refunds /\ proc[h].pc \in {"finishing", "failing"}
  BY DEF IInv, Named, RefundSteps, Finish, Fail, At
<1>2. MovesTo(h, "idle", None)
  BY <1>1, RestMoves DEF Finish, Fail
<1>3. /\ refund'[r] \in Final /\ \A x \in Refunds \ {r} : refund'[x] = refund[x]
      /\ UNCHANGED <<linked, gateway, moved>>
  BY <1>1 DEF Finish, Fail, TypeOK, Final, money, outside
<1>4. WebhookPlaces'
  BY <1>2, <1>3 DEF Refunding, WebhookPlaces, MovesTo, Handlers
<1>5. HeldApart'
  <2>1. \A g \in Clerks : proc'[g].pc \in Holding =>
            proc'[g] = proc[g] /\ proc[g].of \in Refunds
    BY <1>2 DEF MovesTo, Handlers, Holding, IInv, Named, RefundSteps
  <2>2. \A x \in Refunds : refund[x] # "none" => refund'[x] # "none"
    BY <1>3 DEF Final
  <2> HIDE DEF r
  <2> QED BY <1>3, <2>1, <2>2 DEF Refunding, HeldApart
<1>6. OutUntilReturned'
  BY <1>2, <1>3 DEF Refunding, OutUntilReturned, MovesTo
<1>7. AwaitsReturn'
  <2>1. ASSUME NEW x \in linked, gateway[x] = "failed", refund'[x] \notin Final, moved[x] # -Asked[x]
        PROVE  \E g \in Couriers : proc'[g].pc = "failing" /\ proc'[g].of = x
    <3>1. x \in Refunds /\ x # r /\ refund[x] \notin Final
      BY <1>1, <1>3, <2>1 DEF TypeOK
    <3>2. PICK g \in Couriers : proc[g].pc = "failing" /\ proc[g].of = x
      BY <2>1, <3>1 DEF Refunding, AwaitsReturn
    <3> QED BY <1>2, <3>1, <3>2 DEF MovesTo, Handlers
  <2> QED BY <1>3, <2>1 DEF AwaitsReturn
<1>8. OutOrBack'
  BY <1>3 DEF Refunding, OutOrBack
<1> QED BY <1>4, <1>5, <1>6, <1>7, <1>8 DEF Refunding

\* The money is given back by the only one who is doing so.
LEMMA ReturnRefunding ==
    ASSUME IInv, Refunding, SerialWebhooks, NEW h \in Handlers, Return(h)
    PROVE  Refunding'
<1> DEFINE r == proc[h].of
<1>1. /\ TypeOK /\ r \in Refunds /\ proc[h].pc = "returning" /\ Asked[r] \in Nat
      /\ moved[r] = -Asked[r]
  BY TopUpAssumption
     DEF IInv, Named, RefundSteps, Refunding, OutUntilReturned, Return, At, TopUpAssumption
<1>2. MovesTo(h, "failing", r)
  BY <1>1, GoMoves DEF Return, Steps, RefundSteps
<1>3. /\ moved'[r] = 0 /\ \A x \in Refunds \ {r} : moved'[x] = moved[x]
      /\ UNCHANGED <<refund, linked, gateway>>
  BY <1>1 DEF Return, Move, TypeOK, books, outside
<1>4. \A g \in Handlers : g # h /\ proc[g].pc \in {"linking", "reversing", "returning"} =>
          proc[g].of # r /\ proc[g].of \in Refunds
  <2>1. ASSUME NEW g \in Handlers, g # h, proc[g].pc \in {"linking", "reversing", "returning"},
               proc[g].of = r
        PROVE  FALSE
    <3>1. CASE g \in Clerks /\ h \in Clerks
      BY <1>1, <2>1, <3>1 DEF Refunding, HeldApart, Holding
    <3>2. CASE g \in Couriers /\ h \in Couriers
      BY <2>1, <3>2 DEF SerialWebhooks
    <3>3. CASE g \in Couriers /\ h \in Clerks
      BY <1>1, <2>1, <3>3 DEF Refunding, HeldApart, Holding, WebhookPlaces
    <3>4. CASE g \in Clerks /\ h \in Couriers
      BY <1>1, <2>1, <3>4 DEF Refunding, HeldApart, Holding, WebhookPlaces
    <3> QED BY <3>1, <3>2, <3>3, <3>4 DEF Handlers
  <2> QED BY <2>1 DEF IInv, Named, RefundSteps
<1>5. WebhookPlaces'
  BY <1>1, <1>2, <1>3 DEF Refunding, WebhookPlaces, MovesTo, Handlers
<1>6. HeldApart'
  <2>1. r = proc[h].of
    OBVIOUS
  <2> HIDE DEF r
  <2> QED BY <1>1, <1>2, <1>3, <2>1 DEF Refunding, HeldApart, MovesTo, Handlers, Holding
<1>7. OutUntilReturned'
  BY <1>2, <1>3, <1>4 DEF Refunding, OutUntilReturned, MovesTo
<1>8. AwaitsReturn'
  <2>1. CASE h \in Couriers
    <3>1. ASSUME NEW x \in linked, gateway[x] = "failed", refund[x] \notin Final, x # r
          PROVE  moved'[x] = -Asked[x]
      BY <1>1, <1>3, <2>1, <3>1 DEF Refunding, AwaitsReturn, SerialWebhooks, TypeOK
    <3> QED BY <1>2, <1>3, <2>1, <3>1 DEF AwaitsReturn, MovesTo
  <2>2. CASE h \notin Couriers
    <3>1. h \in Clerks /\ r \notin linked
      BY <1>1, <2>2 DEF Handlers, Refunding, HeldApart, Holding
    <3> QED BY <1>1, <1>2, <1>3, <2>2, <3>1 DEF Refunding, AwaitsReturn, MovesTo, Handlers, TypeOK
  <2> QED BY <2>1, <2>2
<1>9. OutOrBack'
  BY <1>3 DEF Refunding, OutOrBack
<1> QED BY <1>5, <1>6, <1>7, <1>8, <1>9 DEF Refunding

\* The gateway, the guest and the booking desk, and stuttering.
LEMMA WorldRefunding ==
    ASSUME IInv, Refunding, NothingLost,
           \/ \E t \in Topups : Pay(t)
           \/ \E r \in Refunds : Conclude(r)
           \/ \E n \in Prices : Book(n) \/ CancelBooking(n)
           \/ UNCHANGED vars
    PROVE  Refunding'
<1>1. UNCHANGED <<refund, linked, moved, proc>>
  BY DEF Pay, Conclude, Book, CancelBooking, vars, books, money
<1>2. \A r \in Refunds : gateway'[r] = gateway[r] \/ (gateway[r] = "pending" /\ moved[r] = -Asked[r])
  BY DEF Pay, Conclude, Book, CancelBooking, vars, outside, IInv, RefundIsDebited, TypeOK
<1>3. linked \subseteq Refunds
  BY DEF IInv, TypeOK
<1>4. WebhookPlaces'
  BY <1>1, <1>2, <1>3 DEF Refunding, WebhookPlaces
<1>5. HeldApart' /\ OutUntilReturned' /\ OutOrBack'
  BY <1>1 DEF Refunding, HeldApart, OutUntilReturned, OutOrBack
<1>6. AwaitsReturn'
  BY <1>1, <1>2, <1>3 DEF Refunding, AwaitsReturn
<1> QED BY <1>4, <1>5, <1>6 DEF Refunding

\* Steps that write neither a refund's row nor the wallet on its behalf.
LEMMA QuietStepsRefunding ==
    ASSUME IInv, Refunding, SerialWebhooks, NEW h \in Handlers,
           \/ RecordOrder(h) \/ Reserve(h) \/ Credit(h) \/ Mark(h) \/ CheckWallet(h)
           \/ GiveUp(h) \/ Abort(h)
           \/ h \in Clerks /\ \E t \in Topups : Initiate(h, t)
           \/ \E t \in Topups : Verify(h, t) \/ Captured(h, t)
           \/ h \in Clerks /\ \E r \in Refunds : BeginRefund(h, r)
    PROVE  Refunding'
<1>1. /\ TypeOK /\ UNCHANGED <<refund, linked, gateway>>
      /\ \A r \in Refunds : moved'[r] = moved[r]
  <2>1. CASE Credit(h)
    <3>1. proc[h].of \in Topups
      BY <2>1 DEF Credit, IInv, Named, TopupSteps, At
    <3> QED BY <2>1, <3>1, TopUpAssumption
            DEF Credit, Move, IInv, TypeOK, books, outside, TopUpAssumption
  <2> QED BY <2>1 DEF IInv, RecordOrder, Reserve, Mark, CheckWallet, GiveUp, Abort,
             Initiate, Verify, Captured, Settle, BeginRefund, books, money, outside
<1>c. h \in Couriers => h \notin Clerks
  BY TopUpAssumption DEF TopUpAssumption
<1>2. CASE RecordOrder(h) \/ Mark(h) \/ GiveUp(h) \/ Abort(h)
  <2>1. MovesTo(h, "idle", None)
    BY <1>1, <1>2, RestMoves DEF RecordOrder, Mark, GiveUp, Abort
  <2>2. h \in Couriers => proc[h].pc # "failing"
    BY <1>2 DEF RecordOrder, Mark, GiveUp, MustGiveUp, Abort, At, SerialWebhooks
  <2> QED BY <1>1, <2>1, <2>2, QuietRefunds
<1>3. CASE Reserve(h) \/ Credit(h)
  <2>1. MovesTo(h, "crediting", proc[h].of) \/ MovesTo(h, "marking", proc[h].of)
    BY <1>1, <1>3, GoMoves DEF Reserve, Credit, Steps, TopupSteps
  <2>2. proc[h].pc # "failing"
    BY <1>3 DEF Reserve, Credit, At
  <2> QED BY <1>1, <2>1, <2>2, QuietRefunds
<1>4. CASE CheckWallet(h)
  <2>1. MovesTo(h, "opening", proc[h].of)
    BY <1>1, <1>4, GoMoves DEF CheckWallet, Steps, RefundSteps
  <2>2. proc[h].pc = "affording" /\ h \notin Couriers
    BY <1>4 DEF CheckWallet, At, Refunding, WebhookPlaces
  <2> QED BY <1>1, <2>1, <2>2, QuietRefunds
<1>5. CASE \/ h \in Clerks /\ \E t \in Topups : Initiate(h, t)
           \/ h \in Clerks /\ \E r \in Refunds : BeginRefund(h, r)
  <2>1. PICK x : MovesTo(h, "ordering", x) \/ MovesTo(h, "affording", x)
    BY <1>1, <1>5, TakeMoves DEF Initiate, BeginRefund, Steps, TopupSteps, RefundSteps
  <2> QED BY <1>1, <1>c, <1>5, <2>1, QuietRefunds
<1>6. CASE \E t \in Topups : Verify(h, t) \/ Captured(h, t)
  <2>1. PICK x : MovesTo(h, "reserving", x)
    BY <1>1, <1>6, TakeMoves DEF Verify, Captured, Settle, FirstSettle, Steps, TopupSteps
  <2>2. proc[h].pc # "failing"
    BY <1>6 DEF Verify, Captured, Settle, Free
  <2> QED BY <1>1, <2>1, <2>2, QuietRefunds
<1> QED BY <1>2, <1>3, <1>4, <1>5, <1>6

\* Steps on the way from one write to the next.
LEMMA HoldingStepsRefunding ==
    ASSUME IInv, Refunding, SerialWebhooks, NEW h \in Handlers,
           WriteDebit(h) \/ DebitFails(h) \/ Reverse(h) \/ Skip(h)
    PROVE  Refunding'
<1>1. TypeOK /\ UNCHANGED <<refund, linked, gateway, moved>>
  BY DEF IInv, WriteDebit, DebitFails, Reverse, Skip, books, money, outside
<1>2. PICK pc \in {"debiting", "undoing", "returning", "failing"} :
          /\ MovesTo(h, pc, proc[h].of)
          /\ proc[h].pc \in {"journaling", "debiting", "undoing", "reversing", "returning"}
          /\ pc = "returning" <=> proc[h].pc = "reversing"
          /\ proc[h].pc = "returning" => h \in Abortable
  BY <1>1, GoMoves DEF WriteDebit, DebitFails, Reverse, Skip, At, Steps, RefundSteps
<1>3. h \in Couriers => pc = "returning"
  BY <1>2 DEF SerialWebhooks, Refunding, WebhookPlaces
<1> QED BY <1>1, <1>2, <1>3, HoldOn DEF Holding

LEMMA RefundingKept ==
    ASSUME IInv, Refunding, SerialWebhooks, NothingLost, [Next]_vars
    PROVE  Refunding'
<1>1. ASSUME NEW h \in Handlers, Serve(h) PROVE Refunding'
  BY <1>1, OpenRefundRefunding, DebitRefunding, SendRefunding, LinkRefunding, EndRefunding,
     ReturnRefunding, QuietStepsRefunding, HoldingStepsRefunding DEF Serve
<1>2. ASSUME NEW h \in Handlers, Abort(h) PROVE Refunding'
  BY <1>2, QuietStepsRefunding
<1>3. CASE \/ \E h \in Clerks, t \in Topups : Initiate(h, t)
           \/ \E h \in Handlers, t \in Topups : Verify(h, t) \/ Captured(h, t)
           \/ \E h \in Clerks, r \in Refunds : BeginRefund(h, r)
  BY <1>3, QuietStepsRefunding DEF Handlers
<1>4. CASE \E h \in Couriers, r \in Refunds : RefundWebhook(h, r)
  BY <1>4, WebhookRefunding
<1> QED BY <1>1, <1>2, <1>3, <1>4, WorldRefunding DEF Next

------------------------------------------------------------------------------
(* What is credited was captured, and what the guest has was moved.        *)

CreditIsCaptured ==
    /\ \A t \in Topups : moved[t] # 0 => t \in captured
    /\ \A h \in Handlers : proc[h].pc \in {"reserving", "crediting"} => proc[h].of \in captured

Payments == Topups \cup Refunds

Conserved == wallet + spent = SumFunctionOnSet(moved, Payments)

\* What each step does to the money.
LEMMA MovesOfMoney ==
    ASSUME IInv, [Next]_vars
    PROVE  \/ UNCHANGED moved /\ wallet' + spent' = wallet + spent
           \/ \E h \in Handlers : Credit(h)
           \/ \E h \in Handlers : Debit(h) \/ Return(h)
<1>1. ASSUME NEW h \in Handlers, Serve(h) PROVE UNCHANGED money \/ Credit(h) \/ Debit(h) \/ Return(h)
  BY <1>1 DEF Serve, RecordOrder, Reserve, Mark, CheckWallet, OpenRefund, WriteDebit, DebitFails,
     Send, Link, Finish, Reverse, Fail, Skip, GiveUp
<1>2. CASE \E n \in Prices : Book(n) \/ CancelBooking(n)
  BY <1>2, TopUpAssumption DEF Book, CancelBooking, IInv, TypeOK, TopUpAssumption
<1>3. CASE \/ \E h \in Clerks, t \in Topups : Initiate(h, t)
           \/ \E h \in Handlers, t \in Topups : Verify(h, t) \/ Captured(h, t)
           \/ \E h \in Clerks, r \in Refunds : BeginRefund(h, r)
           \/ \E h \in Couriers, r \in Refunds : RefundWebhook(h, r)
           \/ \E h \in Handlers : Abort(h)
           \/ \E t \in Topups : Pay(t)
           \/ \E r \in Refunds : Conclude(r)
           \/ UNCHANGED vars
  BY <1>3 DEF Initiate, Verify, Captured, Settle, BeginRefund, RefundWebhook, Abort, Pay, Conclude,
     vars, money
<1> QED BY <1>1, <1>2, <1>3 DEF Next, money

\* Each credit and each debit of the wallet is on some payment's account.
LEMMA ConservedKept == ASSUME IInv, Finite, Conserved, [Next]_vars PROVE Conserved'
<1>1. IsFiniteSet(Payments)
  BY FS_Union DEF Finite, Payments
<1>2. CASE UNCHANGED moved /\ wallet' + spent' = wallet + spent
  BY <1>2 DEF Conserved
<1>3. ASSUME NEW x \in Payments, NEW n \in Int, Move(x, n) PROVE Conserved'
  <2>1. /\ wallet' = wallet + n /\ spent' = spent
        /\ moved' = [moved EXCEPT ![x] = @ + n]
        /\ moved \in [Payments -> Int] /\ wallet \in Nat /\ spent \in Nat
    BY <1>3 DEF Move, IInv, TypeOK, Payments
  <2>2. /\ \A y \in Payments : moved[y] \in Int /\ moved'[y] \in Int
        /\ \A y \in Payments \ {x} : moved[y] = moved'[y]
        /\ moved'[x] - moved[x] = n
    BY <2>1
  <2>3. SumFunctionOnSet(moved', Payments) = SumFunctionOnSet(moved, Payments) + n
    BY <1>1, <2>2, SumChange
  <2>4. SumFunctionOnSet(moved, Payments) \in Int
    BY <1>1, <2>2, SumInt
  <2> QED BY <2>1, <2>3, <2>4 DEF Conserved
<1>4. ASSUME NEW h \in Handlers, Credit(h) PROVE Conserved'
  <2>1. proc[h].of \in Topups /\ Paid[proc[h].of] \in Int
    BY <1>4, TopUpAssumption DEF Credit, At, IInv, Named, TopupSteps, TopUpAssumption
  <2> QED BY <1>3, <1>4, <2>1 DEF Credit, Payments
<1>5. ASSUME NEW h \in Handlers, Debit(h) \/ Return(h) PROVE Conserved'
  <2>1. proc[h].of \in Refunds /\ Asked[proc[h].of] \in Int /\ -Asked[proc[h].of] \in Int
    BY <1>5, TopUpAssumption DEF Debit, Return, At, IInv, Named, RefundSteps, TopUpAssumption
  <2> QED BY <1>3, <1>5, <2>1 DEF Debit, Return, Payments
<1> QED BY <1>2, <1>4, <1>5, MovesOfMoney

LEMMA CreditIsCapturedKept ==
    ASSUME IInv, CreditIsCaptured, [Next]_vars PROVE CreditIsCaptured'
<1>1. captured \subseteq captured'
  BY DEF Next, Serve, Initiate, Verify, Captured, Settle, BeginRefund, RefundWebhook, Abort, Pay,
     Conclude, Book, CancelBooking, RecordOrder, Reserve, Credit, Mark, CheckWallet, OpenRefund,
     WriteDebit, Debit, DebitFails, Send, Link, Finish, Reverse, Return, Fail, Skip, GiveUp, vars, outside
<1>2. \A t \in Topups : moved'[t] # 0 => t \in captured
  <2>1. ASSUME NEW h \in Handlers, Credit(h), NEW t \in Topups, moved'[t] # 0 PROVE t \in captured
    <3>1. proc[h].of \in Topups /\ proc[h].of \in captured
      BY <2>1 DEF Credit, At, CreditIsCaptured, IInv, Named, TopupSteps
    <3>2. CASE t = proc[h].of
      BY <3>1, <3>2
    <3>3. CASE t # proc[h].of
      <4>1. moved'[t] = moved[t]
        BY <2>1, <3>1, <3>3 DEF Credit, Move, IInv, TypeOK
      <4> QED BY <2>1, <4>1 DEF CreditIsCaptured
    <3> QED BY <3>2, <3>3
  <2>2. ASSUME NEW h \in Handlers, Debit(h) \/ Return(h), NEW t \in Topups, moved'[t] # 0
        PROVE  t \in captured
    <3>1. proc[h].of \in Refunds /\ proc[h].of # t
      BY <2>2, TopUpAssumption DEF Debit, Return, At, IInv, Named, RefundSteps, TopUpAssumption
    <3>2. moved'[t] = moved[t]
      BY <2>2, <3>1 DEF Debit, Return, Move, IInv, TypeOK
    <3> QED BY <2>2, <3>2 DEF CreditIsCaptured
  <2>3. UNCHANGED moved => \A t \in Topups : moved'[t] # 0 => t \in captured
    BY DEF CreditIsCaptured
  <2> QED BY <2>1, <2>2, <2>3, MovesOfMoney
<1>3. \A h \in Handlers : proc'[h].pc \in {"reserving", "crediting"} => proc'[h].of \in captured
  <2>1. ASSUME NEW h \in Handlers, Serve(h), NEW g \in Handlers,
               proc'[g].pc \in {"reserving", "crediting"}
        PROVE  proc'[g].of \in captured
    <3>1. CASE Reserve(h)
      <4>1. \E pc \in {"crediting", "marking"} : MovesTo(h, pc, proc[h].of)
        BY <3>1, GoMoves DEF Reserve, IInv, Steps, TopupSteps
      <4>2. proc[h].pc = "reserving"
        BY <3>1 DEF Reserve, At
      <4> QED BY <2>1, <4>1, <4>2 DEF MovesTo, CreditIsCaptured
    <3>2. CASE ~Reserve(h)
      <4>1. proc'[h].pc \notin {"reserving", "crediting"}
        <5>1. CASE RecordOrder(h) \/ Mark(h) \/ Link(h) \/ Finish(h) \/ Fail(h) \/ GiveUp(h)
          <6>1. MovesTo(h, "idle", None)
            BY <5>1, RestMoves DEF IInv, RecordOrder, Mark, Link, Finish, Fail, GiveUp
          <6> QED BY <6>1 DEF MovesTo
        <5>2. CASE \/ Credit(h) \/ CheckWallet(h) \/ OpenRefund(h) \/ WriteDebit(h) \/ Debit(h)
                   \/ DebitFails(h) \/ Reverse(h) \/ Return(h) \/ Skip(h)
          <6>1. \E pc \in Steps \ {"reserving", "crediting"} : MovesTo(h, pc, proc[h].of)
            BY <5>2, GoMoves DEF IInv, Credit, CheckWallet, OpenRefund, WriteDebit, Debit, DebitFails,
               Reverse, Return, Skip, Steps, TopupSteps, RefundSteps
          <6> QED BY <6>1 DEF MovesTo
        <5>3. ASSUME NEW reply \in Replies, Send(h, reply)
              PROVE  proc'[h].pc \notin {"reserving", "crediting"}
          <6>1. PICK pc \in {"linking", "reversing"} :
                    proc'[h] = [proc[h] EXCEPT !.reply = reply, !.pc = pc]
            BY <5>3 DEF Send, Become, IInv, TypeOK
          <6>2. proc[h] \in Process
            BY DEF IInv, TypeOK
          <6> QED BY <6>1, <6>2 DEF Process
        <5> QED BY <2>1, <3>2, <5>1, <5>2, <5>3 DEF Serve
      <4>2. \A k \in Handlers : k # h => proc'[k] = proc[k]
        BY <2>1 DEF Serve, IInv, RecordOrder, Reserve, Credit, Mark, CheckWallet, OpenRefund,
           WriteDebit, Debit, DebitFails, Link, Finish, Reverse, Return, Fail, Skip, GiveUp, Send,
           Become, Go, TypeOK
      <4> QED BY <2>1, <4>1, <4>2 DEF CreditIsCaptured
    <3> QED BY <3>1, <3>2
  <2>2. ASSUME NEW h \in Handlers, NEW t \in Topups, Verify(h, t) \/ Captured(h, t)
        PROVE  \A g \in Handlers : proc'[g].pc \in {"reserving", "crediting"} => proc'[g].of \in captured
    <3>1. MovesTo(h, "reserving", t) /\ t \in captured
      BY <2>2, TakeMoves DEF IInv, Verify, Captured, Settle, FirstSettle, Steps, TopupSteps
    <3> QED BY <3>1 DEF MovesTo, CreditIsCaptured
  <2>3. ASSUME NEW h \in Handlers,
               \/ Abort(h) \/ \E t \in Topups : Initiate(h, t)
               \/ \E r \in Refunds : BeginRefund(h, r) \/ RefundWebhook(h, r)
        PROVE  \A g \in Handlers : proc'[g].pc \in {"reserving", "crediting"} => proc'[g].of \in captured
    <3>1. \E x : \E pc \in {"idle", "ordering", "affording", "reversing", "finishing"} : MovesTo(h, pc, x)
      BY <2>3, TakeMoves, RestMoves DEF IInv, Abort, Initiate, BeginRefund, RefundWebhook, Steps,
         TopupSteps, RefundSteps
    <3> QED BY <3>1 DEF MovesTo, CreditIsCaptured
  <2>4. UNCHANGED proc => \A g \in Handlers : proc'[g].pc \in {"reserving", "crediting"} => proc'[g].of \in captured
    BY DEF CreditIsCaptured
  <2> QED BY <2>1, <2>2, <2>3, <2>4 DEF Next, Pay, Conclude, Book, CancelBooking, vars, Handlers
<1> QED BY <1>1, <1>2, <1>3 DEF CreditIsCaptured

Conserving == CreditIsCaptured /\ Conserved

LEMMA ConservingInitially == ASSUME Finite PROVE Init => Conserving
<1> SUFFICES ASSUME Init PROVE Conserving
  OBVIOUS
<1>1. CreditIsCaptured
  BY DEF Init, CreditIsCaptured, Idle
<1>2. IsFiniteSet(Payments)
  BY FS_Union DEF Finite, Payments
<1>3. SumFunctionOnSet(moved, Payments) = 0
  <2>1. \A x \in Payments : moved[x] = 0
    BY DEF Init, Payments
  <2> QED BY <1>2, <2>1, SumZeros
<1> QED BY <1>1, <1>3 DEF Init, Conserved, Conserving

\* Refunds on the card are out of the wallet, and the others brought nothing in.
LEMMA RefundsBringNothing ==
    ASSUME IInv, Refunding, NothingLost, Finite, NEW Out,
           Out = {r \in Refunds : gateway[r] \in {"pending", "processed"}}
    PROVE  SumFunctionOnSet(moved, Refunds) + SumFunctionOnSet(Asked, Out) <= 0
<1> DEFINE Nothing == [r \in Refunds |-> 0]
           Rest == Refunds \ Out
<1>1. \A r \in Refunds : moved[r] \in Int /\ Asked[r] \in Nat /\ Nothing[r] = 0
  BY TopUpAssumption DEF IInv, TypeOK, TopUpAssumption
<1>2. /\ IsFiniteSet(Refunds) /\ Out \in SUBSET Refunds /\ IsFiniteSet(Out) /\ IsFiniteSet(Rest)
  BY FS_Subset DEF Finite
<1>3. \A r \in Out : moved[r] + Asked[r] = 0
  BY <1>1 DEF IInv, RefundIsDebited
<1>4. \A r \in Refunds : moved[r] <= 0
  BY <1>1 DEF Refunding, OutOrBack
<1> HIDE DEF Nothing
<1>5. SumFunctionOnSet(moved, Refunds) = SumFunctionOnSet(moved, Out) + SumFunctionOnSet(moved, Rest)
  BY <1>1, <1>2, SumDisjoint
<1>6. SumFunctionOnSet(moved, Rest) <= 0
  <2>1. SumFunctionOnSet(moved, Rest) <= SumFunctionOnSet(Nothing, Rest)
    <3>1. \A r \in Rest : moved[r] \in Int /\ Nothing[r] \in Int /\ moved[r] <= Nothing[r]
      BY <1>1, <1>4
    <3> HIDE DEF Rest
    <3> QED BY <1>2, <3>1, SumAtMost
  <2>2. SumFunctionOnSet(Nothing, Rest) = 0
    <3>1. \A r \in Rest : Nothing[r] = 0
      BY <1>1
    <3> HIDE DEF Rest
    <3> QED BY <1>2, <3>1, SumZeros
  <2> QED BY <2>1, <2>2
<1>7. SumFunctionOnSet(moved, Out) + SumFunctionOnSet(Asked, Out) = 0
  <2>1. \A r \in Out : moved[r] \in Int /\ Asked[r] \in Int /\ Nothing[r] = moved[r] + Asked[r]
    BY <1>1, <1>2, <1>3
  <2>2. SumFunctionOnSet(Nothing, Out) = SumFunctionOnSet(moved, Out) + SumFunctionOnSet(Asked, Out)
    BY <1>2, <2>1, SumPlus
  <2>3. SumFunctionOnSet(Nothing, Out) = 0
    BY <1>1, <1>2, SumZeros
  <2> QED BY <2>2, <2>3
<1>8. /\ SumFunctionOnSet(moved, Out) \in Int /\ SumFunctionOnSet(Asked, Out) \in Int
      /\ SumFunctionOnSet(moved, Rest) \in Int
  <2>1. \A r \in Out : moved[r] \in Int /\ Asked[r] \in Int
    BY <1>1, <1>2
  <2>2. \A r \in Rest : moved[r] \in Int
    BY <1>1
  <2> HIDE DEF Rest
  <2> QED BY <1>2, <2>1, <2>2, SumInt
<1> QED BY <1>5, <1>6, <1>7, <1>8

\* A top-up brings in what was paid, once it is captured.
LEMMA TopupsBringWhatWasPaid ==
    ASSUME IInv, CreditIsCaptured, Finite
    PROVE  SumFunctionOnSet(moved, Topups) <= SumFunctionOnSet(Paid, captured)
<1> DEFINE Rest == Topups \ captured
<1>1. /\ \A t \in Topups : moved[t] \in Int /\ Paid[t] \in Nat /\ moved[t] <= Paid[t]
      /\ \A t \in Rest : moved[t] = 0
  <2>1. \A t \in Topups : moved[t] \in Int /\ Paid[t] \in Nat
    BY TopUpAssumption DEF IInv, TypeOK, TopUpAssumption
  <2>2. \A t \in Topups : (moved[t] = 0 \/ moved[t] = Paid[t]) /\ (moved[t] # 0 => t \in captured)
    BY DEF IInv, Credited, CreditIsCaptured
  <2> QED BY <2>1, <2>2
<1>2. /\ IsFiniteSet(Topups) /\ captured \in SUBSET Topups /\ IsFiniteSet(captured)
      /\ IsFiniteSet(Rest)
  BY FS_Subset DEF Finite, IInv, TypeOK
<1>3. SumFunctionOnSet(moved, Topups) =
          SumFunctionOnSet(moved, captured) + SumFunctionOnSet(moved, Rest)
  BY <1>1, <1>2, SumDisjoint
<1> HIDE DEF Rest
<1>4. SumFunctionOnSet(moved, Rest) = 0
  BY <1>1, <1>2, SumZeros
<1>5. \A t \in captured : moved[t] \in Int /\ Paid[t] \in Int /\ moved[t] <= Paid[t]
  BY <1>1, <1>2
<1>6. SumFunctionOnSet(moved, captured) <= SumFunctionOnSet(Paid, captured)
  BY <1>2, <1>5, SumAtMost
<1>7. SumFunctionOnSet(moved, captured) \in Int /\ SumFunctionOnSet(Paid, captured) \in Int
  BY <1>2, <1>5, SumInt
<1> QED BY <1>3, <1>4, <1>6, <1>7

LEMMA NothingCreated ==
    ASSUME IInv, Refunding, Conserving, NothingLost, Finite
    PROVE  NoMoneyCreated
<1> DEFINE Out == {r \in Refunds : gateway[r] \in {"pending", "processed"}}
<1>1. \A x \in Payments : moved[x] \in Int
  BY DEF IInv, TypeOK, Payments
<1>2. IsFiniteSet(Payments) /\ Topups \in SUBSET Payments
  BY FS_Union DEF Finite, Payments
<1>3. Payments \ Topups = Refunds
  BY TopUpAssumption DEF Payments, TopUpAssumption
<1>4. SumFunctionOnSet(moved, Payments) =
          SumFunctionOnSet(moved, Topups) + SumFunctionOnSet(moved, Payments \ Topups)
  BY <1>1, <1>2, SumDisjoint
<1>5. SumFunctionOnSet(moved, Payments \ Topups) = SumFunctionOnSet(moved, Refunds)
  BY <1>3, Zenon
<1>6. SumFunctionOnSet(moved, Topups) <= SumFunctionOnSet(Paid, captured)
  BY TopupsBringWhatWasPaid DEF Conserving
<1> HIDE DEF Out
<1>7. SumFunctionOnSet(moved, Refunds) + SumFunctionOnSet(Asked, Out) <= 0
  BY RefundsBringNothing DEF Out
<1>8. /\ SumFunctionOnSet(moved, Topups) \in Int /\ SumFunctionOnSet(moved, Refunds) \in Int
      /\ SumFunctionOnSet(Asked, Out) \in Int /\ SumFunctionOnSet(Paid, captured) \in Int
  <2>1. /\ IsFiniteSet(Topups) /\ IsFiniteSet(Refunds) /\ IsFiniteSet(Out) /\ IsFiniteSet(captured)
        /\ \A t \in Topups : moved[t] \in Int
        /\ \A r \in Refunds : moved[r] \in Int
        /\ \A r \in Out : Asked[r] \in Int
        /\ \A t \in captured : Paid[t] \in Int
    BY FS_Subset, TopUpAssumption DEF Finite, IInv, TypeOK, Out, TopUpAssumption
  <2> QED BY <2>1, SumInt
<1>9. wallet + spent + SumFunctionOnSet(Asked, Out) <= SumFunctionOnSet(Paid, captured)
  BY <1>4, <1>5, <1>6, <1>7, <1>8 DEF Conserving, Conserved
<1> QED BY <1>9 DEF NoMoneyCreated, Out

\* The ledger of the payments is complete, whatever is cut off, repeated, raced
\* or lost: what the guest holds, in the wallet and in bookings, is what the
\* payments have moved.
THEOREM MoneyIsConserved == ASSUME Finite PROVE Spec => []Conserved
<1>1. IInv /\ Conserved /\ [Next]_vars => Conserved'
  BY ConservedKept
<1>2. Init => Conserved
  BY ConservingInitially DEF Conserving
<1> QED BY Invariant, <1>1, <1>2, PTL DEF Spec

\* The guest never has more than was paid in, in the wallet, in bookings and on
\* the card together, when every answer of the gateway arrives and refund webhooks
\* are handled one after the other and to their end; requests race and are cut off
\* anywhere.
THEOREM NeverCreatesMoney ==
    ASSUME Finite, SerialWebhooks, "lost" \notin Replies PROVE Spec => []NoMoneyCreated
<1> DEFINE Whole == Refunding /\ Conserving
<1>1. NothingLost
  BY DEF NothingLost
<1>2. IInv /\ Whole /\ [Next]_vars => Whole'
  BY <1>1, RefundingKept, ConservedKept, CreditIsCapturedKept DEF Conserving
<1>3. Init => Whole
  BY RefundingInitially, ConservingInitially
<1>4. IInv /\ Whole => NoMoneyCreated
  BY <1>1, NothingCreated
<1> HIDE DEF Whole
<1> QED BY Invariant, <1>2, <1>3, <1>4, PTL DEF Spec

\* A refund that failed is given back once, under the same circumstances: what
\* user_service.go:843 says of the deterministic key holds only because nobody
\* comes twice.
THEOREM SerialWebhooksReturnOnce ==
    ASSUME SerialWebhooks, "lost" \notin Replies PROVE Spec => []ReturnedOnce
<1>1. NothingLost
  BY DEF NothingLost
<1>2. IInv /\ Refunding /\ [Next]_vars => Refunding'
  BY <1>1, RefundingKept
<1>3. Refunding => ReturnedOnce
  BY TopUpAssumption DEF Refunding, OutOrBack, ReturnedOnce, TopUpAssumption
<1> QED BY Invariant, RefundingInitially, <1>2, <1>3, PTL DEF Spec

==============================================================================
