---------------------------- MODULE BookingProofs ----------------------------
(***************************************************************************)
(* What TLAPS proves about the booking desk, for any number of guests,     *)
(* requests, handlers and occurrences, any prices, terms and capacities.   *)
(***************************************************************************)
EXTENDS Booking, Sums

------------------------------------------------------------------------------
(* The price of a booking.                                                 *)

\* A floored percentage of an amount is part of the amount.
LEMMA PercentageIsPart ==
    ASSUME NEW t \in Nat, NEW p \in 0..100
    PROVE  (t * p) \div 100 \in 0..t
<1>1. t * p \in Nat /\ t * p <= t * 100
  <2>1. t * p \in Nat
    BY SMT
  <2>2. t * (100 - p) \in Nat
    <3>1. 100 - p \in Nat
      BY SMT
    <3> QED BY <3>1, SMT
  <2>3. t * (100 - p) = t * 100 - t * p
    BY SMT
  <2> QED BY <2>1, <2>2, <2>3, SMT
<1> DEFINE x == t * p
<1>2. x \in Nat /\ x <= t * 100
  BY <1>1
<1> HIDE DEF x
<1>3. x \div 100 \in 0..t
  BY <1>2, SMT
<1> QED BY <1>3 DEF x

\* Charge splits what it takes between the platform and the host, to the cent.
LEMMA ChargeSplits ==
    ASSUME NEW t \in Nat, NEW p \in 0..100, NEW x \in Nat
    PROVE  /\ Charge(t, p, x) \in Charges
           /\ Charge(t, p, x).amount = Charge(t, p, x).fee + Charge(t, p, x).net
<1>1. PlatformFee(t, p) \in 0..t
  BY PercentageIsPart DEF PlatformFee
<1> HIDE DEF PlatformFee
<1> QED BY <1>1, SMT DEF Charge, Charges, HostEarning

LEMMA QuoteSplits ==
    ASSUME NEW k \in Keys, feePercent \in 0..100
    PROVE  /\ Quote(k) \in Charges
           /\ Quote(k).amount = Quote(k).fee + Quote(k).net
<1> DEFINE r == Request[k]
           full == Price * r.qty
<1>1. r \in Requests /\ Price \in Nat /\ MaxParty \in Nat
  BY RequestAssumption, MoneyAssumption, FinitenessAssumption
<1>2. full \in Nat
  <2>1. r.qty \in Nat
    BY <1>1 DEF Requests
  <2> QED BY <1>1, <2>1, SMT
<1>3. TicketTotal(k) \in Nat
  <2>1. CASE r.coupon = None
    BY <1>2, <2>1 DEF TicketTotal
  <2>2. CASE r.coupon # None
    <3>1. CouponOf[r.coupon].discount \in 0..100
      BY <1>1, <2>2, MoneyAssumption DEF Requests
    <3>2. DiscountCents(full, CouponOf[r.coupon].discount) \in 0..full
      BY <1>2, <3>1, PercentageIsPart DEF DiscountCents
    <3> HIDE DEF DiscountCents
    <3> QED BY <1>2, <2>2, <3>2 DEF TicketTotal
  <2> QED BY <2>1, <2>2
<1> DEFINE total == TicketTotal(k)
           extra == IF r.online THEN FeeCents(GuestFee, total) ELSE 0
<1>4. extra \in Nat
  <2>1. GuestFee.amount \in Nat /\ GuestFee.percentage \in 0..100
    BY MoneyAssumption
  <2>2. (total * GuestFee.percentage) \div 100 \in 0..total
    BY <1>3, <2>1, PercentageIsPart
  <2> QED BY <2>1, <2>2, <1>3 DEF FeeCents
<1>5. /\ Charge(total, feePercent, extra) \in Charges
      /\ Charge(total, feePercent, extra).amount
            = Charge(total, feePercent, extra).fee + Charge(total, feePercent, extra).net
  BY <1>3, <1>4, ChargeSplits
<1>6. NoCharge \in Charges /\ NoCharge.amount = NoCharge.fee + NoCharge.net
  BY DEF NoCharge, Charges
<1> QED BY <1>5, <1>6 DEF Quote

------------------------------------------------------------------------------
(* Type correctness.                                                       *)

\* At and Become keep proc a function to handler records.
LEMMA HandlerTypes ==
    ASSUME TypeOK, NEW h \in Handlers, NEW k \in Keys
    PROVE  /\ \A pc \in Steps : At(pc, k) \in [pc: Steps, key: Keys \cup {None},
                                               quote: Charges, number: Nat]
           /\ Idle \in [pc: Steps, key: Keys \cup {None}, quote: Charges, number: Nat]
           /\ \A p \in [pc: Steps, key: Keys \cup {None}, quote: Charges, number: Nat] :
                 Become(h, p) => proc' \in [Handlers -> [pc: Steps, key: Keys \cup {None},
                                                         quote: Charges, number: Nat]]
<1>1. Idle \in [pc: Steps, key: Keys \cup {None}, quote: Charges, number: Nat]
  BY DEF Idle, Steps, NoCharge, Charges
<1>2. \A pc \in Steps : At(pc, k) \in [pc: Steps, key: Keys \cup {None},
                                       quote: Charges, number: Nat]
  BY <1>1 DEF At
<1> QED BY <1>1, <1>2 DEF Become, TypeOK

\* Every step of a handler serving a key keeps the types.
LEMMA KeyStepTypes ==
    ASSUME TypeOK, NEW h \in Handlers, NEW k \in Keys, KeyStep(h, k)
    PROVE  TypeOK'
<1> DEFINE Proc == [pc: Steps, key: Keys \cup {None}, quote: Charges, number: Nat]
<1>0. /\ Idle \in Proc
      /\ \A pc \in Steps : At(pc, k) \in Proc
      /\ \A p \in Proc : Become(h, p) => proc' \in [Handlers -> Proc]
  BY HandlerTypes
<1>r. /\ Request[k].guest \in Guests /\ Request[k].qty \in Nat
      /\ Request[k].coupon \in Coupons \cup {None}
      /\ Request[k].pass \in Passes \cup {None}
  BY RequestAssumption, FinitenessAssumption DEF Requests
<1>q. Quote(k) \in Charges
  BY QuoteSplits DEF TypeOK
<1>1. CASE ReplayCreate(h, k)
  <2>1. proc' \in [Handlers -> Proc]
    BY <1>0, <1>1 DEF ReplayCreate, Steps
  <2> QED BY <1>1, <2>1 DEF ReplayCreate, TypeOK, rows, money, event, codes, world
<1>2. CASE BeginCreate(h, k)
  <2>1. [At("creating", k) EXCEPT !.quote = Quote(k)] \in Proc
    BY <1>0, <1>q DEF Steps
  <2>2. proc' \in [Handlers -> Proc]
    BY <1>0, <1>2, <2>1 DEF BeginCreate
  <2> QED BY <1>2, <2>2 DEF BeginCreate, TypeOK, rows, money, event, codes, world
<1>3. CASE CommitCreate(h, k)
  <2> DEFINE g == Request[k].guest
             q == proc[h].quote
  <2>1. q \in Charges /\ q.amount \in Nat /\ q.fee \in Nat /\ q.net \in Nat
    BY DEF TypeOK, Charges
  <2>2. wallet' \in [Guests -> Nat]
    <3>1. wallet[g] \in Nat /\ q.amount <= wallet[g]
      BY <1>3, <1>r DEF CommitCreate, MayDebit, TypeOK
    <3>2. wallet[g] - q.amount \in Nat
      BY <2>1, <3>1, SMT
    <3>3. wallet' = [wallet EXCEPT ![g] = @ - q.amount]
      BY <1>3 DEF CommitCreate
    <3> QED BY <3>2, <3>3 DEF TypeOK
  <2>3. entries' \in [Keys -> [user: Int, platform: Int, host: Int]]
    BY <1>3, <2>1 DEF CommitCreate, TypeOK, CreditSplit
  <2>4. journal' \subseteq {"booking", "refund"} \X Keys
    BY <1>3 DEF CommitCreate, TypeOK
  <2>5. redeemed' \in [Coupons -> Nat]
    BY <1>3, <1>r DEF CommitCreate, TypeOK
  <2>6. sessionsUsed' \in [Passes -> Nat]
    BY <1>3, <1>r DEF CommitCreate, TypeOK
  <2>7. proc' \in [Handlers -> Proc]
    BY <1>0, <1>3 DEF CommitCreate, Steps
  <2>8. /\ status' \in [Keys -> {"none", "pending", "confirmed", "cancelled", "refunded"}]
        /\ charge' \in [Keys -> Charges]
        /\ payment' \in [Keys -> {"none", "completed", "reversed"}]
        /\ earnings' \in Nat
    BY <1>3, <2>1 DEF CommitCreate, TypeOK
  <2> QED BY <1>3, <2>2, <2>3, <2>4, <2>5, <2>6, <2>7, <2>8
          DEF CommitCreate, TypeOK, event, world
<1>4. CASE CountBooking(h, k)
  <2>1. proc' \in [Handlers -> Proc]
    BY <1>0, <1>4 DEF CountBooking
  <2> QED BY <1>4, <1>r, <2>1 DEF CountBooking, TypeOK, rows, money, codes, world
<1>5. CASE BeginConfirm(h, k)
  <2>1. proc' \in [Handlers -> Proc]
    BY <1>0, <1>5 DEF BeginConfirm, Steps
  <2> QED BY <1>5, <2>1 DEF BeginConfirm, TypeOK, rows, money, event, codes, world
<1>6. CASE CommitConfirm(h, k)
  <2>1. proc' \in [Handlers -> Proc]
    BY <1>0, <1>6 DEF CommitConfirm, Steps
  <2> QED BY <1>6, <2>1 DEF CommitConfirm, TypeOK, money, event, codes, world
<1>7. CASE BeginCancel(h, k) \/ BeginCancelByHost(h, k)
  <2>1. proc' \in [Handlers -> Proc]
    BY <1>0, <1>7 DEF BeginCancel, BeginCancelByHost, Steps
  <2> QED BY <1>7, <2>1 DEF BeginCancel, BeginCancelByHost, TypeOK, rows, money,
                            event, codes, world
<1>8. CASE CommitCancel(h, k)
  <2>1. charge[k].amount \in Nat /\ charge[k].fee \in Nat /\ charge[k].net \in Nat
    BY DEF TypeOK, Charges
  <2>2. proc' \in [Handlers -> Proc]
    BY <1>0, <1>8 DEF CommitCancel
  <2>3. wallet' \in [Guests -> Nat]
    BY <1>8, <1>r, <2>1 DEF CommitCancel, TypeOK
  <2>4. entries' \in [Keys -> [user: Int, platform: Int, host: Int]]
    BY <1>8, <2>1 DEF CommitCancel, TypeOK, ReverseSplit
  <2>5. journal' \subseteq {"booking", "refund"} \X Keys
    BY <1>8 DEF CommitCancel, TypeOK
  <2>6. sessionsUsed' \in [Passes -> Nat]
    <3> DEFINE p == Request[k].pass
               left == IF sessionsUsed[p] = 0 THEN 0 ELSE sessionsUsed[p] - 1
    <3>1. sessionsUsed' = IF p = None THEN sessionsUsed
                          ELSE [sessionsUsed EXCEPT ![p] = left]
      BY <1>8 DEF CommitCancel, SessionsAfterCancel
    <3>2. p # None => left \in Nat
      BY <1>r, SMT DEF TypeOK
    <3> QED BY <3>1, <3>2 DEF TypeOK
  <2>7. /\ status' \in [Keys -> {"none", "pending", "confirmed", "cancelled", "refunded"}]
        /\ payment' \in [Keys -> {"none", "completed", "reversed"}]
        /\ earnings' \in Nat
    BY <1>8, <2>1 DEF CommitCancel, TypeOK
  <2> QED BY <1>8, <2>2, <2>3, <2>4, <2>5, <2>6, <2>7
          DEF CommitCancel, TypeOK, event, world
<1>9. CASE \E n \in 1..MaxParty : BeginScan(h, k, n)
  <2> PICK n \in 1..MaxParty : BeginScan(h, k, n)
    BY <1>9
  <2>1. n \in Nat
    BY FinitenessAssumption
  <2>2. [At("admitting", k) EXCEPT !.number = n] \in Proc
    BY <1>0, <2>1 DEF Steps
  <2>3. proc' \in [Handlers -> Proc]
    BY <1>0, <2>2 DEF BeginScan
  <2> QED BY <2>3 DEF BeginScan, TypeOK, rows, money, event, codes, world
<1>10. CASE CommitScan(h, k)
  <2>1. proc' \in [Handlers -> Proc]
    BY <1>0, <1>10 DEF CommitScan
  <2> QED BY <1>10, <2>1 DEF CommitScan, TypeOK, money, event, codes, world
<1> QED BY <1>1, <1>2, <1>3, <1>4, <1>5, <1>6, <1>7, <1>8, <1>9, <1>10 DEF KeyStep

\* The rest of Next keeps the types.
LEMMA OtherStepTypes ==
    ASSUME TypeOK,
           \/ \E h \in Handlers : BeginUpdateEvent(h) \/ CommitUpdateEvent(h) \/ Abandon(h)
           \/ SetFeePercent
           \/ \E o \in Occurrences : Start(o)
    PROVE  TypeOK'
<1> DEFINE Proc == [pc: Steps, key: Keys \cup {None}, quote: Charges, number: Nat]
<1>0. Idle \in Proc
  BY DEF Idle, Steps, NoCharge, Charges
<1>1. CASE \E h \in Handlers : BeginUpdateEvent(h)
  <2> PICK h \in Handlers : BeginUpdateEvent(h)
    BY <1>1
  <2>1. [Idle EXCEPT !.pc = "editing", !.number = totalBookings] \in Proc
    BY <1>0 DEF TypeOK, Steps
  <2>2. proc' \in [Handlers -> Proc]
    BY <2>1 DEF BeginUpdateEvent, TypeOK
  <2> QED BY <2>2 DEF BeginUpdateEvent, TypeOK, rows, money, event, codes, world
<1>2. CASE \E h \in Handlers : CommitUpdateEvent(h)
  <2> PICK h \in Handlers : CommitUpdateEvent(h)
    BY <1>2
  <2>1. proc' \in [Handlers -> Proc]
    BY <1>0 DEF CommitUpdateEvent, Become, TypeOK
  <2>2. capacity' \in Nat /\ totalBookings' \in Nat
    BY MoneyAssumption DEF CommitUpdateEvent, TypeOK
  <2> QED BY <2>1, <2>2 DEF CommitUpdateEvent, TypeOK, rows, money, codes, world
<1>3. CASE \E h \in Handlers : Abandon(h)
  <2> PICK h \in Handlers : Abandon(h)
    BY <1>3
  <2>1. proc' \in [Handlers -> Proc]
    BY <1>0 DEF Abandon, Become, TypeOK
  <2> QED BY <2>1 DEF Abandon, TypeOK, rows, money, event, codes, world
<1>4. CASE SetFeePercent
  BY <1>4, MoneyAssumption DEF SetFeePercent, TypeOK, rows, money, event, codes
<1>5. CASE \E o \in Occurrences : Start(o)
  BY <1>5 DEF Start, TypeOK, rows, money, event, codes
<1> QED BY <1>1, <1>2, <1>3, <1>4, <1>5

LEMMA TypesInitially == Init => TypeOK
<1> SUFFICES ASSUME Init PROVE TypeOK
  OBVIOUS
<1>1. NoCharge \in Charges
  BY DEF NoCharge, Charges
<1>2. NoEntries \in [user: Int, platform: Int, host: Int]
  BY DEF NoEntries
<1>3. Idle \in [pc: Steps, key: Keys \cup {None}, quote: Charges, number: Nat]
  BY <1>1 DEF Idle, Steps
<1>4. capacity \in Nat /\ feePercent \in 0..100 /\ wallet \in [Guests -> Nat]
  BY MoneyAssumption DEF Init
<1> QED BY <1>1, <1>2, <1>3, <1>4 DEF Init, TypeOK

LEMMA TypesPreserved == TypeOK /\ [Next]_vars => TypeOK'
<1> SUFFICES ASSUME TypeOK, [Next]_vars PROVE TypeOK'
  OBVIOUS
<1>1. CASE UNCHANGED vars
  BY <1>1 DEF vars, rows, money, event, codes, world, TypeOK
<1>2. CASE Next
  BY <1>2, KeyStepTypes, OtherStepTypes DEF Next
<1> QED BY <1>1, <1>2

\* The database and the handlers always hold values of their types: in
\* particular no wallet is ever overdrawn, whatever debits race for it.
THEOREM TypeCorrect == Spec => []TypeOK
BY TypesInitially, TypesPreserved, PTL DEF Spec

------------------------------------------------------------------------------
(* The books.                                                              *)
(*                                                                         *)
(* LedgerBalanced is not inductive: a purchase adds the split of a quote   *)
(* to whatever the key has in the ledger, so it must be known that a key   *)
(* without a row has nothing there, and that a quote in a handler's hands  *)
(* splits to the cent.                                                     *)

Splits(c) == c.amount = c.fee + c.net

QuotesSplit == \A h \in Handlers : Splits(proc[h].quote)

BlankRows == \A k \in Keys : status[k] = "none" => charge[k] = NoCharge /\ ~Refunded(k)

Books == TypeOK /\ LedgerBalanced /\ BlankRows /\ QuotesSplit

\* A step that moves neither money nor rows leaves the ledger balanced.
LEMMA BooksUntouched ==
    ASSUME LedgerBalanced, UNCHANGED <<charge, entries, journal>>
    PROVE  LedgerBalanced'
BY DEF LedgerBalanced, Refunded

LEMMA BlankRowsUntouched ==
    ASSUME BlankRows, UNCHANGED <<charge, journal>>,
           \A k \in Keys : status'[k] = "none" => status[k] = "none"
    PROVE  BlankRows'
BY DEF BlankRows, Refunded

LEMMA QuotesOfIdle == Splits(Idle.quote) /\ \A pc \in Steps, k \in Keys : Splits(At(pc, k).quote)
BY SMT DEF Splits, Idle, At, NoCharge

\* What a handler does next holds no quote but the one it has just made.
LEMMA QuotesKept ==
    ASSUME QuotesSplit, proc \in [Handlers -> [pc: Steps, key: Keys \cup {None},
                                               quote: Charges, number: Nat]],
           NEW h \in Handlers, NEW p, Splits(p.quote), Become(h, p)
    PROVE  QuotesSplit'
<1>1. \A i \in Handlers : proc'[i] = IF i = h THEN p ELSE proc[i]
  BY DEF Become
<1> QED BY <1>1 DEF QuotesSplit, Splits

LEMMA BooksKeptByCreate ==
    ASSUME Books, NEW h \in Handlers, NEW k \in Keys, CommitCreate(h, k)
    PROVE  LedgerBalanced' /\ BlankRows'
<1> DEFINE q == proc[h].quote
<1>1. /\ q \in Charges /\ q.amount \in Nat /\ q.fee \in Nat /\ q.net \in Nat
      /\ q.amount = q.fee + q.net
  BY DEF Books, TypeOK, Charges, QuotesSplit, Splits
<1>2. /\ status[k] = "none" /\ charge[k] = NoCharge /\ ~Refunded(k)
      /\ <<"booking", k>> \notin journal
      /\ entries[k] = NoEntries
  BY SMT DEF CommitCreate, Books, BlankRows, LedgerBalanced, NoCharge, NoEntries, CreditSplit
<1>3. /\ charge' = [charge EXCEPT ![k] = q]
      /\ entries' = [entries EXCEPT ![k] = IF q.amount > 0 THEN CreditSplit(@, q) ELSE @]
      /\ journal' = IF q.amount > 0 THEN journal \cup {<<"booking", k>>} ELSE journal
      /\ status'[k] # "none"
      /\ \A j \in Keys \ {k} : status'[j] = status[j]
  BY DEF CommitCreate, Books, TypeOK
<1>4. \A j \in Keys : Refunded(j)' <=> Refunded(j)
  BY <1>3 DEF Refunded
<1>5. \A j \in Keys \ {k} : /\ charge'[j] = charge[j] /\ entries'[j] = entries[j]
                            /\ <<"booking", j>> \in journal' <=> <<"booking", j>> \in journal
  BY <1>3 DEF Books, TypeOK
<1>6. charge'[k] = q
  BY <1>3 DEF Books, TypeOK
<1>7. entries'[k] = CreditSplit(NoEntries, q)
  <2>1. CASE q.amount > 0
    BY <1>2, <1>3, <2>1 DEF Books, TypeOK
  <2>2. CASE q.amount = 0
    <3>1. q.net = 0 /\ q.fee = 0
      BY <1>1, <2>2, SMT
    <3>2. CreditSplit(NoEntries, q) = NoEntries
      BY <2>2, <3>1, SMT DEF CreditSplit, NoEntries
    <3>3. entries'[k] = entries[k]
      BY <1>3, <2>2, SMT DEF Books, TypeOK
    <3> QED BY <1>2, <3>2, <3>3
  <2> QED BY <1>1, <2>1, <2>2, SMT
<1>8. <<"booking", k>> \in journal' <=> q.amount > 0
  BY <1>2, <1>3
<1>9. ~Refunded(k)'
  BY <1>2, <1>4
<1>10. LedgerBalanced'
  <2> SUFFICES ASSUME NEW j \in Keys
               PROVE  /\ charge'[j].amount = charge'[j].fee + charge'[j].net
                      /\ <<"booking", j>> \in journal' <=> charge'[j].amount > 0
                      /\ entries'[j] = IF Refunded(j)' THEN NoEntries
                                       ELSE CreditSplit(NoEntries, charge'[j])
    BY DEF LedgerBalanced, Refunded, NoEntries, CreditSplit
  <2>1. CASE j = k
    BY <1>1, <1>6, <1>7, <1>8, <1>9, <2>1
  <2>2. CASE j # k
    BY <1>4, <1>5, <2>2 DEF Books, LedgerBalanced
  <2> QED BY <2>1, <2>2
<1>11. BlankRows'
  BY <1>3, <1>4, <1>5 DEF Books, BlankRows, Refunded
<1> QED BY <1>10, <1>11

LEMMA BooksKeptByCancel ==
    ASSUME Books, NEW h \in Handlers, NEW k \in Keys, CommitCancel(h, k)
    PROVE  LedgerBalanced' /\ BlankRows'
<1> DEFINE c == charge[k]
<1>1. /\ c.amount \in Nat /\ c.fee \in Nat /\ c.net \in Nat
      /\ c.amount = c.fee + c.net
  BY DEF Books, TypeOK, Charges, LedgerBalanced
<1>2. /\ c.amount > 0 => ~Refunded(k)
      /\ charge' = charge
      /\ entries' = [entries EXCEPT ![k] = ReverseSplit(@, c)]
      /\ journal' = IF c.amount > 0 THEN journal \cup {<<"refund", k>>} ELSE journal
      /\ status'[k] # "none"
      /\ \A j \in Keys \ {k} : status'[j] = status[j]
  BY DEF CommitCancel, MayRefund, Refunded, Books, TypeOK
<1>3. \A j \in Keys \ {k} : /\ entries'[j] = entries[j]
                            /\ Refunded(j)' <=> Refunded(j)
  BY <1>2 DEF Books, TypeOK, Refunded
<1>4. \A j \in Keys : <<"booking", j>> \in journal' <=> <<"booking", j>> \in journal
  BY <1>2
<1>5. entries'[k] = ReverseSplit(entries[k], c)
  BY <1>2 DEF Books, TypeOK
<1>6. entries'[k] = NoEntries /\ CreditSplit(NoEntries, c) =
         IF c.amount > 0 THEN CreditSplit(NoEntries, c) ELSE NoEntries
  <2>1. CASE c.amount > 0
    <3>1. entries[k] = CreditSplit(NoEntries, c)
      BY <1>2, <2>1 DEF Books, LedgerBalanced
    <3> QED BY <1>1, <1>5, <2>1, <3>1, SMT DEF CreditSplit, ReverseSplit, NoEntries
  <2>2. CASE c.amount = 0
    <3>1. c.net = 0 /\ c.fee = 0
      BY <1>1, <2>2, SMT
    <3>2. CreditSplit(NoEntries, c) = NoEntries
      BY <2>2, <3>1, SMT DEF CreditSplit, NoEntries
    <3>3. entries[k] = NoEntries
      BY <3>2 DEF Books, LedgerBalanced
    <3> QED BY <1>5, <2>2, <3>1, <3>2, <3>3, SMT DEF ReverseSplit, NoEntries
  <2> QED BY <1>1, <2>1, <2>2, SMT
<1>7. c.amount > 0 => Refunded(k)'
  BY <1>2 DEF Refunded
<1>8. LedgerBalanced'
  <2> SUFFICES ASSUME NEW j \in Keys
               PROVE  /\ charge[j].amount = charge[j].fee + charge[j].net
                      /\ <<"booking", j>> \in journal' <=> charge[j].amount > 0
                      /\ entries'[j] = IF Refunded(j)' THEN NoEntries
                                       ELSE CreditSplit(NoEntries, charge[j])
    BY <1>2 DEF LedgerBalanced, Refunded, NoEntries, CreditSplit
  <2>1. CASE j = k
    BY <1>1, <1>4, <1>6, <1>7, <2>1 DEF Books, LedgerBalanced
  <2>2. CASE j # k
    BY <1>3, <1>4, <2>2 DEF Books, LedgerBalanced
  <2> QED BY <2>1, <2>2
<1>9. BlankRows'
  <2>1. \A j \in Keys : status'[j] = "none" => j # k /\ status[j] = "none"
    BY <1>2
  <2> QED BY <1>2, <1>3, <2>1 DEF Books, BlankRows
<1> QED BY <1>8, <1>9

LEMMA BooksKept == Books /\ [Next]_vars => Books'
<1> SUFFICES ASSUME Books, [Next]_vars PROVE Books'
  OBVIOUS
<1>t. TypeOK'
  BY TypesPreserved DEF Books
<1>p. proc \in [Handlers -> [pc: Steps, key: Keys \cup {None}, quote: Charges, number: Nat]]
  BY DEF Books, TypeOK
<1>1. ASSUME NEW h \in Handlers, NEW k \in Keys, KeyStep(h, k)
      PROVE  LedgerBalanced' /\ BlankRows' /\ QuotesSplit'
  <2>i. Splits(Idle.quote) /\ \A pc \in Steps : Splits(At(pc, k).quote)
    BY QuotesOfIdle
  <2>1. CASE ReplayCreate(h, k)
    <3>1. QuotesSplit'
      BY <1>p, <2>i, <2>1, QuotesKept DEF ReplayCreate, Steps, Books
    <3>2. UNCHANGED <<status, charge, entries, journal>>
      BY <2>1 DEF ReplayCreate, rows, money
    <3> QED BY <3>1, <3>2, BooksUntouched, BlankRowsUntouched DEF Books
  <2>2. CASE BeginCreate(h, k)
    <3>1. Splits([At("creating", k) EXCEPT !.quote = Quote(k)].quote)
      BY QuoteSplits DEF Splits, Books, TypeOK, At, Idle
    <3>2. QuotesSplit'
      BY <1>p, <2>2, <3>1, QuotesKept DEF BeginCreate, Books
    <3>3. UNCHANGED <<status, charge, entries, journal>>
      BY <2>2 DEF BeginCreate, rows, money
    <3> QED BY <3>2, <3>3, BooksUntouched, BlankRowsUntouched DEF Books
  <2>3. CASE CommitCreate(h, k)
    <3>1. QuotesSplit'
      BY <1>p, <2>i, <2>3, QuotesKept DEF CommitCreate, Steps, Books
    <3> QED BY <2>3, <3>1, BooksKeptByCreate
  <2>4. CASE CountBooking(h, k)
    <3>1. QuotesSplit'
      BY <1>p, <2>i, <2>4, QuotesKept DEF CountBooking, Books
    <3>2. UNCHANGED <<status, charge, entries, journal>>
      BY <2>4 DEF CountBooking, rows, money
    <3> QED BY <3>1, <3>2, BooksUntouched, BlankRowsUntouched DEF Books
  <2>5. CASE BeginConfirm(h, k)
    <3>1. QuotesSplit'
      BY <1>p, <2>i, <2>5, QuotesKept DEF BeginConfirm, Steps, Books
    <3>2. UNCHANGED <<status, charge, entries, journal>>
      BY <2>5 DEF BeginConfirm, rows, money
    <3> QED BY <3>1, <3>2, BooksUntouched, BlankRowsUntouched DEF Books
  <2>6. CASE CommitConfirm(h, k)
    <3>1. QuotesSplit'
      BY <1>p, <2>i, <2>6, QuotesKept DEF CommitConfirm, Steps, Books
    <3>2. /\ UNCHANGED <<charge, entries, journal>>
          /\ \A j \in Keys : status'[j] = "none" => status[j] = "none"
      BY <2>6 DEF CommitConfirm, money, Books, TypeOK
    <3> QED BY <3>1, <3>2, BooksUntouched, BlankRowsUntouched DEF Books
  <2>7. CASE BeginCancel(h, k) \/ BeginCancelByHost(h, k)
    <3>1. QuotesSplit'
      BY <1>p, <2>i, <2>7, QuotesKept DEF BeginCancel, BeginCancelByHost, Steps, Books
    <3>2. UNCHANGED <<status, charge, entries, journal>>
      BY <2>7 DEF BeginCancel, BeginCancelByHost, rows, money
    <3> QED BY <3>1, <3>2, BooksUntouched, BlankRowsUntouched DEF Books
  <2>8. CASE CommitCancel(h, k)
    <3>1. QuotesSplit'
      BY <1>p, <2>i, <2>8, QuotesKept DEF CommitCancel, Books
    <3> QED BY <2>8, <3>1, BooksKeptByCancel
  <2>9. CASE \E n \in 1..MaxParty : BeginScan(h, k, n)
    <3> PICK n \in 1..MaxParty : BeginScan(h, k, n)
      BY <2>9
    <3>1. Splits([At("admitting", k) EXCEPT !.number = n].quote)
      BY SMT DEF Splits, At, Idle, NoCharge
    <3>2. QuotesSplit'
      BY <1>p, <3>1, QuotesKept DEF BeginScan, Books
    <3>3. UNCHANGED <<status, charge, entries, journal>>
      BY DEF BeginScan, rows, money
    <3> QED BY <3>2, <3>3, BooksUntouched, BlankRowsUntouched DEF Books
  <2>10. CASE CommitScan(h, k)
    <3>1. QuotesSplit'
      BY <1>p, <2>i, <2>10, QuotesKept DEF CommitScan, Books
    <3>2. UNCHANGED <<status, charge, entries, journal>>
      BY <2>10 DEF CommitScan, money
    <3> QED BY <3>1, <3>2, BooksUntouched, BlankRowsUntouched DEF Books
  <2> QED BY <1>1, <2>1, <2>2, <2>3, <2>4, <2>5, <2>6, <2>7, <2>8, <2>9, <2>10 DEF KeyStep
<1>2. ASSUME NEW h \in Handlers, BeginUpdateEvent(h) \/ CommitUpdateEvent(h) \/ Abandon(h)
      PROVE  LedgerBalanced' /\ BlankRows' /\ QuotesSplit'
  <2>1. UNCHANGED <<status, charge, entries, journal>>
    BY <1>2 DEF BeginUpdateEvent, CommitUpdateEvent, Abandon, rows, money
  <2> DEFINE edit == [Idle EXCEPT !.pc = "editing", !.number = totalBookings]
  <2>2. /\ Idle.quote = NoCharge /\ edit.quote = NoCharge
        /\ Become(h, Idle) \/ Become(h, edit)
    BY <1>2 DEF BeginUpdateEvent, CommitUpdateEvent, Abandon, Become, Idle
  <2>3. Splits(NoCharge)
    BY SMT DEF Splits, NoCharge
  <2>4. QuotesSplit'
    BY <1>p, <2>2, <2>3, QuotesKept DEF Books
  <2> QED BY <2>1, <2>4, BooksUntouched, BlankRowsUntouched DEF Books
<1>3. ASSUME SetFeePercent \/ (\E o \in Occurrences : Start(o)) \/ UNCHANGED vars
      PROVE  LedgerBalanced' /\ BlankRows' /\ QuotesSplit'
  <2>1. UNCHANGED <<status, charge, entries, journal, proc>>
    BY <1>3 DEF SetFeePercent, Start, vars, rows, money
  <2>2. QuotesSplit'
    BY <2>1 DEF Books, QuotesSplit
  <2> QED BY <2>1, <2>2, BooksUntouched, BlankRowsUntouched DEF Books
<1> QED BY <1>t, <1>1, <1>2, <1>3 DEF Next, Books

LEMMA BooksInitially == Init => Books
<1> SUFFICES ASSUME Init PROVE Books
  OBVIOUS
<1>1. TypeOK
  BY TypesInitially
<1>2. LedgerBalanced
  BY SMT DEF Init, LedgerBalanced, Refunded, NoCharge, NoEntries, CreditSplit
<1>3. BlankRows
  BY DEF Init, BlankRows, Refunded
<1>4. QuotesSplit
  BY QuotesOfIdle DEF Init, QuotesSplit
<1> QED BY <1>1, <1>2, <1>3, <1>4 DEF Books

\* Every purchase's ledger entries net to zero: they are the whole split of the
\* charge on its row, or nothing once it is refunded, whatever commission was in
\* force at either time and however many requests tried to refund it.
THEOREM LedgerAlwaysBalanced == Spec => []LedgerBalanced
<1>1. Books => LedgerBalanced
  BY DEF Books
<1> QED BY <1>1, BooksInitially, BooksKept, PTL DEF Spec

------------------------------------------------------------------------------
(* Wallets.                                                                *)
(*                                                                         *)
(* WalletMatchesLedger is inductive with TypeOK alone: what rows say, and  *)
(* whether they are pending, does not matter to it.                        *)

UserMoved(f) == [k \in Keys |-> f[k].user]

accounts == <<wallet, entries, earnings, sessionsUsed>>

\* Of all steps only two move money or passes.
LEMMA MoneyKinds ==
    ASSUME [Next]_vars
    PROVE  \/ UNCHANGED accounts
           \/ \E h \in Handlers, k \in Keys : CommitCreate(h, k)
           \/ \E h \in Handlers, k \in Keys : CommitCancel(h, k)
<1>1. ASSUME NEW h \in Handlers, NEW k \in Keys, KeyStep(h, k)
      PROVE  UNCHANGED accounts \/ CommitCreate(h, k) \/ CommitCancel(h, k)
  BY <1>1 DEF KeyStep, ReplayCreate, BeginCreate, CountBooking, BeginConfirm, CommitConfirm,
              BeginCancel, BeginCancelByHost, BeginScan, CommitScan, accounts, money, codes
<1>2. ASSUME NEW h \in Handlers, BeginUpdateEvent(h) \/ CommitUpdateEvent(h) \/ Abandon(h)
      PROVE  UNCHANGED accounts
  BY <1>2 DEF BeginUpdateEvent, CommitUpdateEvent, Abandon, accounts, money, codes
<1>3. ASSUME SetFeePercent \/ (\E o \in Occurrences : Start(o)) \/ UNCHANGED vars
      PROVE  UNCHANGED accounts
  BY <1>3 DEF SetFeePercent, Start, vars, accounts, money, codes
<1> QED BY <1>1, <1>2, <1>3 DEF Next

\* A purchase takes the quoted amount from its buyer, and a refund gives the
\* charged one back.
Moves(k, d) ==
    /\ wallet'[Request[k].guest] = wallet[Request[k].guest] + d
    /\ \A g \in Guests \ {Request[k].guest} : wallet'[g] = wallet[g]
    /\ entries'[k].user = entries[k].user + d
    /\ \A j \in Keys \ {k} : entries'[j] = entries[j]

\* A wallet and the entries of one of its owner's purchases that move by the
\* same amount stay together.
LEMMA MovedTogether ==
    ASSUME TypeOK, TypeOK', WalletMatchesLedger,
           NEW k \in Keys, NEW d \in Int, Moves(k, d)
    PROVE  WalletMatchesLedger'
<1> DEFINE old == [j \in Keys |-> entries[j].user]
           new == [j \in Keys |-> entries'[j].user]
<1>1. SUFFICES ASSUME NEW g \in Guests
               PROVE  wallet'[g] = Deposit[g] + SumFunctionOnSet(new, UsersOf(g))
  BY DEF WalletMatchesLedger
<1>2. /\ IsFiniteSet(UsersOf(g)) /\ UsersOf(g) \subseteq Keys
  BY FinitenessAssumption, FS_Subset DEF UsersOf
<1>3. \A j \in Keys : entries[j].user \in Int /\ entries'[j].user \in Int
  BY DEF TypeOK
<1>m. /\ wallet'[Request[k].guest] = wallet[Request[k].guest] + d
      /\ \A x \in Guests \ {Request[k].guest} : wallet'[x] = wallet[x]
      /\ entries'[k].user = entries[k].user + d
      /\ \A j \in Keys \ {k} : entries'[j] = entries[j]
  BY DEF Moves
<1>4. \A j \in UsersOf(g) : old[j] \in Int /\ new[j] \in Int
  BY <1>2, <1>3
<1>5. wallet[g] = Deposit[g] + SumFunctionOnSet(old, UsersOf(g))
  BY DEF WalletMatchesLedger
<1>6. \A j \in Keys \ {k} : old[j] = new[j]
  BY <1>m
<1>7. old[k] = entries[k].user /\ new[k] = entries[k].user + d
  BY <1>m
<1>8. Deposit[g] \in Int /\ SumFunctionOnSet(old, UsersOf(g)) \in Int
  <2> HIDE DEF old, new
  <2> QED BY <1>2, <1>4, SumInt, MoneyAssumption
<1>9. wallet \in [Guests -> Nat]
  BY DEF TypeOK
<1>10. CASE Request[k].guest = g
  <2>1. k \in UsersOf(g)
    BY <1>10 DEF UsersOf
  <2>2. SumFunctionOnSet(new, UsersOf(g))
          = SumFunctionOnSet(old, UsersOf(g)) + (new[k] - old[k])
    <3> HIDE DEF old, new
    <3> QED BY <1>2, <1>4, <1>6, <2>1, SumChange
  <2>3. new[k] - old[k] = d
    BY <1>3, <1>7
  <2>4. wallet'[g] = wallet[g] + d
    BY <1>m, <1>9, <1>10
  <2> HIDE DEF old, new
  <2> QED BY <1>5, <1>8, <2>2, <2>3, <2>4
<1>11. CASE Request[k].guest # g
  <2>1. k \notin UsersOf(g)
    BY <1>11 DEF UsersOf
  <2>2. SumFunctionOnSet(old, UsersOf(g)) = SumFunctionOnSet(new, UsersOf(g))
    <3>1. \A j \in UsersOf(g) : old[j] = new[j]
      BY <1>2, <1>6, <2>1
    <3> HIDE DEF old, new
    <3> QED BY <1>2, <3>1, SumSame
  <2>3. wallet'[g] = wallet[g]
    BY <1>m, <1>9, <1>11
  <2> HIDE DEF old, new
  <2> QED BY <1>5, <2>2, <2>3
<1> QED BY <1>10, <1>11

LEMMA CreateMoves ==
    ASSUME TypeOK, NEW h \in Handlers, NEW k \in Keys, CommitCreate(h, k)
    PROVE  -proc[h].quote.amount \in Int /\ Moves(k, -proc[h].quote.amount)
<1> DEFINE q == proc[h].quote
<1>1. q.amount \in Nat /\ wallet \in [Guests -> Nat]
      /\ Request[k].guest \in Guests
      /\ entries \in [Keys -> [user: Int, platform: Int, host: Int]]
  BY RequestAssumption DEF Requests, TypeOK, Charges
<1>2. /\ wallet'[Request[k].guest] = wallet[Request[k].guest] + (-q.amount)
      /\ \A g \in Guests \ {Request[k].guest} : wallet'[g] = wallet[g]
  BY <1>1 DEF CommitCreate
<1>3. entries' = [entries EXCEPT ![k] = IF q.amount > 0 THEN CreditSplit(@, q) ELSE @]
  BY DEF CommitCreate
<1>4. entries'[k].user = entries[k].user + (-q.amount)
  <2>1. entries[k].user \in Int
    BY <1>1
  <2>2. CASE q.amount > 0
    <3>1. entries'[k] = CreditSplit(entries[k], q)
      BY <1>1, <1>3, <2>2
    <3>2. entries'[k].user = entries[k].user - q.amount
      BY <3>1 DEF CreditSplit
    <3> QED BY <1>1, <2>1, <3>2
  <2>3. CASE q.amount = 0
    <3>1. entries'[k] = entries[k]
      BY <1>1, <1>3, <2>3
    <3> QED BY <2>1, <2>3, <3>1
  <2> QED BY <1>1, <2>2, <2>3
<1>5. \A j \in Keys \ {k} : entries'[j] = entries[j]
  BY <1>1, <1>3
<1>6. -q.amount \in Int
  BY <1>1
<1> HIDE DEF q
<1> QED BY <1>2, <1>4, <1>5, <1>6 DEF Moves, q

LEMMA CancelMoves ==
    ASSUME TypeOK, NEW h \in Handlers, NEW k \in Keys, CommitCancel(h, k)
    PROVE  charge[k].amount \in Int /\ Moves(k, charge[k].amount)
<1>1. charge[k].amount \in Nat
      /\ entries \in [Keys -> [user: Int, platform: Int, host: Int]]
  BY DEF TypeOK, Charges
<1>2. /\ wallet' = [wallet EXCEPT ![Request[k].guest] = @ + charge[k].amount]
      /\ entries' = [entries EXCEPT ![k] = ReverseSplit(@, charge[k])]
  BY DEF CommitCancel
<1>3. entries'[k].user = entries[k].user + charge[k].amount
  <2>1. entries'[k] = ReverseSplit(entries[k], charge[k])
    BY <1>1, <1>2
  <2> QED BY <2>1 DEF ReverseSplit
<1>4. \A j \in Keys \ {k} : entries'[j] = entries[j]
  BY <1>1, <1>2
<1>5. /\ wallet'[Request[k].guest] = wallet[Request[k].guest] + charge[k].amount
      /\ \A g \in Guests \ {Request[k].guest} : wallet'[g] = wallet[g]
  BY <1>2, RequestAssumption DEF TypeOK, Requests
<1>6. charge[k].amount \in Int
  BY <1>1
<1> QED BY <1>3, <1>4, <1>5, <1>6 DEF Moves

LEMMA WalletsKept ==
    ASSUME TypeOK, WalletMatchesLedger, [Next]_vars
    PROVE  WalletMatchesLedger'
<1>t. TypeOK'
  BY TypesPreserved
<1>1. CASE UNCHANGED accounts
  BY <1>1 DEF accounts, WalletMatchesLedger
<1>2. ASSUME NEW h \in Handlers, NEW k \in Keys, CommitCreate(h, k)
      PROVE  WalletMatchesLedger'
  BY <1>t, <1>2, CreateMoves, MovedTogether
<1>3. ASSUME NEW h \in Handlers, NEW k \in Keys, CommitCancel(h, k)
      PROVE  WalletMatchesLedger'
  BY <1>t, <1>3, CancelMoves, MovedTogether
<1> QED BY <1>1, <1>2, <1>3, MoneyKinds

LEMMA WalletsInitially == Init => WalletMatchesLedger
<1> SUFFICES ASSUME Init, NEW g \in Guests
             PROVE  wallet[g] = Deposit[g]
                      + SumFunctionOnSet([k \in Keys |-> entries[k].user], UsersOf(g))
  BY DEF WalletMatchesLedger
<1> DEFINE zeros == [k \in Keys |-> entries[k].user]
<1>1. IsFiniteSet(UsersOf(g)) /\ UsersOf(g) \subseteq Keys
  BY FinitenessAssumption, FS_Subset DEF UsersOf
<1>2. \A k \in UsersOf(g) : zeros[k] = 0
  BY <1>1 DEF Init, NoEntries
<1> HIDE DEF zeros
<1>3. SumFunctionOnSet(zeros, UsersOf(g)) = 0
  BY <1>1, <1>2, SumZeros
<1>4. wallet[g] = Deposit[g] /\ Deposit[g] \in Nat
  BY MoneyAssumption DEF Init
<1>5. wallet[g] = Deposit[g] + SumFunctionOnSet(zeros, UsersOf(g))
  BY <1>3, <1>4
<1> QED BY <1>5 DEF zeros

\* Every guest's balance is the deposit and the sum of the guest's ledger
\* entries, after any interleaving of purchases and refunds, retried or not.
THEOREM WalletsAlwaysMatchLedger == Spec => []WalletMatchesLedger
<1>1. TypeOK /\ WalletMatchesLedger /\ [Next]_vars => TypeOK' /\ WalletMatchesLedger'
  BY TypesPreserved, WalletsKept
<1> QED BY <1>1, TypesInitially, WalletsInitially, PTL DEF Spec

------------------------------------------------------------------------------
(* The door.                                                               *)

LEMMA DoorKept ==
    ASSUME TypeOK, DoorAdmitsParty, [Next]_vars
    PROVE  DoorAdmitsParty'
<1>1. ASSUME NEW h \in Handlers, NEW k \in Keys, CommitScan(h, k)
      PROVE  DoorAdmitsParty'
  BY <1>1 DEF CommitScan, MayAdmit, DoorAdmitsParty, TypeOK
<1>2. ASSUME NEW h \in Handlers, NEW k \in Keys, KeyStep(h, k), ~CommitScan(h, k)
      PROVE  checkedIn' = checkedIn
  BY <1>2 DEF KeyStep, ReplayCreate, BeginCreate, CommitCreate, CountBooking, BeginConfirm,
              CommitConfirm, BeginCancel, BeginCancelByHost, CommitCancel, BeginScan, rows
<1>3. ASSUME NEW h \in Handlers, BeginUpdateEvent(h) \/ CommitUpdateEvent(h) \/ Abandon(h)
      PROVE  checkedIn' = checkedIn
  BY <1>3 DEF BeginUpdateEvent, CommitUpdateEvent, Abandon, rows
<1>4. ASSUME SetFeePercent \/ (\E o \in Occurrences : Start(o)) \/ UNCHANGED vars
      PROVE  checkedIn' = checkedIn
  BY <1>4 DEF SetFeePercent, Start, vars, rows
<1>5. ASSUME checkedIn' = checkedIn PROVE DoorAdmitsParty'
  BY <1>5 DEF DoorAdmitsParty
<1> QED BY <1>1, <1>2, <1>3, <1>4, <1>5 DEF Next

\* However many doors scan one ticket at the same time, no more people go in
\* than it was bought for.
THEOREM DoorAlwaysAdmitsParty == Spec => []DoorAdmitsParty
<1>1. Init => DoorAdmitsParty
  BY RequestAssumption, FinitenessAssumption DEF Init, DoorAdmitsParty, Requests
<1>2. TypeOK /\ DoorAdmitsParty /\ [Next]_vars => TypeOK' /\ DoorAdmitsParty'
  BY TypesPreserved, DoorKept
<1> QED BY <1>1, <1>2, TypesInitially, PTL DEF Spec

------------------------------------------------------------------------------
(* Bookings that are confirmed as they are made.                           *)
(*                                                                         *)
(* RowsMatchLedger needs to know that a late confirmation is always of a   *)
(* row that was left pending, which none of these is, and that a handler   *)
(* never cancels or confirms a row that does not exist.                    *)

Settled ==
    /\ \A k \in Prompt : status[k] # "pending"
    /\ \A h \in Handlers : proc[h].pc \in {"confirming", "cancelling"} =>
          /\ proc[h].key \in Keys
          /\ status[proc[h].key] # "none"
          /\ proc[h].pc = "confirming" => proc[h].key \notin Prompt
    /\ \A k \in Keys : Refunded(k) => charge[k].amount > 0
    /\ RowsMatchLedger

Desk == Books /\ Settled

\* Of all steps only three move rows or money: a purchase, a cancellation and
\* the confirmation of a row that was left pending.
LEMMA StepKinds ==
    ASSUME Desk, [Next]_vars
    PROVE  \/ UNCHANGED <<status, charge, payment, wallet, entries, journal>>
           \/ \E h \in Handlers, k \in Keys : CommitCreate(h, k)
           \/ \E h \in Handlers, k \in Keys : CommitCancel(h, k)
           \/ \E h \in Handlers, k \in Keys : CommitConfirm(h, k)
<1>1. ASSUME NEW h \in Handlers, NEW k \in Keys, KeyStep(h, k)
      PROVE  \/ UNCHANGED <<status, charge, payment, wallet, entries, journal>>
             \/ CommitCreate(h, k)
             \/ CommitCancel(h, k)
             \/ CommitConfirm(h, k)
  BY <1>1
     DEF KeyStep, ReplayCreate, BeginCreate, CountBooking, BeginConfirm, BeginCancel,
         BeginCancelByHost, BeginScan, CommitScan, rows, money
<1>2. ASSUME NEW h \in Handlers, BeginUpdateEvent(h) \/ CommitUpdateEvent(h) \/ Abandon(h)
      PROVE  UNCHANGED <<status, charge, payment, wallet, entries, journal>>
  BY <1>2 DEF BeginUpdateEvent, CommitUpdateEvent, Abandon, rows, money
<1>3. ASSUME SetFeePercent \/ (\E o \in Occurrences : Start(o)) \/ UNCHANGED vars
      PROVE  UNCHANGED <<status, charge, payment, wallet, entries, journal>>
  BY <1>3 DEF SetFeePercent, Start, vars, rows, money
<1> QED BY <1>1, <1>2, <1>3 DEF Next

\* A purchase: a new row, paid for out of the buyer's wallet.
LEMMA CreateEffect ==
    ASSUME Desk, NEW h \in Handlers, NEW k \in Keys, CommitCreate(h, k)
    PROVE  /\ status[k] = "none" /\ status'[k] \in Active
           /\ k \in Prompt => status'[k] = "confirmed"
           /\ \A j \in Keys \ {k} : status'[j] = status[j]
           /\ payment' = [payment EXCEPT ![k] = "completed"]
           /\ \A j \in Keys : Refunded(j)' <=> Refunded(j)
           /\ \A j \in Keys \ {k} : charge'[j] = charge[j]
BY DEF CommitCreate, Refunded, Prompt, Active, Desk, Books, TypeOK

\* A confirmation: of a row that was left pending, whatever became of it since.
LEMMA ConfirmEffect ==
    ASSUME Desk, NEW h \in Handlers, NEW k \in Keys, CommitConfirm(h, k)
    PROVE  /\ k \notin Prompt /\ status[k] # "none" /\ status'[k] = "confirmed"
           /\ \A j \in Keys \ {k} : status'[j] = status[j]
           /\ UNCHANGED <<charge, payment, wallet, entries, journal, sessionsUsed, capacity>>
           /\ \A j \in Keys : Refunded(j)' <=> Refunded(j)
<1>1. k \notin Prompt /\ status[k] # "none"
  BY DEF CommitConfirm, Doing, Desk, Settled
<1> QED BY <1>1 DEF CommitConfirm, Refunded, money, event, codes, Desk, Books, TypeOK

\* A cancellation: of a row that exists and was not refunded before; of a
\* prompt one, while it is confirmed, or once more when it is free.
LEMMA CancelEffect ==
    ASSUME Desk, NEW h \in Handlers, NEW k \in Keys, CommitCancel(h, k)
    PROVE  /\ status[k] # "none"
           /\ ~Refunded(k)
           /\ k \in Prompt => \/ status[k] = "confirmed"
                              \/ status[k] = "cancelled" /\ charge[k].amount = 0
           /\ status' = [status EXCEPT ![k] =
                            IF charge[k].amount > 0 THEN "refunded" ELSE "cancelled"]
           /\ payment' = [payment EXCEPT ![k] = "reversed"]
           /\ charge' = charge
           /\ \A j \in Keys : Refunded(j)' <=> Refunded(j) \/ (j = k /\ charge[k].amount > 0)
<1>1. status[k] # "none"
  BY DEF CommitCancel, Doing, Desk, Settled
<1>2. ~Refunded(k)
  <2>1. charge[k].amount > 0 => ~Refunded(k)
    BY DEF CommitCancel, MayRefund, Refunded
  <2>2. Refunded(k) => charge[k].amount > 0
    BY DEF Desk, Settled
  <2> QED BY <2>1, <2>2
<1>3. k \in Prompt => \/ status[k] = "confirmed"
                      \/ status[k] = "cancelled" /\ charge[k].amount = 0
  <2> SUFFICES ASSUME k \in Prompt
               PROVE  status[k] = "confirmed" \/ (status[k] = "cancelled" /\ charge[k].amount = 0)
    OBVIOUS
  <2>1. status[k] \notin {"none", "pending", "refunded"}
    BY <1>1, <1>2 DEF Desk, Settled, RowsMatchLedger
  <2>2. status[k] = "cancelled" => charge[k].amount = 0
    BY DEF Desk, Settled, RowsMatchLedger
  <2>3. status[k] \in {"none", "pending", "confirmed", "cancelled", "refunded"}
    BY DEF Desk, Books, TypeOK
  <2> QED BY <2>1, <2>2, <2>3
<1>4. \A j \in Keys : Refunded(j)' <=> Refunded(j) \/ (j = k /\ charge[k].amount > 0)
  BY DEF CommitCancel, Refunded
<1> QED BY <1>1, <1>2, <1>3, <1>4 DEF CommitCancel

LEMMA SettledRowsKept ==
    ASSUME Desk, [Next]_vars
    PROVE  /\ \A k \in Prompt : status'[k] # "pending"
           /\ \A k \in Keys : Refunded(k)' => charge'[k].amount > 0
           /\ RowsMatchLedger'
           /\ \A k \in Keys : status'[k] = "none" => status[k] = "none"
<1>p. Prompt \subseteq Keys
  BY DEF Prompt
<1>1. CASE UNCHANGED <<status, charge, payment, wallet, entries, journal>>
  BY <1>1, <1>p DEF Desk, Settled, RowsMatchLedger, Refunded
<1>2. CASE \E h \in Handlers, k \in Keys : CommitCreate(h, k)
  <2> PICK h \in Handlers, k \in Keys : CommitCreate(h, k)
    BY <1>2
  <2>1. /\ status[k] = "none" /\ status'[k] \in Active
        /\ k \in Prompt => status'[k] = "confirmed"
        /\ \A j \in Keys \ {k} : status'[j] = status[j]
        /\ payment' = [payment EXCEPT ![k] = "completed"]
        /\ \A j \in Keys : Refunded(j)' <=> Refunded(j)
        /\ \A j \in Keys \ {k} : charge'[j] = charge[j]
    BY CreateEffect
  <2>2. ~Refunded(k)
    BY <2>1 DEF Desk, Books, BlankRows
  <2>3. /\ \A j \in Prompt : status'[j] # "pending"
        /\ \A j \in Keys : Refunded(j)' => charge'[j].amount > 0
        /\ \A j \in Keys : status'[j] = "none" => status[j] = "none"
    BY <1>p, <2>1, <2>2 DEF Desk, Settled, Active
  <2>4. RowsMatchLedger'
    <3> SUFFICES ASSUME NEW j \in Prompt
                 PROVE  /\ Refunded(j)' <=> status'[j] = "refunded"
                        /\ payment'[j] = "reversed" <=> status'[j] \in {"cancelled", "refunded"}
                        /\ status'[j] = "cancelled" => charge'[j].amount = 0
      BY DEF RowsMatchLedger, Refunded, Prompt
    <3>1. CASE j = k
      BY <2>1, <2>2, <3>1 DEF Desk, Books, TypeOK
    <3>2. CASE j # k
      BY <1>p, <2>1, <3>2 DEF Desk, Settled, Books, TypeOK, RowsMatchLedger
    <3> QED BY <3>1, <3>2
  <2> QED BY <2>3, <2>4
<1>3. CASE \E h \in Handlers, k \in Keys : CommitCancel(h, k)
  <2> PICK h \in Handlers, k \in Keys : CommitCancel(h, k)
    BY <1>3
  <2>1. /\ status[k] # "none" /\ ~Refunded(k)
        /\ status' = [status EXCEPT ![k] =
                         IF charge[k].amount > 0 THEN "refunded" ELSE "cancelled"]
        /\ payment' = [payment EXCEPT ![k] = "reversed"]
        /\ charge' = charge
        /\ \A j \in Keys : Refunded(j)' <=> Refunded(j) \/ (j = k /\ charge[k].amount > 0)
    BY CancelEffect
  <2>2. charge[k].amount \in Nat
    BY DEF Desk, Books, TypeOK, Charges
  <2>3. /\ \A j \in Prompt : status'[j] # "pending"
        /\ \A j \in Keys : Refunded(j)' => charge'[j].amount > 0
        /\ \A j \in Keys : status'[j] = "none" => status[j] = "none"
    BY <1>p, <2>1 DEF Desk, Settled, Books, TypeOK
  <2>4. RowsMatchLedger'
    <3> SUFFICES ASSUME NEW j \in Prompt
                 PROVE  /\ Refunded(j)' <=> status'[j] = "refunded"
                        /\ payment'[j] = "reversed" <=> status'[j] \in {"cancelled", "refunded"}
                        /\ status'[j] = "cancelled" => charge'[j].amount = 0
      BY DEF RowsMatchLedger, Refunded, Prompt
    <3>1. CASE j = k
      BY <2>1, <2>2, <3>1 DEF Desk, Books, TypeOK
    <3>2. CASE j # k
      BY <1>p, <2>1, <3>2 DEF Desk, Settled, Books, TypeOK, RowsMatchLedger
    <3> QED BY <3>1, <3>2
  <2> QED BY <2>3, <2>4
<1>4. CASE \E h \in Handlers, k \in Keys : CommitConfirm(h, k)
  <2> PICK h \in Handlers, k \in Keys : CommitConfirm(h, k)
    BY <1>4
  <2>1. /\ k \notin Prompt /\ status'[k] = "confirmed"
        /\ \A j \in Keys \ {k} : status'[j] = status[j]
        /\ charge' = charge /\ payment' = payment
        /\ \A j \in Keys : Refunded(j)' <=> Refunded(j)
    BY ConfirmEffect
  <2>2. \A j \in Prompt : status'[j] = status[j]
    BY <1>p, <2>1
  <2>3. RowsMatchLedger'
    BY <1>p, <2>1, <2>2 DEF Desk, Settled, RowsMatchLedger, Refunded
  <2> QED BY <1>p, <2>1, <2>2, <2>3 DEF Desk, Settled
<1> QED BY <1>1, <1>2, <1>3, <1>4, StepKinds

LEMMA SettledHandlersKept ==
    ASSUME Desk, [Next]_vars
    PROVE  \A i \in Handlers : proc'[i].pc \in {"confirming", "cancelling"} =>
              /\ proc'[i].key \in Keys
              /\ status'[proc'[i].key] # "none"
              /\ proc'[i].pc = "confirming" => proc'[i].key \notin Prompt
<1> SUFFICES ASSUME NEW i \in Handlers, proc'[i].pc \in {"confirming", "cancelling"}
             PROVE  /\ proc'[i].key \in Keys
                    /\ status'[proc'[i].key] # "none"
                    /\ proc'[i].pc = "confirming" => proc'[i].key \notin Prompt
  OBVIOUS
<1>r. \A k \in Keys : status'[k] = "none" => status[k] = "none"
  BY SettledRowsKept
<1>1. CASE proc'[i] = proc[i]
  BY <1>r, <1>1 DEF Desk, Settled
<1>2. CASE proc'[i] # proc[i]
  <2>p. proc \in [Handlers -> [pc: Steps, key: Keys \cup {None}, quote: Charges, number: Nat]]
    BY DEF Desk, Books, TypeOK
  <2>1. ASSUME NEW h \in Handlers, NEW k \in Keys, KeyStep(h, k)
        PROVE  /\ proc'[i].key = k /\ status[k] # "none"
               /\ proc'[i].pc = "confirming" => k \notin Prompt
    <3>2. \A p : Become(h, p) => proc'[i] = p
      BY <1>2, <2>p DEF Become
    <3>3. CASE BeginCancel(h, k) \/ BeginCancelByHost(h, k)
      BY <3>2, <3>3 DEF BeginCancel, BeginCancelByHost, At, Idle, Active
    <3>4. CASE BeginCreate(h, k) \/ \E n \in 1..MaxParty : BeginScan(h, k, n)
      BY <3>2, <3>4 DEF BeginCreate, BeginScan, At, Idle
    <3>5. CASE \/ ReplayCreate(h, k) \/ CommitCreate(h, k) \/ CountBooking(h, k)
               \/ CommitConfirm(h, k) \/ CommitCancel(h, k) \/ CommitScan(h, k)
      <4>1. Become(h, Idle) \/ (\E pc \in {"replayed", "unanswered", "counting"} : Become(h, At(pc, k)))
        BY <3>5 DEF ReplayCreate, CommitCreate, CountBooking, CommitConfirm, CommitCancel, CommitScan
      <4>2. Idle.pc = "idle" /\ \A pc \in Steps : At(pc, k).pc = pc
        BY DEF At, Idle
      <4>3. proc'[i] = Idle \/ \E pc \in {"replayed", "unanswered", "counting"} : proc'[i] = At(pc, k)
        BY <3>2, <4>1
      <4> QED BY <4>2, <4>3 DEF Steps
    <3>6. CASE BeginConfirm(h, k)
      <4>1. proc'[i] = At("confirming", k) /\ status[k] = "pending"
        BY <3>2, <3>6 DEF BeginConfirm, Confirmable
      <4>2. k \notin Prompt
        BY <4>1 DEF Desk, Settled
      <4> QED BY <4>1, <4>2 DEF At, Idle
    <3> QED BY <2>1, <3>3, <3>4, <3>5, <3>6 DEF KeyStep
  <2>2. ASSUME NEW h \in Handlers, BeginUpdateEvent(h) \/ CommitUpdateEvent(h) \/ Abandon(h)
        PROVE  FALSE
    <3>1. CASE BeginUpdateEvent(h)
      BY <1>2, <2>p, <3>1 DEF BeginUpdateEvent, Idle
    <3>2. CASE CommitUpdateEvent(h) \/ Abandon(h)
      BY <1>2, <2>p, <3>2 DEF CommitUpdateEvent, Abandon, Become, Idle
    <3> QED BY <2>2, <3>1, <3>2
  <2>3. ~(SetFeePercent \/ (\E o \in Occurrences : Start(o)) \/ UNCHANGED vars)
    BY <1>2 DEF SetFeePercent, Start, vars
  <2> QED BY <1>r, <2>1, <2>2, <2>3 DEF Next
<1> QED BY <1>1, <1>2

LEMMA DeskKept == Desk /\ [Next]_vars => Desk'
BY BooksKept, SettledRowsKept, SettledHandlersKept DEF Desk, Settled

LEMMA DeskInitially == Init => Desk
<1> SUFFICES ASSUME Init PROVE Desk
  OBVIOUS
<1>1. Settled
  BY DEF Init, Settled, RowsMatchLedger, Refunded, Idle, Prompt
<1> QED BY <1>1, BooksInitially DEF Desk

\* A booking that was confirmed as it was made is refunded exactly when its
\* charge was reversed in the ledger, and its payment row with it, whatever
\* becomes of the rows that were left pending.
THEOREM RowsAlwaysMatchLedger == Spec => []RowsMatchLedger
<1>1. Desk => RowsMatchLedger
  BY DEF Desk, Settled
<1>2. Desk /\ [Next]_vars => Desk'
  BY DeskKept
<1> QED BY <1>1, <1>2, DeskInitially, PTL DEF Spec

\* Once cancelled or refunded, a booking that was confirmed as it was made keeps that status and its ledger
\* entries for ever: no step of another request revives it or pays it again.
THEOREM EndedForever == Spec => EndedIsFinal
<1> DEFINE Kept == \A k \in Prompt : status[k] \in {"cancelled", "refunded"}
                      => status'[k] = status[k] /\ entries'[k] = entries[k]
<1>p. Prompt \subseteq Keys
  BY DEF Prompt
<1>1. ASSUME Desk, [Next]_vars PROVE Kept
  <2>1. CASE UNCHANGED <<status, charge, payment, wallet, entries, journal>>
    BY <2>1
  <2>2. CASE \E h \in Handlers, k \in Keys : CommitCreate(h, k)
    BY <1>p, <1>1, <2>2 DEF CommitCreate, Desk, Books, TypeOK
  <2>3. CASE \E h \in Handlers, k \in Keys : CommitCancel(h, k)
    <3> PICK h \in Handlers, k \in Keys : CommitCancel(h, k)
      BY <2>3
    <3>1. /\ k \in Prompt => \/ status[k] = "confirmed"
                             \/ status[k] = "cancelled" /\ charge[k].amount = 0
          /\ status' = [status EXCEPT ![k] =
                           IF charge[k].amount > 0 THEN "refunded" ELSE "cancelled"]
      BY <1>1, CancelEffect
    <3>2. entries' = [entries EXCEPT ![k] = ReverseSplit(@, charge[k])]
      BY DEF CommitCancel
    <3>3. charge[k].amount = 0 => ReverseSplit(entries[k], charge[k]) = entries[k]
      <4> SUFFICES ASSUME charge[k].amount = 0
                   PROVE  ReverseSplit(entries[k], charge[k]) = entries[k]
        OBVIOUS
      <4>0. /\ charge[k].fee \in Nat /\ charge[k].net \in Nat
            /\ charge[k].amount = charge[k].fee + charge[k].net
        BY <1>1 DEF Desk, Books, TypeOK, Charges, LedgerBalanced
      <4>1. charge[k].fee = 0 /\ charge[k].net = 0
        BY <4>0, SMT
      <4>2. entries[k] \in [user: Int, platform: Int, host: Int]
        BY <1>1 DEF Desk, Books, TypeOK
      <4> QED BY <4>1, <4>2, SMT DEF ReverseSplit
    <3>4. \A j \in Prompt \ {k} : status'[j] = status[j] /\ entries'[j] = entries[j]
      BY <1>p, <1>1, <3>1, <3>2 DEF Desk, Books, TypeOK
    <3>5. k \in Prompt /\ status[k] \in {"cancelled", "refunded"}
             => status'[k] = status[k] /\ entries'[k] = entries[k]
      BY <1>1, <3>1, <3>2, <3>3 DEF Desk, Books, TypeOK
    <3> QED BY <3>4, <3>5
  <2>4. CASE \E h \in Handlers, k \in Keys : CommitConfirm(h, k)
    BY <1>p, <1>1, <2>4, ConfirmEffect
  <2> QED BY <1>1, <2>1, <2>2, <2>3, <2>4, StepKinds
<1>2. Desk /\ [Next]_vars => [Kept]_vars
  BY <1>1
<1>3. Desk /\ [Next]_vars => Desk'
  BY DeskKept
<1> QED BY <1>2, <1>3, DeskInitially, PTL DEF Spec, EndedIsFinal

------------------------------------------------------------------------------
(* Seats.                                                                  *)

LEMMA SeatsFinite ==
    ASSUME NEW o
    PROVE  /\ IsFiniteSet(Keys \X (1..MaxParty))
           /\ IsFiniteSet(SeatsTaken(o)) /\ Booked(o) \in Nat
<1>1. IsFiniteSet(1..MaxParty)
  BY FinitenessAssumption, FS_Interval
<1>2. IsFiniteSet(Keys \X (1..MaxParty))
  BY <1>1, FinitenessAssumption, FS_Product
<1>3. SeatsTaken(o) \subseteq Keys \X (1..MaxParty)
  BY DEF SeatsTaken
<1> QED BY <1>2, <1>3, FS_Subset, FS_CardinalityType DEF Booked

\* The seats of one party number its quantity.
LEMMA PartySize ==
    ASSUME NEW k \in Keys
    PROVE  /\ Request[k].qty \in Nat
           /\ IsFiniteSet({k} \X (1..Request[k].qty))
           /\ Cardinality({k} \X (1..Request[k].qty)) = Request[k].qty
<1> DEFINE n == Request[k].qty
<1>1. n \in Nat /\ n >= 1
  BY RequestAssumption, FinitenessAssumption DEF Requests
<1> HIDE DEF n
<1>2. IsFiniteSet({k}) /\ Cardinality({k}) = 1
  BY FS_Singleton
<1>3. IsFiniteSet(1..n) /\ Cardinality(1..n) = n
  BY <1>1, FS_Interval, SMT
<1>4. /\ IsFiniteSet({k} \X (1..n))
      /\ Cardinality({k} \X (1..n)) = Cardinality({k}) * Cardinality(1..n)
  BY <1>2, <1>3, FS_Product
<1>5. Cardinality({k} \X (1..n)) = n
  BY <1>1, <1>2, <1>3, <1>4, SMT
<1> QED BY <1>1, <1>4, <1>5 DEF n

\* A purchase adds its own party's seats at most.
LEMMA CreateSeats ==
    ASSUME Desk, NEW h \in Handlers, NEW k \in Keys, CommitCreate(h, k),
           NEW o
    PROVE  /\ SeatsTaken(o)' \subseteq SeatsTaken(o) \cup ({k} \X (1..Request[k].qty))
           /\ Request[k].occ # o => SeatsTaken(o)' = SeatsTaken(o)
<1>1. \A j \in Keys \ {k} : status'[j] = status[j]
  BY CreateEffect
<1>2. status[k] \notin Active
  BY CreateEffect DEF Active
<1>3. Request[k].qty \in Nat
  BY PartySize
<1>4. ASSUME NEW j \in Keys, NEW n \in 1..MaxParty, <<j, n>> \in SeatsTaken(o)'
      PROVE  <<j, n>> \in SeatsTaken(o) \cup ({k} \X (1..Request[k].qty))
  <2>1. CASE j = k
    <3>1. n <= Request[k].qty /\ n \in 1..MaxParty
      BY <1>4, <2>1 DEF SeatsTaken
    <3>2. n \in 1..Request[k].qty
      BY <1>3, <3>1, FinitenessAssumption, SMT
    <3> QED BY <2>1, <3>2
  <2>2. CASE j # k
    BY <1>1, <1>4, <2>2 DEF SeatsTaken
  <2> QED BY <2>1, <2>2
<1>5. ASSUME Request[k].occ # o
      PROVE  SeatsTaken(o)' = SeatsTaken(o)
  BY <1>1, <1>5 DEF SeatsTaken
<1> QED BY <1>4, <1>5 DEF SeatsTaken

\* A cancellation adds none.
LEMMA CancelSeats ==
    ASSUME Desk, NEW h \in Handlers, NEW k \in Keys, CommitCancel(h, k), NEW o
    PROVE  SeatsTaken(o)' \subseteq SeatsTaken(o)
<1>1. \A j \in Keys : status'[j] \in Active => status[j] \in Active
  BY CancelEffect DEF Active, Desk, Books, TypeOK
<1> QED BY <1>1 DEF SeatsTaken

\* A confirmation changes none, unless it revives a row that was given up.
LEMMA ConfirmSeats ==
    ASSUME Desk, NEW h \in Handlers, NEW k \in Keys, CommitConfirm(h, k), ~Revived(k), NEW o
    PROVE  SeatsTaken(o)' = SeatsTaken(o)
<1>1. /\ k \notin Prompt /\ status[k] # "none" /\ status'[k] = "confirmed"
      /\ \A j \in Keys \ {k} : status'[j] = status[j]
  BY ConfirmEffect
<1>2. status[k] \in {"none", "pending", "confirmed", "cancelled", "refunded"}
  BY DEF Desk, Books, TypeOK
<1>3. status[k] \in Active /\ status'[k] \in Active
  BY <1>1, <1>2 DEF Revived, Active
<1> QED BY <1>1, <1>3 DEF SeatsTaken

\* Seats never grow past the capacity of the moment at which they grow, however
\* many purchases, cancellations and changes of capacity run at once; only a row
\* that was left pending and given up can be revived beyond it.
THEOREM NeverOversold == Spec => NoOversale
<1> DEFINE Fits == \A o \in Occurrences :
                     Booked(o)' > Booked(o) =>
                        Booked(o)' <= capacity' \/ \E k \in Keys : Revived(k)
<1>1. ASSUME Desk, [Next]_vars PROVE Fits
  <2> SUFFICES ASSUME NEW o \in Occurrences, Booked(o)' > Booked(o),
                      \A k \in Keys : ~Revived(k)
               PROVE  Booked(o)' <= capacity'
    OBVIOUS
  <2>f. IsFiniteSet(SeatsTaken(o)) /\ Booked(o) \in Nat
    BY SeatsFinite
  <2>1. CASE UNCHANGED <<status, charge, payment, wallet, entries, journal>>
    <3>1. SeatsTaken(o)' = SeatsTaken(o)
      BY <2>1 DEF SeatsTaken
    <3> QED BY <2>f, <3>1, SMT DEF Booked
  <2>2. CASE \E h \in Handlers, k \in Keys : CommitCreate(h, k)
    <3> PICK h \in Handlers, k \in Keys : CommitCreate(h, k)
      BY <2>2
    <3> DEFINE party == {k} \X (1..Request[k].qty)
    <3>1. /\ SeatsTaken(o)' \subseteq SeatsTaken(o) \cup party
          /\ Request[k].occ # o => SeatsTaken(o)' = SeatsTaken(o)
      BY <1>1, CreateSeats
    <3>2. Request[k].occ = o
      BY <2>f, <3>1, SMT DEF Booked
    <3>3. IsFiniteSet(party) /\ Cardinality(party) = Request[k].qty /\ Request[k].qty \in Nat
      BY PartySize
    <3> HIDE DEF party
    <3>4. IsFiniteSet(SeatsTaken(o) \cup party)
          /\ Cardinality(SeatsTaken(o) \cup party) <= Booked(o) + Request[k].qty
      <4>1. /\ IsFiniteSet(SeatsTaken(o) \cup party)
            /\ Cardinality(SeatsTaken(o) \cup party) =
                  Cardinality(SeatsTaken(o)) + Cardinality(party)
                    - Cardinality(SeatsTaken(o) \cap party)
        BY <2>f, <3>3, FS_Union
      <4>2. Cardinality(SeatsTaken(o) \cap party) \in Nat
        BY <2>f, FS_Intersection, FS_CardinalityType
      <4> QED BY <2>f, <3>3, <4>1, <4>2, SMT DEF Booked
    <3>5. Booked(o)' \in Nat /\ Booked(o)' <= Cardinality(SeatsTaken(o) \cup party)
      BY <3>1, <3>4, FS_Subset, FS_CardinalityType DEF Booked
    <3>6. Booked(o) + Request[k].qty <= capacity /\ capacity' = capacity
      BY <3>2 DEF CommitCreate, SeatsLeft, event
    <3>7. Cardinality(SeatsTaken(o) \cup party) \in Nat /\ capacity \in Nat
      BY <1>1, <3>4, FS_CardinalityType DEF Desk, Books, TypeOK
    <3> QED BY <2>f, <3>3, <3>4, <3>5, <3>6, <3>7, SMT
  <2>3. CASE \E h \in Handlers, k \in Keys : CommitCancel(h, k)
    <3>1. SeatsTaken(o)' \subseteq SeatsTaken(o)
      BY <1>1, <2>3, CancelSeats
    <3>2. Booked(o)' \in Nat /\ Booked(o)' <= Booked(o)
      BY <2>f, <3>1, FS_Subset, FS_CardinalityType DEF Booked
    <3> QED BY <2>f, <3>2, SMT
  <2>4. CASE \E h \in Handlers, k \in Keys : CommitConfirm(h, k)
    <3>1. SeatsTaken(o)' = SeatsTaken(o)
      BY <1>1, <2>4, ConfirmSeats
    <3> QED BY <2>f, <3>1, SMT DEF Booked
  <2> QED BY <1>1, <2>1, <2>2, <2>3, <2>4, StepKinds
<1>2. Desk /\ [Next]_vars => [Fits]_vars
  BY <1>1
<1>3. Desk /\ [Next]_vars => Desk'
  BY DeskKept
<1> QED BY <1>2, <1>3, DeskInitially, PTL DEF Spec, NoOversale

------------------------------------------------------------------------------
(* The host's earnings.                                                    *)
(*                                                                         *)
(* The ledger holds for the host the net of a row that was not refunded,   *)
(* so the sum over the bookings confirmed as they were made is what the    *)
(* breakdown promises; the total kept apart in host_earnings moves with    *)
(* the ledger, and never reaches the floor of the refund's UPDATE because  *)
(* it contains the refunded term.                                          *)

HostOf    == [k \in Keys |-> entries[k].host]
EarningsInLedger == earnings = SumFunctionOnSet(HostOf, Keys)

LEMMA HostEntries ==
    ASSUME Desk, NEW k \in Keys
    PROVE  /\ charge[k].net \in Nat
           /\ charge[k].amount = 0 => charge[k].net = 0
           /\ entries[k].host = IF Refunded(k) THEN 0 ELSE charge[k].net
<1>1. /\ charge[k].amount \in Nat /\ charge[k].fee \in Nat /\ charge[k].net \in Nat
      /\ charge[k].amount = charge[k].fee + charge[k].net
  BY DEF Desk, Books, Settled, TypeOK, Charges, LedgerBalanced
<1>2. ~Refunded(k) => entries[k].host = charge[k].net
  <2> SUFFICES ASSUME ~Refunded(k) PROVE entries[k].host = charge[k].net
    OBVIOUS
  <2>1. entries[k] = CreditSplit(NoEntries, charge[k])
    BY DEF Desk, Books, LedgerBalanced
  <2>2. entries[k].host = 0 + charge[k].net
    BY <2>1 DEF CreditSplit, NoEntries
  <2> QED BY <1>1, <2>2
<1>3. Refunded(k) => entries[k].host = 0
  <2>1. Refunded(k) => entries[k] = NoEntries
    BY DEF Desk, Books, LedgerBalanced
  <2> QED BY <2>1 DEF NoEntries
<1>4. charge[k].amount = 0 => charge[k].net = 0
  BY <1>1
<1> QED BY <1>1, <1>2, <1>3, <1>4

LEMMA PromptHostEntries ==
    ASSUME Desk, NEW k \in Prompt
    PROVE  entries[k].host = IF status[k] = "confirmed" THEN charge[k].net ELSE 0
<1>1. k \in Keys
  BY DEF Prompt
<1>2. status[k] \in {"none", "confirmed", "cancelled", "refunded"}
  BY <1>1 DEF Desk, Books, Settled, TypeOK
<1>3. Refunded(k) <=> status[k] = "refunded"
  BY DEF Desk, Settled, RowsMatchLedger
<1>4. status[k] = "none" => charge[k].net = 0
  BY <1>1 DEF Desk, Books, BlankRows, NoCharge
<1>5. status[k] = "cancelled" => charge[k].net = 0
  BY <1>1, HostEntries DEF Desk, Settled, RowsMatchLedger
<1> QED BY <1>1, <1>2, <1>3, <1>4, <1>5, HostEntries

\* What the breakdown promises is what the ledger holds.
LEMMA PromisedIsInLedger ==
    ASSUME Desk
    PROVE  SumFunctionOnSet([k \in Keys |-> charge[k].net],
                            {k \in Prompt : status[k] = "confirmed"})
             = SumFunctionOnSet(HostOf, Prompt)
<1> DEFINE net       == [k \in Keys |-> charge[k].net]
           confirmed == {k \in Prompt : status[k] = "confirmed"}
<1>p. Prompt \subseteq Keys
  BY DEF Prompt
<1>1. confirmed \in SUBSET Prompt /\ IsFiniteSet(Prompt) /\ IsFiniteSet(confirmed)
  BY <1>p, FinitenessAssumption, FS_Subset
<1>2. /\ \A k \in confirmed : net[k] = HostOf[k]
      /\ \A k \in Prompt \ confirmed : HostOf[k] = 0
      /\ \A k \in Prompt : HostOf[k] \in Int
  BY <1>p, HostEntries, PromptHostEntries DEF HostOf
<1> HIDE DEF net, confirmed
<1>3. SumFunctionOnSet(net, confirmed) = SumFunctionOnSet(HostOf, confirmed)
  BY <1>1, <1>2, SumSame
<1>4. SumFunctionOnSet(HostOf, confirmed) = SumFunctionOnSet(HostOf, Prompt)
  BY <1>1, <1>2, SumSupport
<1>5. SumFunctionOnSet(net, confirmed) = SumFunctionOnSet(HostOf, Prompt)
  BY <1>3, <1>4
<1> QED BY <1>5 DEF net, confirmed

\* A purchase adds its net to both.
LEMMA EarningsKeptByCreate ==
    ASSUME Desk, Desk', EarningsInLedger, NEW h \in Handlers, NEW k \in Keys,
           CommitCreate(h, k)
    PROVE  EarningsInLedger'
<1> DEFINE q == proc[h].quote
<1>1. /\ q.amount \in Nat /\ q.fee \in Nat /\ q.net \in Nat /\ q.amount = q.fee + q.net
      /\ entries \in [Keys -> [user: Int, platform: Int, host: Int]]
      /\ entries' \in [Keys -> [user: Int, platform: Int, host: Int]]
  BY DEF Desk, Books, TypeOK, Charges, QuotesSplit, Splits
<1>2. /\ entries' = [entries EXCEPT ![k] = IF q.amount > 0 THEN CreditSplit(@, q) ELSE @]
      /\ earnings' = earnings + q.net
  BY DEF CommitCreate
<1>3. entries'[k].host = entries[k].host + q.net
  <2>1. CASE q.amount > 0
    <3>1. entries'[k] = CreditSplit(entries[k], q)
      BY <1>1, <1>2, <2>1
    <3> QED BY <3>1 DEF CreditSplit
  <2>2. CASE q.amount = 0
    <3>1. entries'[k] = entries[k] /\ q.net = 0 /\ entries[k].host \in Int
      BY <1>1, <1>2, <2>2
    <3> QED BY <3>1
  <2> QED BY <1>1, <2>1, <2>2
<1>4. /\ \A j \in Keys : HostOf[j] \in Int /\ HostOf'[j] \in Int
      /\ \A j \in Keys \ {k} : HostOf[j] = HostOf'[j]
      /\ HostOf'[k] - HostOf[k] = q.net
  BY <1>1, <1>2, <1>3 DEF HostOf
<1>5. SumFunctionOnSet(HostOf', Keys)
        = SumFunctionOnSet(HostOf, Keys) + (HostOf'[k] - HostOf[k])
  BY <1>4, FinitenessAssumption, SumChange
<1> HIDE DEF q
<1> QED BY <1>2, <1>4, <1>5 DEF EarningsInLedger

\* A refund takes its net from both.
LEMMA EarningsKeptByCancel ==
    ASSUME Desk, Desk', EarningsInLedger, NEW h \in Handlers, NEW k \in Keys,
           CommitCancel(h, k)
    PROVE  EarningsInLedger'
<1> DEFINE n == charge[k].net
<1>1. /\ entries \in [Keys -> [user: Int, platform: Int, host: Int]]
      /\ entries' \in [Keys -> [user: Int, platform: Int, host: Int]]
      /\ n \in Nat /\ \A j \in Keys : HostOf[j] \in Nat
  <2>1. \A j \in Keys : HostOf[j] \in Nat
    BY HostEntries DEF HostOf
  <2> QED BY <2>1, HostEntries DEF Desk, Books, TypeOK
<1>2. /\ entries' = [entries EXCEPT ![k] = ReverseSplit(@, charge[k])]
      /\ earnings' = IF n > earnings THEN 0 ELSE earnings - n
  BY DEF CommitCancel
<1>3. entries'[k].host = entries[k].host - n
  <2>1. entries'[k] = ReverseSplit(entries[k], charge[k])
    BY <1>1, <1>2
  <2> QED BY <2>1 DEF ReverseSplit
<1>4. /\ \A j \in Keys : HostOf[j] \in Int /\ HostOf'[j] \in Int
      /\ \A j \in Keys \ {k} : HostOf[j] = HostOf'[j]
      /\ HostOf'[k] - HostOf[k] = -n
  BY <1>1, <1>2, <1>3 DEF HostOf
<1>5. SumFunctionOnSet(HostOf', Keys)
        = SumFunctionOnSet(HostOf, Keys) + (HostOf'[k] - HostOf[k])
  BY <1>4, FinitenessAssumption, SumChange
<1>6. n <= earnings
  <2>1. HostOf[k] = n
    BY CancelEffect, HostEntries DEF HostOf
  <2>2. SumFunctionOnSet(HostOf, Keys) = HostOf[k] + SumFunctionOnSet(HostOf, Keys \ {k})
    BY <1>4, FinitenessAssumption, SumRemove
  <2>3. SumFunctionOnSet(HostOf, Keys \ {k}) \in Nat
    BY <1>1, FinitenessAssumption, FS_Subset, SumNat
  <2> HIDE DEF n
  <2> QED BY <1>1, <2>1, <2>2, <2>3 DEF EarningsInLedger
<1>7. earnings \in Nat
  BY DEF Desk, Books, TypeOK
<1> HIDE DEF n
<1> QED BY <1>1, <1>2, <1>4, <1>5, <1>6, <1>7 DEF EarningsInLedger

\* What the host is shown as earned with bookings confirmed as they were made is
\* what the ledger holds for them, and host_earnings is the ledger's sum: a refund takes back exactly the net
\* of the seat it ends, and no earning stands for a seat whose price went back.
THEOREM HostEarningsAlwaysBacked == Spec => []HostEarningsBacked
<1>1. Desk /\ EarningsInLedger => HostEarningsBacked
  BY PromisedIsInLedger DEF EarningsInLedger, HostEarningsBacked, HostInLedger, HostOf
<1>2. Init => EarningsInLedger
  <2> SUFFICES ASSUME Init PROVE EarningsInLedger
    OBVIOUS
  <2>1. \A k \in Keys : HostOf[k] = 0
    BY DEF Init, HostOf, NoEntries
  <2>2. SumFunctionOnSet(HostOf, Keys) = 0
    BY <2>1, FinitenessAssumption, SumZeros
  <2> QED BY <2>2 DEF Init, EarningsInLedger
<1>3. Desk /\ EarningsInLedger /\ [Next]_vars => Desk' /\ EarningsInLedger'
  <2> SUFFICES ASSUME Desk, EarningsInLedger, [Next]_vars PROVE Desk' /\ EarningsInLedger'
    OBVIOUS
  <2>1. Desk'
    BY DeskKept
  <2>2. CASE UNCHANGED accounts
    <3>1. HostOf' = HostOf /\ earnings' = earnings
      BY <2>2 DEF accounts, HostOf
    <3> QED BY <2>1, <3>1 DEF EarningsInLedger
  <2> QED BY <2>1, <2>2, MoneyKinds, EarningsKeptByCreate, EarningsKeptByCancel
<1> QED BY <1>1, <1>2, <1>3, DeskInitially, PTL DEF Spec

------------------------------------------------------------------------------
(* Passes.                                                                 *)

LEMMA HeldFinite ==
    ASSUME NEW p
    PROVE  IsFiniteSet(HeldOn(p)) /\ Cardinality(HeldOn(p)) \in Nat
BY FinitenessAssumption, FS_Subset, FS_CardinalityType DEF HeldOn

LEMMA PassKeptByCreate ==
    ASSUME Desk, PassNeverOvercharged,
           NEW h \in Handlers, NEW k \in Keys, CommitCreate(h, k), NEW p \in Passes
    PROVE  /\ sessionsUsed'[p] <= PassOf[p].included
           /\ sessionsUsed'[p] <= Cardinality(HeldOn(p)')
<1>1. /\ sessionsUsed \in [Passes -> Nat] /\ PassOf[p].included \in Nat
      /\ status \in [Keys -> {"none", "pending", "confirmed", "cancelled", "refunded"}]
      /\ sessionsUsed[p] <= PassOf[p].included
      /\ sessionsUsed[p] <= Cardinality(HeldOn(p))
  BY MoneyAssumption DEF Desk, Books, TypeOK, PassNeverOvercharged
<1>2. /\ status[k] = "none" /\ status'[k] \in Active
      /\ \A j \in Keys \ {k} : status'[j] = status[j]
  BY CreateEffect
<1>3. IsFiniteSet(HeldOn(p)) /\ Cardinality(HeldOn(p)) \in Nat
  BY HeldFinite
<1>4. p # None
  BY RequestAssumption
<1>5. CASE Request[k].pass = p
  <2>1. HeldOn(p)' = HeldOn(p) \cup {k} /\ k \notin HeldOn(p)
    BY <1>1, <1>2, <1>5 DEF HeldOn, Active
  <2>2. Cardinality(HeldOn(p) \cup {k}) = Cardinality(HeldOn(p)) + 1
    BY <1>3, <2>1, FS_AddElement
  <2>3. sessionsUsed'[p] = sessionsUsed[p] + 1 /\ sessionsUsed[p] < PassOf[p].included
    BY <1>1, <1>4, <1>5 DEF CommitCreate, MaySpendSession, PassUsable
  <2> QED BY <1>1, <1>3, <2>1, <2>2, <2>3
<1>6. CASE Request[k].pass # p
  <2>1. HeldOn(p)' = HeldOn(p)
    BY <1>1, <1>2, <1>6 DEF HeldOn
  <2>2. sessionsUsed'[p] = sessionsUsed[p]
    BY <1>1, <1>6 DEF CommitCreate
  <2> QED BY <1>1, <2>1, <2>2
<1> QED BY <1>5, <1>6

LEMMA PassKeptByCancel ==
    ASSUME Desk, PassNeverOvercharged,
           NEW h \in Handlers, NEW k \in Keys, CommitCancel(h, k), NEW p \in Passes
    PROVE  /\ sessionsUsed'[p] <= PassOf[p].included
           /\ sessionsUsed'[p] <= Cardinality(HeldOn(p)')
<1>1. /\ sessionsUsed \in [Passes -> Nat] /\ PassOf[p].included \in Nat
      /\ status \in [Keys -> {"none", "pending", "confirmed", "cancelled", "refunded"}]
      /\ sessionsUsed[p] <= PassOf[p].included
      /\ sessionsUsed[p] <= Cardinality(HeldOn(p))
  BY MoneyAssumption DEF Desk, Books, TypeOK, PassNeverOvercharged
<1>2. /\ status'[k] \notin Active
      /\ \A j \in Keys \ {k} : status'[j] = status[j]
  BY <1>1, CancelEffect DEF Active
<1>3. IsFiniteSet(HeldOn(p)) /\ Cardinality(HeldOn(p)) \in Nat
  BY HeldFinite
<1>4. p # None
  BY RequestAssumption
<1>5. HeldOn(p)' = HeldOn(p) \ {k}
  BY <1>2 DEF HeldOn
<1>6. sessionsUsed' = SessionsAfterCancel(k)
  BY DEF CommitCancel
<1>7. CASE Request[k].pass = p
  <2>1. sessionsUsed'[p] = IF sessionsUsed[p] = 0 THEN 0 ELSE sessionsUsed[p] - 1
    BY <1>1, <1>4, <1>6, <1>7 DEF SessionsAfterCancel
  <2>2. Cardinality(HeldOn(p) \ {k}) \in Nat
        /\ Cardinality(HeldOn(p) \ {k}) >= Cardinality(HeldOn(p)) - 1
    <3>1. CASE k \in HeldOn(p)
      <4>1. Cardinality(HeldOn(p) \ {k}) = Cardinality(HeldOn(p)) - 1
        BY <1>3, <3>1, FS_RemoveElement
      <4>2. Cardinality(HeldOn(p) \ {k}) \in Nat
        BY <1>3, FS_Subset, FS_CardinalityType
      <4> QED BY <1>3, <4>1, <4>2
    <3>2. CASE k \notin HeldOn(p)
      <4>1. HeldOn(p) \ {k} = HeldOn(p)
        BY <3>2
      <4> QED BY <1>3, <4>1
    <3> QED BY <3>1, <3>2
  <2> QED BY <1>1, <1>3, <1>5, <2>1, <2>2
<1>8. CASE Request[k].pass # p
  <2>1. HeldOn(p) \ {k} = HeldOn(p)
    BY <1>8 DEF HeldOn
  <2>2. sessionsUsed'[p] = sessionsUsed[p]
    BY <1>1, <1>6, <1>8 DEF SessionsAfterCancel
  <2> QED BY <1>1, <1>5, <2>1, <2>2
<1> QED BY <1>7, <1>8

\* A monthly pass is never charged for more sessions than it includes or than seats its holder keeps, however
\* bookings and cancellations on it race.
THEOREM PassNeverOverchargedEver == Spec => []PassNeverOvercharged
<1>1. Init => PassNeverOvercharged
  <2> SUFFICES ASSUME Init, NEW p \in Passes
               PROVE  sessionsUsed[p] <= PassOf[p].included
                      /\ sessionsUsed[p] <= Cardinality(HeldOn(p))
    BY DEF PassNeverOvercharged
  <2>1. sessionsUsed[p] = 0 /\ PassOf[p].included \in Nat
    BY MoneyAssumption DEF Init
  <2>2. Cardinality(HeldOn(p)) \in Nat
    BY HeldFinite
  <2> QED BY <2>1, <2>2
<1>2. Desk /\ PassNeverOvercharged /\ [Next]_vars => Desk' /\ PassNeverOvercharged'
  <2> SUFFICES ASSUME Desk, PassNeverOvercharged, [Next]_vars
               PROVE  Desk' /\ PassNeverOvercharged'
    OBVIOUS
  <2>1. CASE \E h \in Handlers, k \in Keys : CommitCreate(h, k)
    BY <2>1, DeskKept, PassKeptByCreate DEF PassNeverOvercharged
  <2>2. CASE \E h \in Handlers, k \in Keys : CommitCancel(h, k)
    BY <2>2, DeskKept, PassKeptByCancel DEF PassNeverOvercharged
  <2>3. CASE status' = status /\ sessionsUsed' = sessionsUsed
    <3>1. \A p : HeldOn(p)' = HeldOn(p)
      BY <2>3 DEF HeldOn
    <3> QED BY <2>3, <3>1, DeskKept DEF PassNeverOvercharged
  <2>4. CASE \E h \in Handlers, k \in Keys : CommitConfirm(h, k)
    <3> PICK h \in Handlers, k \in Keys : CommitConfirm(h, k)
      BY <2>4
    <3>1. sessionsUsed' = sessionsUsed /\ sessionsUsed \in [Passes -> Nat]
      BY ConfirmEffect DEF Desk, Books, TypeOK
    <3>2. ASSUME NEW p \in Passes PROVE sessionsUsed[p] <= Cardinality(HeldOn(p)')
      <4>1. HeldOn(p) \subseteq HeldOn(p)'
        BY ConfirmEffect DEF HeldOn, Active
      <4>2. IsFiniteSet(HeldOn(p)')
        BY FinitenessAssumption, FS_Subset DEF HeldOn
      <4>3. /\ Cardinality(HeldOn(p)) \in Nat /\ Cardinality(HeldOn(p)') \in Nat
            /\ Cardinality(HeldOn(p)) <= Cardinality(HeldOn(p)')
        BY <4>1, <4>2, HeldFinite, FS_Subset, FS_CardinalityType
      <4>4. sessionsUsed[p] \in Nat /\ sessionsUsed[p] <= Cardinality(HeldOn(p))
        BY <3>1 DEF PassNeverOvercharged
      <4> QED BY <4>3, <4>4, SMT
    <3> QED BY <3>1, <3>2, DeskKept DEF PassNeverOvercharged
  <2> QED BY <2>1, <2>2, <2>3, <2>4, StepKinds, MoneyKinds DEF accounts
<1> QED BY <1>1, <1>2, DeskInitially, PTL DEF Spec

------------------------------------------------------------------------------
(* The desk implements the seat sale.                                      *)

SeatedNow == [k \in Prompt |-> SeatedAs(status[k])]
PriceNow  == [k \in Prompt |-> -entries[k].user]
PurseNow  == [g \in Guests |-> wallet[g] + SpentPending(g)]

\* The seat sale's FiniteSets is the desk's.
LEMMA SaleCardinality ==
    ASSUME NEW S
    PROVE  Sale!Cardinality(S) = Cardinality(S)
BY DEF Sale!Cardinality, Cardinality

\* The seats the sale knows of are among those that are taken.
LEMMA SaleSeats ==
    ASSUME NEW o
    PROVE  Sale!Cardinality(Sale!Seats(o)) \in Nat /\ Sale!Cardinality(Sale!Seats(o)) <= Booked(o)
<1>1. Sale!Seats(o) \subseteq SeatsTaken(o)
  BY DEF Sale!Seats, SeatsTaken, SeatedAs, Active, Prompt
<1>2. IsFiniteSet(SeatsTaken(o))
  BY SeatsFinite
<1>3. Cardinality(Sale!Seats(o)) \in Nat /\ Cardinality(Sale!Seats(o)) <= Cardinality(SeatsTaken(o))
  BY <1>1, <1>2, FS_Subset, FS_CardinalityType
<1> QED BY <1>3, SaleCardinality DEF Booked

\* What a buyer has in the ledger was taken, never given.
LEMMA UserEntries ==
    ASSUME Desk, NEW k \in Keys
    PROVE  /\ charge[k].amount \in Nat
           /\ -entries[k].user = IF Refunded(k) THEN 0 ELSE charge[k].amount
<1>1. charge[k].amount \in Nat
  BY DEF Desk, Books, TypeOK, Charges
<1>2. Refunded(k) => entries[k].user = 0
  <2>1. Refunded(k) => entries[k] = NoEntries
    BY DEF Desk, Books, LedgerBalanced
  <2> QED BY <2>1 DEF NoEntries
<1>3. ~Refunded(k) => entries[k].user = 0 - charge[k].amount
  <2>1. ~Refunded(k) => entries[k] = CreditSplit(NoEntries, charge[k])
    BY DEF Desk, Books, LedgerBalanced
  <2> QED BY <2>1 DEF NoEntries, CreditSplit
<1> QED BY <1>1, <1>2, <1>3, SMT

LEMMA SpentIsNat ==
    ASSUME Desk, NEW g
    PROVE  SpentPending(g) \in Nat
<1> DEFINE spent == [k \in Keys |-> -entries[k].user]
           S     == UsersOf(g) \ Prompt
<1>1. IsFiniteSet(S) /\ S \subseteq Keys
  BY FinitenessAssumption, FS_Subset DEF UsersOf
<1>2. \A k \in S : spent[k] \in Nat
  BY <1>1, UserEntries
<1> HIDE DEF spent, S
<1>3. SumFunctionOnSet(spent, S) \in Nat
  BY <1>1, <1>2, SumNat
<1> QED BY <1>3 DEF SpentPending, spent, S

\* Only a prompt booking moves the purse the seat sale sees.
LEMMA PurseMoved ==
    ASSUME TypeOK, TypeOK', NEW k \in Keys, NEW d \in Int, Moves(k, d), NEW g \in Guests
    PROVE  PurseNow'[g] = IF k \in Prompt /\ Request[k].guest = g THEN PurseNow[g] + d
                                                                ELSE PurseNow[g]
<1> DEFINE old == [j \in Keys |-> -entries[j].user]
           new == [j \in Keys |-> -entries'[j].user]
           S   == UsersOf(g) \ Prompt
<1>1. IsFiniteSet(S) /\ S \subseteq Keys /\ (k \in S <=> k \notin Prompt /\ Request[k].guest = g)
  BY FinitenessAssumption, FS_Subset DEF UsersOf
<1>2. \A j \in Keys : entries[j].user \in Int /\ entries'[j].user \in Int
  BY DEF TypeOK
<1>3. /\ \A j \in Keys : old[j] \in Int /\ new[j] \in Int
      /\ \A j \in Keys \ {k} : old[j] = new[j]
      /\ new[k] - old[k] = -d
  BY <1>2 DEF Moves
<1>4. wallet[g] \in Int /\ wallet'[g] = IF Request[k].guest = g THEN wallet[g] + d ELSE wallet[g]
  BY DEF TypeOK, Moves
<1>5. /\ PurseNow[g] = wallet[g] + SumFunctionOnSet(old, S)
      /\ PurseNow'[g] = wallet'[g] + SumFunctionOnSet(new, S)
  BY DEF PurseNow, SpentPending, UsersOf, Prompt
<1> HIDE DEF old, new, S
<1>6. SumFunctionOnSet(old, S) \in Int
  BY <1>1, <1>3, SumInt
<1>7. CASE k \in S
  <2>1. SumFunctionOnSet(new, S) = SumFunctionOnSet(old, S) + (new[k] - old[k])
    BY <1>1, <1>3, <1>7, SumChange
  <2> QED BY <1>1, <1>3, <1>4, <1>5, <1>6, <1>7, <2>1
<1>8. CASE k \notin S
  <2>1. \A j \in S : old[j] = new[j]
    BY <1>1, <1>3, <1>8
  <2>2. SumFunctionOnSet(old, S) = SumFunctionOnSet(new, S)
    BY <1>1, <2>1, SumSame
  <2> QED BY <1>1, <1>4, <1>5, <1>6, <1>8, <2>2
<1> QED BY <1>7, <1>8

\* The sale as a tuple of what the desk's rows show of it.
LEMMA SaleUnchanged ==
    ASSUME SeatedNow' = SeatedNow, PriceNow' = PriceNow, PurseNow' = PurseNow,
           capacity' = capacity
    PROVE  UNCHANGED Sale!saleVars
BY DEF Sale!saleVars, SeatedNow, PriceNow, PurseNow

\* A purchase is the sale of the party's seats at the quoted price; the sale
\* does not see one that is left pending.
LEMMA CreateIsSell ==
    ASSUME Desk, TypeOK', NEW h \in Handlers, NEW k \in Keys, CommitCreate(h, k)
    PROVE  IF k \in Prompt THEN Sale!Sell(k) ELSE UNCHANGED Sale!saleVars
<1> DEFINE g == Request[k].guest
           a == proc[h].quote.amount
<1>1. /\ status[k] = "none"
      /\ k \in Prompt => status'[k] = "confirmed"
      /\ \A j \in Keys \ {k} : status'[j] = status[j]
  BY CreateEffect
<1>2. /\ g \in Guests /\ wallet \in [Guests -> Nat] /\ a \in Nat /\ Prompt \subseteq Keys
  BY RequestAssumption DEF Requests, Desk, Books, TypeOK, Charges, Prompt
<1>3. -a \in Int /\ Moves(k, -a)
  BY CreateMoves DEF Desk, Books
<1>4. entries[k].user = 0
  <2>1. charge[k].amount = 0 /\ ~Refunded(k)
    BY <1>1 DEF Desk, Books, BlankRows, NoCharge
  <2>2. -entries[k].user = 0 /\ entries[k].user \in Int
    BY <2>1, UserEntries DEF Desk, Books, TypeOK
  <2> QED BY <2>2, SMT
<1>5. -entries'[k].user = a /\ \A j \in Keys \ {k} : entries'[j] = entries[j]
  BY <1>2, <1>3, <1>4, SMT DEF Moves
<1>6. capacity' = capacity
  BY DEF CommitCreate, event
<1>7. TypeOK
  BY DEF Desk, Books
<1>8. \A x \in Guests : PurseNow'[x] = IF k \in Prompt /\ g = x THEN PurseNow[x] + (-a)
                                                               ELSE PurseNow[x]
  BY <1>3, <1>7, PurseMoved
<1>9. CASE k \in Prompt
  <2>1. SeatedNow[k] = "no" /\ SeatedNow' = [SeatedNow EXCEPT ![k] = "yes"]
    BY <1>1, <1>2, <1>9 DEF SeatedNow, SeatedAs, Active, Prompt
  <2>2. PriceNow' = [PriceNow EXCEPT ![k] = a]
    BY <1>2, <1>5, <1>9 DEF PriceNow, Prompt
  <2>3. PurseNow[g] \in Nat /\ a \in 0..PurseNow[g]
    <3>1. a <= wallet[g]
      BY DEF CommitCreate, MayDebit
    <3>2. SpentPending(g) \in Nat
      BY SpentIsNat
    <3>3. PurseNow[g] = wallet[g] + SpentPending(g)
      BY <1>2 DEF PurseNow
    <3>4. wallet[g] \in Nat
      BY <1>2
    <3> QED BY <1>2, <3>1, <3>2, <3>3, <3>4, SMT
  <2>4. PurseNow' = [PurseNow EXCEPT ![g] = @ - a]
    <3>1. PurseNow'[g] = PurseNow[g] - a
      BY <1>2, <1>8, <1>9, <2>3
    <3>2. \A x \in Guests \ {g} : PurseNow'[x] = PurseNow[x]
      BY <1>8
    <3> QED BY <1>2, <3>1, <3>2 DEF PurseNow
  <2>5. Sale!Cardinality(Sale!Seats(Request[k].occ)) + Request[k].qty <= capacity
    <3>1. Booked(Request[k].occ) + Request[k].qty <= capacity
      BY DEF CommitCreate, SeatsLeft
    <3>2. Request[k].qty \in Nat /\ capacity \in Nat /\ Booked(Request[k].occ) \in Nat
      BY <1>7, PartySize, SeatsFinite DEF TypeOK
    <3>3. /\ Sale!Cardinality(Sale!Seats(Request[k].occ)) \in Nat
          /\ Sale!Cardinality(Sale!Seats(Request[k].occ)) <= Booked(Request[k].occ)
      BY SaleSeats
    <3> QED BY <3>1, <3>2, <3>3, SMT
  <2>6. \E p \in 0..PurseNow[g] : /\ PriceNow' = [PriceNow EXCEPT ![k] = p]
                                 /\ PurseNow' = [PurseNow EXCEPT ![g] = @ - p]
    BY <2>2, <2>3, <2>4
  <2> HIDE DEF a
  <2>7. Sale!Sell(k)
    BY <1>6, <1>9, <2>1, <2>5, <2>6 DEF Sale!Sell, SeatedNow, PriceNow, PurseNow
  <2> QED BY <1>9, <2>7
<1>10. CASE k \notin Prompt
  <2>1. SeatedNow' = SeatedNow
    BY <1>1, <1>2, <1>10 DEF SeatedNow, Prompt
  <2>2. PriceNow' = PriceNow
    BY <1>2, <1>5, <1>10 DEF PriceNow, Prompt
  <2>3. PurseNow' = PurseNow
    BY <1>8, <1>10 DEF PurseNow
  <2> QED BY <1>6, <1>10, <2>1, <2>2, <2>3, SaleUnchanged
<1> QED BY <1>9, <1>10

\* A cancellation gives the seats up, or repeats one that already has; the sale
\* does not see that of a row that was left pending.
LEMMA CancelIsGiveUp ==
    ASSUME Desk, TypeOK', NEW h \in Handlers, NEW k \in Keys, CommitCancel(h, k)
    PROVE  (k \in Prompt /\ Sale!GiveUp(k)) \/ UNCHANGED Sale!saleVars
<1> DEFINE g == Request[k].guest
           a == charge[k].amount
<1>1. /\ k \in Prompt => status[k] = "confirmed" \/ (status[k] = "cancelled" /\ a = 0)
      /\ status' = [status EXCEPT ![k] = IF a > 0 THEN "refunded" ELSE "cancelled"]
      /\ ~Refunded(k)
  BY CancelEffect
<1>2. /\ g \in Guests /\ wallet \in [Guests -> Nat] /\ a \in Nat /\ Prompt \subseteq Keys
      /\ status \in [Keys -> {"none", "pending", "confirmed", "cancelled", "refunded"}]
  BY RequestAssumption DEF Requests, Desk, Books, TypeOK, Charges, Prompt
<1>3. a \in Int /\ Moves(k, a)
  BY CancelMoves DEF Desk, Books
<1>4. -entries[k].user = a
  BY <1>1, UserEntries
<1>5. -entries'[k].user = 0 /\ \A j \in Keys \ {k} : entries'[j] = entries[j]
  <2>1. entries[k].user \in Int
    BY DEF Desk, Books, TypeOK
  <2> QED BY <1>2, <1>3, <1>4, <2>1, SMT DEF Moves
<1>6. capacity' = capacity
  BY DEF CommitCancel, event
<1>7. TypeOK
  BY DEF Desk, Books
<1>8. \A x \in Guests : PurseNow'[x] = IF k \in Prompt /\ g = x THEN PurseNow[x] + a
                                                               ELSE PurseNow[x]
  BY <1>3, <1>7, PurseMoved
<1>9. ASSUME k \in Prompt
      PROVE  /\ PriceNow' = [PriceNow EXCEPT ![k] = 0] /\ PriceNow[k] = a
             /\ PurseNow' = [PurseNow EXCEPT ![g] = @ + a]
  <2>1. PriceNow' = [PriceNow EXCEPT ![k] = 0] /\ PriceNow[k] = a
    BY <1>2, <1>4, <1>5, <1>9 DEF PriceNow, Prompt
  <2>2. PurseNow' = [PurseNow EXCEPT ![g] = @ + a]
    BY <1>2, <1>8, <1>9 DEF PurseNow
  <2> QED BY <2>1, <2>2
<1>10. CASE k \in Prompt /\ status[k] = "confirmed"
  <2>1. SeatedNow[k] = "yes" /\ SeatedNow' = [SeatedNow EXCEPT ![k] = "left"]
    BY <1>1, <1>2, <1>10 DEF SeatedNow, SeatedAs, Active, Prompt
  <2> HIDE DEF a
  <2>2. PurseNow' = [PurseNow EXCEPT ![g] = @ + PriceNow[k]]
    BY <1>9, <1>10
  <2> QED BY <1>6, <1>9, <1>10, <2>1, <2>2 DEF Sale!GiveUp, SeatedNow, PriceNow, PurseNow
<1>11. CASE k \in Prompt /\ status[k] = "cancelled" /\ a = 0
  <2>1. SeatedNow' = SeatedNow
    BY <1>1, <1>2, <1>11 DEF SeatedNow, SeatedAs, Active, Prompt
  <2>2. PriceNow' = PriceNow
    BY <1>9, <1>11 DEF PriceNow
  <2>3. PurseNow' = PurseNow
    <3>1. PurseNow[g] + 0 = PurseNow[g]
      <4>1. PurseNow[g] = wallet[g] + SpentPending(g) /\ SpentPending(g) \in Nat
        BY <1>2, SpentIsNat DEF PurseNow
      <4> QED BY <1>2, <4>1
    <3> QED BY <1>2, <1>9, <1>11, <3>1 DEF PurseNow
  <2> QED BY <1>6, <2>1, <2>2, <2>3, SaleUnchanged
<1>12. CASE k \notin Prompt
  <2>1. SeatedNow' = SeatedNow
    BY <1>1, <1>2, <1>12 DEF SeatedNow, Prompt
  <2>2. PriceNow' = PriceNow
    BY <1>2, <1>5, <1>12 DEF PriceNow, Prompt
  <2>3. PurseNow' = PurseNow
    BY <1>8, <1>12 DEF PurseNow
  <2> QED BY <1>6, <2>1, <2>2, <2>3, SaleUnchanged
<1> QED BY <1>1, <1>10, <1>11, <1>12

\* A confirmation is of a row the sale does not see.
LEMMA ConfirmIsNothing ==
    ASSUME Desk, NEW h \in Handlers, NEW k \in Keys, CommitConfirm(h, k)
    PROVE  UNCHANGED Sale!saleVars
<1>1. /\ k \notin Prompt /\ \A j \in Keys \ {k} : status'[j] = status[j]
      /\ wallet' = wallet /\ entries' = entries /\ capacity' = capacity
  BY ConfirmEffect
<1>2. SeatedNow' = SeatedNow
  BY <1>1 DEF SeatedNow, Prompt
<1>3. PriceNow' = PriceNow
  BY <1>1 DEF PriceNow
<1>4. PurseNow' = PurseNow
  BY <1>1 DEF PurseNow, SpentPending
<1> QED BY <1>1, <1>2, <1>3, <1>4, SaleUnchanged

\* Every behaviour of the desk is, seat by seat and cent by cent, a behaviour
\* of the seat sale among the bookings confirmed as they were made, beside any
\* rows that were left pending.
THEOREM DeskImplementsSale == Spec => ImplementsSeatSale
<1>1. Init => Sale!SaleInit
  <2> SUFFICES ASSUME Init PROVE Sale!SaleInit
    OBVIOUS
  <2>1. capacity \in Nat /\ wallet \in [Guests -> Nat] /\ Desk
    BY TypesInitially, DeskInitially DEF TypeOK
  <2>2. \A k \in Prompt : SeatedAs(status[k]) = "no" /\ -entries[k].user = 0
    BY SMT DEF Init, SeatedAs, Active, NoEntries, Prompt
  <2>3. \A g \in Guests : wallet[g] + SpentPending(g) \in Nat
    <3>1. \A g \in Guests : wallet[g] \in Nat /\ SpentPending(g) \in Nat
      BY <2>1, SpentIsNat
    <3> QED BY <3>1
  <2> QED BY <2>1, <2>2, <2>3 DEF Sale!SaleInit
<1>2. Desk /\ [Next]_vars => [Sale!SaleNext]_(Sale!saleVars)
  <2> SUFFICES ASSUME Desk, [Next]_vars PROVE Sale!SaleNext \/ UNCHANGED Sale!saleVars
    OBVIOUS
  <2>t. TypeOK'
    BY TypesPreserved DEF Desk, Books
  <2>1. CASE UNCHANGED <<status, charge, payment, wallet, entries, journal>>
    <3>1. capacity' \in Nat
      BY <2>t DEF TypeOK
    <3> QED BY <2>1, <3>1 DEF Sale!SaleNext, Sale!Refit, SpentPending
  <2>2. CASE \E h \in Handlers, k \in Keys : CommitCreate(h, k)
    BY <2>t, <2>2, CreateIsSell DEF Sale!SaleNext
  <2>3. CASE \E h \in Handlers, k \in Keys : CommitCancel(h, k)
    BY <2>t, <2>3, CancelIsGiveUp DEF Sale!SaleNext
  <2>4. CASE \E h \in Handlers, k \in Keys : CommitConfirm(h, k)
    BY <2>4, ConfirmIsNothing
  <2> QED BY <2>1, <2>2, <2>3, <2>4, StepKinds
<1>3. Desk /\ [Next]_vars => Desk'
  BY DeskKept
<1> QED BY <1>1, <1>2, <1>3, DeskInitially, PTL DEF Spec, ImplementsSeatSale, Sale!SaleSpec

==============================================================================
