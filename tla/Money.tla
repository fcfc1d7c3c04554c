-------------------------------- MODULE Money --------------------------------
(***************************************************************************)
(* How a price becomes a charge, a platform fee and a host earning: the    *)
(* arithmetic of bookingService.CreateBooking (internal/service/           *)
(* booking_service.go), Coupon.DiscountCents and BookingFeeConfig.FeeCents.*)
(*                                                                         *)
(* Amounts are cents.  Every division floors, as Go's integer division     *)
(* does on the non-negative operands that occur here.                      *)
(***************************************************************************)
EXTENDS Integers

\* Coupon.DiscountCents: what a percentage code takes off a ticket total.
DiscountCents(total, percent) == (total * percent) \div 100

\* The platform's commission, and what is left for the host.
PlatformFee(total, percent) == (total * percent) \div 100
HostEarning(total, percent) == total - PlatformFee(total, percent)

\* BookingFeeConfig.FeeCents: the guest-paid fee on top of the tickets.
FeeCents(config, total) ==
    IF config.type = "percentage"
    THEN (total * config.percentage) \div 100
    ELSE config.amount

\* The three figures snapshotted on a booking row: what the guest pays, the
\* platform's part and the host's part.
Charge(total, percent, guestFee) ==
    [amount |-> total + guestFee,
     fee    |-> PlatformFee(total, percent) + guestFee,
     net    |-> HostEarning(total, percent)]

\* A seat that moves no money: free, comped, paid offline or pass-covered.
NoCharge == [amount |-> 0, fee |-> 0, net |-> 0]

\* What a purchase has put in the ledger, per account.  creditSplit writes
\*   user -total, platform +total, platform -net, host +net,
\* and reverseSplit undoes it line by line.
NoEntries == [user |-> 0, platform |-> 0, host |-> 0]

\* Fault: the user's debit leaves out the platform's fee.
CreditSplitNet(entries, charge) ==
    [user     |-> entries.user - charge.net,
     platform |-> entries.platform + charge.amount - charge.net,
     host     |-> entries.host + charge.net]

CreditSplit(entries, charge) ==
    [user     |-> entries.user - charge.amount,
     platform |-> entries.platform + charge.amount - charge.net,
     host     |-> entries.host + charge.net]

\* Fault: the platform keeps its commission.
ReverseSplitKeepingFee(entries, charge) ==
    [user     |-> entries.user + charge.amount,
     platform |-> entries.platform,
     host     |-> entries.host - charge.net]

ReverseSplit(entries, charge) ==
    [user     |-> entries.user + charge.amount,
     platform |-> entries.platform - charge.fee,
     host     |-> entries.host - charge.net]

==============================================================================
