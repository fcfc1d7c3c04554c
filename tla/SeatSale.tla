------------------------------ MODULE SeatSale -------------------------------
(***************************************************************************)
(* What a guest and a host may expect of the booking desk, with nothing of *)
(* how it is done: a seat sale is one indivisible exchange of seats for    *)
(* money, and giving the seats up is its exact undoing, at most once.      *)
(*                                                                         *)
(* There are no handlers here, no ledger, no coupons and no passes.  What  *)
(* the seats cost is left open: any price the buyer's purse can meet.      *)
(***************************************************************************)
EXTENDS Integers, FiniteSets

CONSTANTS
    Parties,       \* the purchases that may be made
    Buyers,
    Dates,
    BuyerOf,       \* who makes a purchase
    DateOf,        \* for which date
    SizeOf,        \* and for how many seats, at least one
    MaxSize        \* the largest party

VARIABLES
    seated,        \* "no", "yes" or "left", for each party
    price,         \* what a seated party has paid
    purse,         \* what each buyer has left
    house          \* how many seats there are on each date

saleVars == <<seated, price, purse, house>>

Seats(d) ==
    {seat \in Parties \X (1..MaxSize) :
        /\ seated[seat[1]] = "yes"
        /\ DateOf[seat[1]] = d
        /\ seat[2] <= SizeOf[seat[1]]}

SaleInit ==
    /\ seated = [k \in Parties |-> "no"]
    /\ price = [k \in Parties |-> 0]
    /\ purse \in [Buyers -> Nat]
    /\ house \in Nat

\* The party fits, the buyer pays, and the seats are theirs.
Sell(k) ==
    /\ seated[k] = "no"
    /\ Cardinality(Seats(DateOf[k])) + SizeOf[k] <= house
    /\ \E p \in 0..purse[BuyerOf[k]] :
          /\ price' = [price EXCEPT ![k] = p]
          /\ purse' = [purse EXCEPT ![BuyerOf[k]] = @ - p]
    /\ seated' = [seated EXCEPT ![k] = "yes"]
    /\ UNCHANGED house

\* The seats are free again and the buyer has back exactly what they paid.
GiveUp(k) ==
    /\ seated[k] = "yes"
    /\ seated' = [seated EXCEPT ![k] = "left"]
    /\ purse' = [purse EXCEPT ![BuyerOf[k]] = @ + price[k]]
    /\ price' = [price EXCEPT ![k] = 0]
    /\ UNCHANGED house

\* The host may set the number of seats to anything, sold or not.
Refit ==
    /\ house' \in Nat
    /\ UNCHANGED <<seated, price, purse>>

SaleNext == Refit \/ \E k \in Parties : Sell(k) \/ GiveUp(k)

SaleSpec == SaleInit /\ [][SaleNext]_saleVars

==============================================================================
