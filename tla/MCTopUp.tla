------------------------------ MODULE MCTopUp --------------------------------
(***************************************************************************)
(* Small instances of TopUp for TLC: one top-up of 2, and refunds of 1 and *)
(* of 2 that compete for it and for the wallet with bookings of 1.         *)
(***************************************************************************)
EXTENDS TopUp, TLC

CONSTANTS t1,             \* a top-up
          r1, r2,         \* refunds
          c1, c2,         \* clerks
          w1, w2          \* couriers

PaidIn    == [t \in Topups |-> 2]
RefundOf  == [r \in Refunds |-> t1]
AskedBack == [r \in Refunds |-> IF r = r1 THEN 2 ELSE 1]

==============================================================================
