-------------------------------- MODULE MCHosts --------------------------------
(* A host's co-hosts, the administrators' withdrawals, a host's profile and  *)
(* the statements of the money share no state here: a behaviour moves one of *)
(* them, chosen at the start, so that one run explores the sum of their      *)
(* states.                                                                   *)
EXTENDS CoHost, Treasury, HostProfile, Statements, TLC

CONSTANTS cora, r1, r2, r3, k1, k2, m1, m2, m3, e1, e2, w1, w2, o1, s1, g1,
          p1, x1, ann, bob, hana, hugo

VARIABLE focus

\* r3 is r1's retry, under its key.
mcSender == [r \in {r1, r2, r3} |-> cora]
mcKeyOf  == (r1 :> k1) @@ (r2 :> k2) @@ (r3 :> k1)
mcAsked  == (r1 :> 0) @@ (r2 :> 1) @@ (r3 :> 0)

\* Two methods of a host and one of the platform's.
mcHolder == (m1 :> hana) @@ (m2 :> hana) @@ (m3 :> NoHost)

\* w2 is w1's retry.
mcLedgerKey == [w \in {w1, w2} |-> k1]
mcSum       == [w \in {w1, w2} |-> 1]

\* A host's one-star and five-star reviews.
mcStars == <<1, 5>>

\* Two bookings of one host, of which one is dear, a free one of another's, and
\* a pass; a withdrawal of what the dear one earned.
mcHostsOf   == (1 :> hana) @@ (2 :> hugo) @@ (3 :> hana) @@ (p1 :> hana)
mcPayerOf   == (1 :> ann) @@ (2 :> ann) @@ (3 :> bob) @@ (p1 :> bob)
mcChargeOf  == (1 :> Charge(200, 10, 5)) @@ (2 :> NoCharge)
               @@ (3 :> Charge(100, 10, 5)) @@ (p1 :> Charge(100, 10, 0))
mcPayee     == x1 :> hana
mcCents     == x1 :> 180

\* Beside a withdrawal only the booking that pays for it, a free one and a review
\* change.
EarningsWrites ==
    \/ PayoutWrites \/ WriteReview(hana)
    \/ \E b \in {1, 2} : Book(b) \/ Cancel(b) \/ TakePlace(b)

Init ==
    /\ focus \in {"co-host", "methods", "treasury", "profile", "lists", "earnings"}
    /\ CoHostInit /\ TreasuryInit /\ HostInit /\ StatementsInit
    /\ focus # "profile" => row = NoRow
    /\ method = [m \in Methods |->
                   IF focus # "treasury" THEN "none" ELSE IF m = m2 THEN "secondary" ELSE "primary"]

Next ==
    /\ \/ focus = "co-host"  /\ CoHostNext   /\ UNCHANGED <<trVars, hpVars, stVars>>
       \/ focus = "methods"  /\ MethodsNext  /\ UNCHANGED <<coVars, hpVars, stVars>>
       \/ focus = "treasury" /\ (OrdersNext \/ DeletesNext) /\ UNCHANGED <<coVars, hpVars, stVars>>
       \/ focus = "profile"  /\ HostNext     /\ UNCHANGED <<coVars, trVars, stVars>>
       \/ /\ \/ focus = "lists" /\ ((SaleWrites /\ Watched) \/ ListReads)
             \/ focus = "earnings" /\ ((EarningsWrites /\ Watched) \/ EarningsReads)
             \/ ClosePage
          /\ UNCHANGED <<coVars, trVars, hpVars>>
    /\ UNCHANGED focus

Spec == Init /\ [][Next]_<<coVars, trVars, hpVars, stVars, focus>>

\* The request and its retry are alike.
Symmetry == Permutations({r1, r3})
==============================================================================
