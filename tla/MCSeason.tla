-------------------------------- MODULE MCSeason --------------------------------
(* One event's season, the sale of its passes, its host's coupon codes and   *)
(* the limiter of its passkey share no state here: a behaviour moves one of  *)
(* them, chosen at the start, so that one run explores the sum of their      *)
(* states.                                                                   *)
EXTENDS EventLifecycle, Passes, Coupons, Throttle, TLC

CONSTANTS b1, b2, h1, h2, k1, k2, ann, bob,
          hana, hugo, evt, u1, u2, u3, x1, x2, q1, q2

VARIABLE focus

mcSlotOf == (b1 :> 1) @@ (b2 :> 3)

Weekly == {[weekday |-> 0, start |-> 0, end |-> 2]}

Plain == [status |-> "", time |-> 1, recurring |-> FALSE, rule |-> "none",
          schedule |-> "", dates |-> {}, session |-> "group", windows |-> {},
          duration |-> 1, break |-> 0, cap |-> 2, free |-> FALSE, pass |-> "off",
          private |-> FALSE, mode |-> "passkey", passkey |-> FALSE,
          passkeyFree |-> FALSE, details |-> FALSE]

\* A repeating event with a pass, one that takes place once, a private draft
\* with two dates, and two bodies that are refused.
mcCreateRequests ==
    {[Plain EXCEPT !.recurring = TRUE, !.rule = "weekly", !.pass = "on", !.status = "live"],
     [Plain EXCEPT !.time = 2, !.status = "live"],
     [Plain EXCEPT !.private = TRUE, !.passkey = TRUE, !.passkeyFree = TRUE, !.dates = {1, 3}],
     [Plain EXCEPT !.status = "cancelled"],
     [Plain EXCEPT !.pass = "on"]}

mcUpdates ==
    {[private |-> TRUE, mode |-> "rsvp", details |-> TRUE,
      session |-> "one_on_one", windows |-> Weekly]}

mcPauseRequests ==
    {[from |-> Never, date |-> Never], [from |-> 2, date |-> Never],
     [from |-> Never, date |-> 2]}

\* Two guests, one purchase each: a handler's retry of the other's key takes
\* the part of a second purchase.
mcBuyer == (k1 :> ann) @@ (k2 :> bob)

\* A code for two, once per guest, the same code of a co-host, which the event
\* does not know, and room for another; two requests of the owner.
Terms(max, perUser, days, scope) ==
    [event |-> scope, code |-> "vip", max |-> max, perUser |-> perUser, window |-> days,
     active |-> TRUE]
mcStock   == (u1 :> NewRow(hana, Terms(2, 1, {TRUE, FALSE}, Everywhere)))
             @@ (u2 :> NewRow(hugo, Terms(1, 1, {TRUE, FALSE}, evt))) @@ (u3 :> NoCoupon)
mcForms   == {Terms(1, NoLimit, {FALSE}, evt)}
mcBodies  == {[active |-> FALSE], [max |-> 1, code |-> "gala"]}
mcOwner   == evt :> hana
mcManages == {<<hana, evt>>, <<hugo, evt>>}
mcHostOf  == [x \in {x1, x2} |-> hana]
mcGuestOf == [k \in {q1, q2} |-> ann]
mcEventOf == [k \in {q1, q2} |-> evt]
mcCodeOf  == [k \in {q1, q2} |-> "vip"]

SeasonInit ==
    /\ focus \in {"event", "passes", "coupons", "passkeys"}
    /\ Init /\ PassInit /\ CouponsInit /\ ThrottleInit

SeasonNext ==
    /\ \/ focus = "event"    /\ Next /\ UNCHANGED <<passVars, cpVars, thVars>>
       \/ focus = "passes"   /\ PassNext /\ UNCHANGED <<vars, cpVars, thVars>>
       \/ focus = "coupons"  /\ CouponsNext /\ UNCHANGED <<vars, passVars, thVars>>
       \/ focus = "passkeys" /\ ThrottleNext /\ UNCHANGED <<vars, passVars, cpVars>>
    /\ UNCHANGED focus

SeasonSpec == SeasonInit /\ [][SeasonNext]_<<vars, passVars, cpVars, thVars, focus>>

Symmetry == Permutations(Handlers)
==============================================================================
