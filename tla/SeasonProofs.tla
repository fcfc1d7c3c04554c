----------------------------- MODULE SeasonProofs -----------------------------
(***************************************************************************)
(* Proofs about an event's life, its passes, its host's coupon codes and   *)
(* the limiter of its passkey, for any number of bookings, guests, passes, *)
(* codes and requests.                                                     *)
(*                                                                         *)
(* EventLifecycle: no cancellation, pause or deletion loses sight of a     *)
(* booking, whatever the form holds.  The invariant says, of every handler *)
(* that has listed the bookings, that each one it has to refund is still   *)
(* on its list or in its hand, or was lost with a failed refund; guests    *)
(* only ever take such a booking away, since one that was made is not made *)
(* again.  And every view of the event's dates agrees: whatever is         *)
(* created, edited, paused and written from a copy, the row's kind of      *)
(* schedule is the one its sessions give it, which is what the views rely  *)
(* on that mark pauses by different rules.                                 *)
(*                                                                         *)
(* Passes: the capacity is overshot by no more than the purchases in       *)
(* flight, and a wallet is short of exactly what was bought; the sum over  *)
(* the passes is taken apart with the lemmas of Sums.                      *)
(*                                                                         *)
(* Coupons: that a guest's limit is broken only by checkouts that overlap  *)
(* is not inductive.  It follows from an order among the checkouts: of any *)
(* set of them one was counted by none of the others, the last to count.   *)
(*                                                                         *)
(* Throttle: a caller is granted no more than the burst and what the       *)
(* elapsed time earned; a bucket is dropped when it was last written at    *)
(* least Burst instants ago, so it was full and the new one is worth as    *)
(* much.                                                                   *)
(***************************************************************************)
EXTENDS EventLifecycle, Passes, Coupons, Throttle, Sums

------------------------------------------------------------------------------
(* EventLifecycle: the bookings that handlers have listed.                 *)

Coming(p, b) == b \in p.todo \/ (p.pc = "crediting" /\ b = p.current)

ProcParts == {"pc", "op", "copy", "body", "at", "seen", "todo", "current", "failed"}

\* What a handler at work keeps true of the bookings it listed, given the
\* bookings and the refunds that were lost.
ProcOK(p, bookings, gone) ==
    /\ DOMAIN p = ProcParts /\ p.at \in Nat
    /\ p.seen \subseteq {b \in Bookings : bookings[b] # "none"}
    /\ p.pc \notin {"refunding", "crediting"} => p.seen = {}
    /\ p.op = "pause" =>
         \A b \in p.seen : InPauseScope(p, b) /\ bookings[b] = "confirmed" => Coming(p, b) \/ b \in gone
    /\ p.op = "cancel" /\ ~p.failed =>
         \A b \in p.seen : SlotOf[b] >= p.at /\ bookings[b] = "confirmed" => Coming(p, b)
    /\ p.op = "delete" => \A b \in p.seen : bookings[b] # "confirmed"

LifecycleInv ==
    /\ booking \in [Bookings -> {"none", "confirmed", "refunded", "erased"}]
    /\ DOMAIN proc = Handlers /\ now \in Nat
    /\ \A h \in Handlers : ProcOK(proc[h], booking, lost)

\* A booking that was made stays made, and is not confirmed twice.
MadeStaysMade ==
    /\ lost \subseteq lost'
    /\ \A b \in Bookings : booking[b] # "none" =>
         booking'[b] # "none" /\ (booking'[b] = "confirmed" => booking[b] = "confirmed")

\* What is true of a handler's list stays true while bookings only end.
LEMMA ProcKeeps ==
    ASSUME NEW p, ProcOK(p, booking, lost), MadeStaysMade PROVE ProcOK(p, booking', lost')
  BY DEF ProcOK, MadeStaysMade, Coming

\* One handler's turn.
LEMMA OneTurn ==
    ASSUME LifecycleInv, NEW h \in Handlers, NEW p, Become(h, p), MadeStaysMade,
           booking' \in [Bookings -> {"none", "confirmed", "refunded", "erased"}],
           ProcOK(p, booking', lost'), now' = now
    PROVE  LifecycleInv'
<1>1. /\ DOMAIN proc' = Handlers /\ proc'[h] = p
      /\ \A j \in Handlers \ {h} : proc'[j] = proc[j]
  BY DEF Become, LifecycleInv
<1>2. ASSUME NEW j \in Handlers PROVE ProcOK(proc'[j], booking', lost')
  <2>1. CASE j = h
    BY <1>1, <2>1
  <2>2. CASE j # h
    <3>1. proc'[j] = proc[j] /\ ProcOK(proc[j], booking, lost)
      BY <1>1, <2>2 DEF LifecycleInv
    <3>2. ProcOK(proc[j], booking', lost')
      BY <3>1, ProcKeeps
    <3> QED BY <3>1, <3>2
  <2> QED BY <2>1, <2>2
<1> QED BY <1>1, <1>2 DEF LifecycleInv

\* A step that leaves the bookings alone.
LEMMA NothingMade == ASSUME LifecycleInv, UNCHANGED <<booking, lost>>
    PROVE  /\ MadeStaysMade
           /\ booking' \in [Bookings -> {"none", "confirmed", "refunded", "erased"}]
  BY DEF LifecycleInv, MadeStaysMade

\* A handler that has listed nothing.
LEMMA FreshProc ==
    ASSUME NEW p, DOMAIN p = ProcParts, p.seen = {}, p.at \in Nat, NEW bookings, NEW gone
    PROVE  ProcOK(p, bookings, gone)
  BY DEF ProcOK

\* A handler at rest has listed nothing.
LEMMA IdleProc == DOMAIN Idle = ProcParts /\ Idle.seen = {} /\ Idle.at = 0 /\ Idle.pc = "idle"
  BY DEF Idle, ProcParts

\* An operation that begins has listed nothing.
LEMMA BeginKeeps ==
    ASSUME LifecycleInv, NEW h \in Handlers, Manage(h) PROVE LifecycleInv'
<1>1. ASSUME NEW p, DOMAIN p = ProcParts, p.seen = {}, p.at \in Nat, Begin(h, p) PROVE LifecycleInv'
  <2>1. Become(h, p) /\ UNCHANGED <<booking, lost, now>>
    BY <1>1 DEF Begin, seats
  <2> QED BY <1>1, <2>1, NothingMade, FreshProc, OneTurn
<1>2. ASSUME NEW op PROVE /\ DOMAIN Writing(op) = ProcParts /\ Writing(op).seen = {} /\ Writing(op).at = 0
                          /\ DOMAIN Listing(op) = ProcParts /\ Listing(op).seen = {} /\ Listing(op).at = 0
  BY DEF Writing, Listing, Idle, ProcParts
<1>3. CASE \E req \in Updates : BeginUpdate(h, req)
  <2>1. PICK req \in Updates : BeginUpdate(h, req)
    BY <1>3
  <2> DEFINE p == [Writing("update") EXCEPT !.body = req]
  <2>2. DOMAIN p = ProcParts /\ p.seen = {} /\ p.at \in Nat /\ Begin(h, p)
    BY <1>2, <2>1 DEF BeginUpdate, ProcParts
  <2> QED BY <1>1, <2>2
<1>4. CASE BeginPublish(h)
  <2> DEFINE p == [Writing("publish") EXCEPT !.copy = NoRow]
  <2>2. DOMAIN p = ProcParts /\ p.seen = {} /\ p.at \in Nat /\ Begin(h, p)
    BY <1>2, <1>4 DEF BeginPublish, ProcParts
  <2> QED BY <1>1, <2>2
<1>5. CASE \E req \in PauseRequests : BeginPause(h, req)
  <2>1. PICK req \in PauseRequests : BeginPause(h, req)
    BY <1>5
  <2> DEFINE p == [Writing("pause") EXCEPT !.body = req, !.at = now]
  <2>2. DOMAIN p = ProcParts /\ p.seen = {} /\ p.at \in Nat /\ Begin(h, p)
    BY <1>2, <2>1 DEF BeginPause, ProcParts, LifecycleInv
  <2> QED BY <1>1, <2>2
<1>6. CASE BeginResume(h)
  BY <1>1, <1>2, <1>6 DEF BeginResume
<1>7. CASE BeginCancel(h) \/ BeginDelete(h)
  BY <1>1, <1>2, <1>7 DEF BeginCancel, BeginDelete
<1> QED BY <1>3, <1>4, <1>5, <1>6, <1>7 DEF Manage

\* A handler that goes idle, or starts a guest's request.
LEMMA Resting ==
    ASSUME LifecycleInv, NEW h \in Handlers, Become(h, Idle), MadeStaysMade,
           booking' \in [Bookings -> {"none", "confirmed", "refunded", "erased"}], now' = now
    PROVE  LifecycleInv'
  BY IdleProc, FreshProc, OneTurn

\* What is listed is on the list.
LEMMA ListKeeps == ASSUME LifecycleInv, NEW h \in Handlers, List(h) PROVE LifecycleInv'
<1> DEFINE p == proc[h]
           listed == {b \in Bookings : booking[b] # "none"}
           todo == CASE p.op = "pause"  -> PauseRefunds(p)
                     [] p.op = "cancel" -> CancelRefunds
                     [] OTHER           -> {}
           q == [p EXCEPT !.pc = "refunding", !.seen = listed, !.todo = todo,
                          !.at = IF p.op = "cancel" THEN now ELSE @]
<1>1. /\ Become(h, q) /\ UNCHANGED <<booking, lost, now>>
      /\ p.op = "delete" => MayDelete
  BY DEF List, seats
<1>2. DOMAIN p = ProcParts /\ p.at \in Nat /\ now \in Nat
  BY DEF LifecycleInv, ProcOK
<1>3. /\ p.op = "pause" => todo = PauseRefunds(p)
      /\ p.op = "cancel" => todo = CancelRefunds
  OBVIOUS
<1> HIDE DEF todo, listed
<1>4. /\ DOMAIN q = ProcParts /\ q.pc = "refunding" /\ q.seen = listed /\ q.todo = todo
      /\ q.op = p.op /\ q.body = p.body
      /\ p.op = "cancel" => q.at = now
      /\ p.op # "cancel" => q.at = p.at
  BY <1>2 DEF ProcParts
<1> HIDE DEF q, p
<1>5. ASSUME NEW b \in listed
      PROVE  /\ q.op = "pause" /\ InPauseScope(q, b) => Coming(q, b)
             /\ q.op = "cancel" /\ SlotOf[b] >= q.at /\ booking[b] = "confirmed" => Coming(q, b)
             /\ q.op = "delete" => booking[b] # "confirmed"
  <2>1. ASSUME q.op = "pause", InPauseScope(q, b) PROVE Coming(q, b)
    <3>1. InPauseScope(p, b)
      BY <1>4, <2>1 DEF InPauseScope
    <3> QED BY <1>3, <1>4, <2>1, <3>1 DEF Coming, PauseRefunds, listed
  <2>2. ASSUME q.op = "cancel", SlotOf[b] >= q.at, booking[b] = "confirmed" PROVE Coming(q, b)
    BY <1>3, <1>4, <2>2 DEF Coming, CancelRefunds, Confirmed, listed
  <2>3. ASSUME q.op = "delete" PROVE booking[b] # "confirmed"
    BY <1>1, <1>4, <2>3 DEF MayDelete, Confirmed, listed
  <2> QED BY <2>1, <2>2, <2>3
<1>6. ProcOK(q, booking, lost)
  BY <1>2, <1>4, <1>5 DEF ProcOK, listed
<1>7. ProcOK(q, booking', lost')
  BY <1>1, <1>6
<1> QED BY <1>1, <1>7, NothingMade, OneTurn

\* The next booking is taken in hand, or is over already.
LEMMA TakeKeeps ==
    ASSUME LifecycleInv, NEW h \in Handlers, NEW b \in Bookings, TakeNext(h, b) PROVE LifecycleInv'
<1> DEFINE p == proc[h]
           q == IF booking[b] = "confirmed"
                 THEN [p EXCEPT !.pc = "crediting", !.current = b, !.todo = @ \ {b}]
                 ELSE [p EXCEPT !.failed = TRUE, !.todo = @ \ {b}]
<1>1. Become(h, q) /\ UNCHANGED <<booking, lost, now>> /\ p.pc = "refunding"
  BY DEF TakeNext, seats, At
<1>2. ProcOK(p, booking, lost)
  BY DEF LifecycleInv
<1>3. CASE booking[b] = "confirmed"
  <2>1. /\ DOMAIN q = ProcParts /\ q.pc = "crediting" /\ q.current = b /\ q.todo = p.todo \ {b}
        /\ q.op = p.op /\ q.seen = p.seen /\ q.failed = p.failed /\ q.at = p.at /\ q.body = p.body
    BY <1>2, <1>3 DEF ProcOK, ProcParts
  <2> HIDE DEF p, q
  <2>2. \A a \in Bookings : /\ InPauseScope(q, a) <=> InPauseScope(p, a)
                            /\ Coming(p, a) => Coming(q, a)
    BY <1>1, <2>1 DEF InPauseScope, Coming
  <2>3. ProcOK(q, booking, lost)
    BY <1>1, <1>2, <2>1, <2>2 DEF ProcOK
  <2> QED BY <1>1, <2>3, NothingMade, OneTurn
<1>4. CASE booking[b] # "confirmed"
  <2>1. /\ DOMAIN q = ProcParts /\ q.pc = p.pc /\ q.current = p.current /\ q.todo = p.todo \ {b}
        /\ q.op = p.op /\ q.seen = p.seen /\ q.failed = TRUE /\ q.at = p.at /\ q.body = p.body
    BY <1>2, <1>4 DEF ProcOK, ProcParts
  <2> HIDE DEF p, q
  <2>2. \A a \in Bookings : /\ InPauseScope(q, a) <=> InPauseScope(p, a)
                            /\ Coming(p, a) /\ booking[a] = "confirmed" => Coming(q, a)
    BY <1>1, <1>4, <2>1 DEF InPauseScope, Coming
  <2>3. ProcOK(q, booking, lost)
    BY <1>1, <1>2, <2>1, <2>2 DEF ProcOK
  <2> QED BY <1>1, <2>3, NothingMade, OneTurn
<1> QED BY <1>3, <1>4

\* The booking in hand is refunded, or its refund is lost.
LEMMA GivenBack ==
    ASSUME LifecycleInv, NEW b, GiveBack(b), lost' = lost
    PROVE  /\ MadeStaysMade
           /\ booking' \in [Bookings -> {"none", "confirmed", "refunded", "erased"}]
           /\ b \in Bookings => booking'[b] = "refunded"
  BY DEF LifecycleInv, GiveBack, MayRefund, MadeStaysMade

\* The booking in hand is refunded.
LEMMA RefundKeeps == ASSUME LifecycleInv, NEW h \in Handlers, Refund(h) PROVE LifecycleInv'
<1> DEFINE p == proc[h]
           q == [p EXCEPT !.pc = "refunding", !.current = None]
<1>1. Become(h, q) /\ GiveBack(p.current) /\ UNCHANGED <<lost, now>> /\ p.pc = "crediting"
  BY DEF Refund, At
<1>2. ProcOK(p, booking, lost)
  BY DEF LifecycleInv
<1>3. /\ MadeStaysMade
      /\ booking' \in [Bookings -> {"none", "confirmed", "refunded", "erased"}]
      /\ p.current \in Bookings => booking'[p.current] = "refunded"
  BY <1>1, GivenBack
<1>4. ProcOK(p, booking', lost')
  BY <1>2, <1>3, ProcKeeps
<1>5. /\ DOMAIN q = ProcParts /\ q.pc = "refunding" /\ q.todo = p.todo
      /\ q.op = p.op /\ q.seen = p.seen /\ q.failed = p.failed /\ q.at = p.at /\ q.body = p.body
  BY <1>4 DEF ProcOK, ProcParts
<1> HIDE DEF p, q
<1>6. \A a \in Bookings : /\ InPauseScope(q, a) <=> InPauseScope(p, a)
                          /\ Coming(p, a) /\ booking'[a] = "confirmed" => Coming(q, a)
  BY <1>3, <1>5 DEF InPauseScope, Coming
<1>7. ProcOK(q, booking', lost')
  BY <1>4, <1>5, <1>6 DEF ProcOK
<1> QED BY <1>1, <1>3, <1>7, OneTurn

\* A refund that fails is lost to a pause and known to a cancellation.
LEMMA RefundFailsKeeps == ASSUME LifecycleInv, NEW h \in Handlers, RefundFails(h) PROVE LifecycleInv'
<1> DEFINE p == proc[h]
           q == [p EXCEPT !.pc = "refunding", !.current = None, !.failed = TRUE]
<1>1. /\ Become(h, q) /\ UNCHANGED <<booking, now>> /\ p.pc = "crediting"
      /\ lost' = IF p.op = "pause" THEN lost \cup {p.current} ELSE lost
  BY DEF RefundFails, At, seats
<1>2. ProcOK(p, booking, lost)
  BY DEF LifecycleInv
<1>3. /\ MadeStaysMade
      /\ booking' \in [Bookings -> {"none", "confirmed", "refunded", "erased"}]
  BY <1>1 DEF MadeStaysMade, LifecycleInv
<1>5. /\ DOMAIN q = ProcParts /\ q.pc = "refunding" /\ q.todo = p.todo
      /\ q.op = p.op /\ q.seen = p.seen /\ q.failed = TRUE /\ q.at = p.at /\ q.body = p.body
  BY <1>2 DEF ProcOK, ProcParts
<1> HIDE DEF p, q
<1>6. \A a \in Bookings : /\ InPauseScope(q, a) <=> InPauseScope(p, a)
                          /\ Coming(p, a) /\ q.op = "pause" => Coming(q, a) \/ a \in lost'
  BY <1>1, <1>5 DEF InPauseScope, Coming
<1>7. ProcOK(q, booking', lost')
  BY <1>1, <1>2, <1>5, <1>6 DEF ProcOK
<1> QED BY <1>1, <1>3, <1>7, OneTurn

\* A pause that has written the row has listed nothing yet.
LEMMA PauseWrites == ASSUME LifecycleInv, NEW h \in Handlers, CommitPause(h) PROVE LifecycleInv'
<1> DEFINE q == [proc[h] EXCEPT !.pc = "listing", !.copy = NoRow]
<1>1. Become(h, q) /\ UNCHANGED <<booking, lost, now>> /\ proc[h].pc = "writing"
  BY DEF CommitPause, seats, At
<1>2. DOMAIN proc[h] = ProcParts /\ proc[h].seen = {} /\ proc[h].at \in Nat
  BY <1>1 DEF LifecycleInv, ProcOK
<1>3. DOMAIN q = ProcParts /\ q.seen = {} /\ q.at \in Nat
  BY <1>2 DEF ProcParts
<1> HIDE DEF q
<1> QED BY <1>1, <1>3, NothingMade, FreshProc, OneTurn

\* Guests make and give up bookings meanwhile.
LEMMA BookKeeps ==
    ASSUME LifecycleInv, NEW h \in Handlers,
           \/ \E b \in Bookings : BeginBook(h, b) \/ BeginGiveUp(h, b)
           \/ CommitBook(h) \/ CommitGiveUp(h)
    PROVE  LifecycleInv'
<1>1. ASSUME NEW b \in Bookings, NEW pc, Become(h, [Idle EXCEPT !.pc = pc, !.current = b]),
             UNCHANGED <<booking, lost, now>>
      PROVE  LifecycleInv'
  <2> DEFINE p == [Idle EXCEPT !.pc = pc, !.current = b]
  <2>1. DOMAIN p = ProcParts /\ p.seen = {} /\ p.at \in Nat
    BY IdleProc DEF ProcParts
  <2> HIDE DEF p
  <2>2. Become(h, p)
    BY <1>1 DEF p
  <2> QED BY <1>1, <2>1, <2>2, NothingMade, FreshProc, OneTurn
<1>2. CASE \E b \in Bookings : BeginBook(h, b) \/ BeginGiveUp(h, b)
  BY <1>1, <1>2 DEF BeginBook, BeginGiveUp, seats
<1>3. CASE CommitBook(h)
  <2> DEFINE b == proc[h].current
  <2>1. booking[b] = "none" /\ booking' = [booking EXCEPT ![b] = "confirmed"] /\ UNCHANGED <<lost, now>> /\ Become(h, Idle)
    BY <1>3 DEF CommitBook
  <2> HIDE DEF b
  <2>2. MadeStaysMade /\ booking' \in [Bookings -> {"none", "confirmed", "refunded", "erased"}]
    BY <2>1 DEF LifecycleInv, MadeStaysMade
  <2> QED BY <2>1, <2>2, Resting
<1>4. CASE CommitGiveUp(h)
  BY <1>4, GivenBack, Resting DEF CommitGiveUp
<1> QED BY <1>2, <1>3, <1>4

\* A handler that is done, or dies, has no list.
LEMMA FinishKeeps ==
    ASSUME LifecycleInv, NEW h \in Handlers,
           \/ CommitUpdate(h) \/ CommitPublish(h) \/ CommitResume(h)
           \/ FinishPause(h) \/ FinishCancel(h) \/ FinishDelete(h) \/ Abandon(h)
    PROVE  LifecycleInv'
<1>1. CASE CommitUpdate(h) \/ CommitPublish(h) \/ CommitResume(h) \/ FinishPause(h) \/ FinishCancel(h)
  <2>1. Become(h, Idle) /\ UNCHANGED <<booking, lost, now>>
    BY <1>1 DEF CommitUpdate, CommitPublish, CommitResume, FinishPause, FinishCancel, seats
  <2> QED BY <2>1, NothingMade, Resting
<1>2. CASE FinishDelete(h)
  <2>1. /\ booking' = [b \in Bookings |-> IF booking[b] = "none" THEN "none" ELSE "erased"]
        /\ UNCHANGED <<lost, now>> /\ Become(h, Idle)
    BY <1>2 DEF FinishDelete
  <2>2. MadeStaysMade /\ booking' \in [Bookings -> {"none", "confirmed", "refunded", "erased"}]
    BY <2>1 DEF LifecycleInv, MadeStaysMade
  <2> QED BY <2>1, <2>2, Resting
<1>3. CASE Abandon(h)
  <2>1. /\ lost \subseteq lost' /\ UNCHANGED <<booking, now>> /\ Become(h, Idle)
    BY <1>3 DEF Abandon, seats
  <2>2. MadeStaysMade /\ booking' \in [Bookings -> {"none", "confirmed", "refunded", "erased"}]
    BY <2>1 DEF LifecycleInv, MadeStaysMade
  <2> QED BY <2>1, <2>2, Resting
<1> QED BY <1>1, <1>2, <1>3

\* Every step keeps the invariant.
LEMMA LifecycleStep == LifecycleInv /\ [Next]_vars => LifecycleInv'
<1> SUFFICES ASSUME LifecycleInv, [Next]_vars PROVE LifecycleInv'
  OBVIOUS
<1>1. ASSUME UNCHANGED <<booking, lost, proc>>, now' \in Nat PROVE LifecycleInv'
  BY <1>1 DEF LifecycleInv
<1>2. CASE \E req \in CreateRequests : CreateEvent(req)
  BY <1>1, <1>2 DEF CreateEvent, seats, LifecycleInv
<1>3. CASE Tick
  BY <1>1, <1>3 DEF Tick, seats, LifecycleInv
<1>4. CASE UNCHANGED vars
  BY <1>1, <1>4 DEF vars, seats, LifecycleInv
<1>5. ASSUME NEW h \in Handlers, Proceed(h) PROVE LifecycleInv'
  BY <1>5, FinishKeeps, PauseWrites, ListKeeps, TakeKeeps, RefundKeeps DEF Proceed
<1> QED BY <1>2, <1>3, <1>4, <1>5, BeginKeeps, RefundFailsKeeps, FinishKeeps, BookKeeps DEF Next

\* Nothing is booked at the start.
LEMMA LifecycleInitially == Init => LifecycleInv
<1> SUFFICES ASSUME Init PROVE LifecycleInv
  OBVIOUS
<1>1. /\ booking \in [Bookings -> {"none", "confirmed", "refunded", "erased"}] /\ DOMAIN proc = Handlers
      /\ now = 0 /\ \A h \in Handlers : proc[h] = Idle
  BY DEF Init
<1>2. \A h \in Handlers : ProcOK(proc[h], booking, lost)
  BY <1>1, IdleProc, FreshProc
<1> QED BY <1>1, <1>2 DEF LifecycleInv

\* The invariant holds in every reachable state.
THEOREM LifecycleInvariant == Spec => []LifecycleInv
  BY LifecycleInitially, LifecycleStep, PTL DEF Spec

------------------------------------------------------------------------------
\* A handler that goes idle when it had something to show for it.
LEMMA WhoGoesIdle ==
    ASSUME LifecycleInv, Next, NEW h \in Handlers, proc[h].pc # "idle", proc'[h].pc = "idle",
           proc[h].seen # {}
    PROVE  FinishPause(h) \/ FinishCancel(h) \/ FinishDelete(h) \/ Abandon(h)
<1>1. /\ DOMAIN proc[h] = ProcParts /\ proc[h].pc \in {"refunding", "crediting"} /\ DOMAIN proc = Handlers
  BY DEF LifecycleInv, ProcOK
<1>2. ASSUME NEW j \in Handlers, NEW p, Become(j, p), p.pc # "idle" PROVE FALSE
  BY <1>1, <1>2 DEF Become
<1>3. ASSUME NEW j \in Handlers, NEW p, Become(j, p) PROVE j = h
  BY <1>1, <1>3 DEF Become
<1>4. ~ UNCHANGED proc
  OBVIOUS
<1>5. ASSUME NEW op PROVE Writing(op).pc = "writing" /\ Listing(op).pc = "listing"
                          /\ DOMAIN Writing(op) = ProcParts /\ DOMAIN Listing(op) = ProcParts
  BY DEF Writing, Listing, Idle, ProcParts
<1>6. ASSUME NEW j \in Handlers, Manage(j) PROVE FALSE
  <2>1. PICK p : Become(j, p) /\ p.pc # "idle"
    <3>1. CASE \E req \in Updates : BeginUpdate(j, req)
      <4>1. PICK req \in Updates : Become(j, [Writing("update") EXCEPT !.body = req])
        BY <3>1 DEF BeginUpdate, Begin
      <4>2. [Writing("update") EXCEPT !.body = req].pc = "writing"
        BY <1>5 DEF ProcParts
      <4> QED BY <4>1, <4>2
    <3>2. CASE BeginPublish(j)
      <4>1. Become(j, [Writing("publish") EXCEPT !.copy = NoRow])
        BY <3>2 DEF BeginPublish, Begin
      <4>2. [Writing("publish") EXCEPT !.copy = NoRow].pc = "writing"
        BY <1>5 DEF ProcParts
      <4> QED BY <4>1, <4>2
    <3>3. CASE \E req \in PauseRequests : BeginPause(j, req)
      <4>1. PICK req \in PauseRequests : Become(j, [Writing("pause") EXCEPT !.body = req, !.at = now])
        BY <3>3 DEF BeginPause, Begin
      <4>2. [Writing("pause") EXCEPT !.body = req, !.at = now].pc = "writing"
        BY <1>5 DEF ProcParts
      <4> QED BY <4>1, <4>2
    <3>4. CASE BeginResume(j) \/ BeginCancel(j) \/ BeginDelete(j)
      BY <1>5, <3>4 DEF BeginResume, BeginCancel, BeginDelete, Begin
    <3> QED BY <1>6, <3>1, <3>2, <3>3, <3>4 DEF Manage
  <2> QED BY <1>2, <2>1
<1>7. ASSUME NEW j \in Handlers, CommitUpdate(j) \/ CommitPublish(j) \/ CommitResume(j) PROVE FALSE
  <2>1. Become(j, Idle) /\ proc[j].pc = "writing"
    BY <1>7 DEF CommitUpdate, CommitPublish, CommitResume, At
  <2> QED BY <1>1, <1>3, <2>1
<1>8. ASSUME NEW j \in Handlers, CommitPause(j) PROVE FALSE
  <2> DEFINE q == [proc[j] EXCEPT !.pc = "listing", !.copy = NoRow]
  <2>1. Become(j, q) /\ DOMAIN proc[j] = ProcParts
    BY <1>8 DEF CommitPause, LifecycleInv, ProcOK
  <2>2. q.pc = "listing"
    BY <2>1 DEF ProcParts
  <2> HIDE DEF q
  <2> QED BY <1>2, <2>1, <2>2
<1>9. ASSUME NEW j \in Handlers, List(j) PROVE FALSE
  <2>1. j = h /\ proc[j].pc = "listing"
    BY <1>3, <1>9 DEF List, At
  <2> QED BY <1>1, <2>1
<1>10. ASSUME NEW j \in Handlers, NEW b \in Bookings, TakeNext(j, b) PROVE FALSE
  <2> DEFINE p == proc[j]
             q1 == [p EXCEPT !.pc = "crediting", !.current = b, !.todo = @ \ {b}]
             q2 == [p EXCEPT !.failed = TRUE, !.todo = @ \ {b}]
  <2>1. /\ p.pc = "refunding"
        /\ Become(j, IF booking[b] = "confirmed" THEN q1 ELSE q2)
    BY <1>10 DEF TakeNext, At
  <2>2. DOMAIN p = ProcParts
    BY DEF LifecycleInv, ProcOK
  <2>3. q1.pc = "crediting" /\ q2.pc = "refunding"
    BY <2>1, <2>2 DEF ProcParts
  <2> HIDE DEF q1, q2
  <2> QED BY <1>2, <2>1, <2>3
<1>11. ASSUME NEW j \in Handlers, Refund(j) \/ RefundFails(j) PROVE FALSE
  <2> DEFINE p == proc[j]
             q1 == [p EXCEPT !.pc = "refunding", !.current = None]
             q2 == [p EXCEPT !.pc = "refunding", !.current = None, !.failed = TRUE]
  <2>1. DOMAIN p = ProcParts /\ (Become(j, q1) \/ Become(j, q2))
    BY <1>11 DEF Refund, RefundFails, LifecycleInv, ProcOK
  <2>2. q1.pc = "refunding" /\ q2.pc = "refunding"
    BY <2>1 DEF ProcParts
  <2> HIDE DEF q1, q2
  <2> QED BY <1>2, <2>1, <2>2
<1>12. ASSUME NEW j \in Handlers, CommitBook(j) \/ CommitGiveUp(j) PROVE FALSE
  <2>1. Become(j, Idle) /\ proc[j].pc \in {"booking", "giving up"}
    BY <1>12 DEF CommitBook, CommitGiveUp, At
  <2> QED BY <1>1, <1>3, <2>1
<1>13. ASSUME NEW j \in Handlers, NEW b \in Bookings, BeginBook(j, b) \/ BeginGiveUp(j, b) PROVE FALSE
  <2>1. PICK p : Become(j, p) /\ proc[j].pc = "idle"
    BY <1>13 DEF BeginBook, BeginGiveUp, Free
  <2> QED BY <1>3, <2>1
<1>14. ASSUME NEW j \in Handlers, FinishPause(j) \/ FinishCancel(j) \/ FinishDelete(j) \/ Abandon(j)
       PROVE  j = h
  BY <1>3, <1>14 DEF FinishPause, FinishCancel, FinishDelete, Abandon
<1>15. CASE (\E req \in CreateRequests : CreateEvent(req)) \/ Tick
  BY <1>4, <1>15 DEF CreateEvent, Tick
<1> QED BY <1>6, <1>7, <1>8, <1>9, <1>10, <1>11, <1>12, <1>13, <1>14, <1>15 DEF Next, Proceed

\* A cancellation that marks its event.
LEMMA CancelOwes ==
    ASSUME LifecycleInv, Next, NEW h \in Handlers,
           proc[h].op = "cancel", proc[h].pc = "refunding", proc'[h].pc = "idle",
           row'.status = "cancelled", row.status # "cancelled",
           NEW b \in proc[h].seen, booking[b] = "confirmed"
    PROVE  SlotOf[b] < proc[h].at
<1>1. FinishCancel(h)
  <2>1. FinishPause(h) \/ FinishCancel(h) \/ FinishDelete(h) \/ Abandon(h)
    BY WhoGoesIdle
  <2>2. ~FinishPause(h) /\ ~FinishDelete(h)
    BY DEF FinishPause, FinishDelete
  <2>3. ~Abandon(h)
    BY DEF Abandon
  <2> QED BY <2>1, <2>2, <2>3
<1>2. proc[h].todo = {} /\ ~proc[h].failed
  BY <1>1 DEF FinishCancel, MayClose
<1>3. SlotOf[b] \in Nat /\ proc[h].at \in Nat /\ b \in Bookings
  BY LifecycleAssumption, CalendarAssumption
  DEF LifecycleAssumption, CalendarAssumption, LifecycleInv, ProcOK, Instants
<1>4. ~(SlotOf[b] >= proc[h].at)
  BY <1>2 DEF LifecycleInv, ProcOK, Coming
<1> QED BY <1>3, <1>4

\* A pause that is over.
LEMMA PauseOwes ==
    ASSUME LifecycleInv, Next, NEW h \in Handlers,
           proc[h].op = "pause", proc[h].pc # "idle", proc'[h].pc = "idle",
           NEW b \in proc[h].seen, InPauseScope(proc[h], b), booking[b] = "confirmed"
    PROVE  b \in lost'
<1>1. FinishPause(h) \/ Abandon(h)
  <2>1. FinishPause(h) \/ FinishCancel(h) \/ FinishDelete(h) \/ Abandon(h)
    BY WhoGoesIdle
  <2> QED BY <2>1 DEF FinishCancel, FinishDelete
<1>2. /\ proc[h].pc \in {"refunding", "crediting"} /\ b \in Bookings
      /\ Coming(proc[h], b) \/ b \in lost
  BY DEF LifecycleInv, ProcOK
<1>3. CASE FinishPause(h)
  BY <1>2, <1>3 DEF FinishPause, At, Coming
<1>4. CASE Abandon(h)
  <2>1. lost' = lost \cup Owed(h)
    BY <1>4 DEF Abandon
  <2>2. Coming(proc[h], b) => b \in Owed(h)
    BY <1>2 DEF Coming, Owed, Confirmed
  <2> QED BY <1>2, <2>1, <2>2
<1> QED BY <1>1, <1>3, <1>4

\* RefundsForgetNobody for every number of bookings, handlers and operations:
\* a cancellation that marks its event, and a pause that is over, have refunded
\* every booking they listed and had to refund, but for the pause's refunds that
\* failed or died with their process (CancelEvent, and the goroutine of PauseEvent).
THEOREM RefundsNeverForget == Spec => RefundsForgetNobody
<1> DEFINE CancelStep ==
             \A h \in Handlers :
                proc[h].op = "cancel" /\ proc[h].pc = "refunding" /\ proc'[h].pc = "idle"
                   /\ row'.status = "cancelled" /\ row.status # "cancelled"
                 => \A b \in proc[h].seen : booking[b] = "confirmed" => SlotOf[b] < proc[h].at
           PauseStep ==
             \A h \in Handlers :
                proc[h].op = "pause" /\ proc[h].pc # "idle" /\ proc'[h].pc = "idle"
                 => \A b \in proc[h].seen :
                      InPauseScope(proc[h], b) /\ booking[b] = "confirmed" => b \in lost'
<1>1. LifecycleInv /\ [Next]_vars => [CancelStep]_vars
  BY CancelOwes
<1>2. LifecycleInv /\ [Next]_vars => [PauseStep]_vars
  BY PauseOwes
<1>3. Spec => [][CancelStep]_vars
  BY <1>1, LifecycleInvariant, PTL DEF Spec
<1>4. Spec => [][PauseStep]_vars
  BY <1>2, LifecycleInvariant, PTL DEF Spec
<1> QED BY <1>3, <1>4, PTL DEF RefundsForgetNobody, CancelledOwesNothing, PauseForgetsNobody

\* Who erases a booking had not seen it.
LEMMA DeleteErases ==
    ASSUME LifecycleInv, Next, NEW b \in Bookings, booking[b] = "confirmed", booking'[b] = "erased"
    PROVE  \E h \in Handlers : proc[h].op = "delete" /\ b \notin proc[h].seen
<1>1. ASSUME NEW h \in Handlers, FinishDelete(h) PROVE proc[h].op = "delete" /\ b \notin proc[h].seen
  BY <1>1 DEF FinishDelete, LifecycleInv, ProcOK
<1>2. booking' # booking
  OBVIOUS
<1>3. ASSUME NEW a, GiveBack(a) PROVE FALSE
  BY <1>3 DEF GiveBack, LifecycleInv
<1>4. ASSUME NEW h \in Handlers, CommitBook(h) PROVE FALSE
  <2> DEFINE a == proc[h].current
  <2>1. booking' = [booking EXCEPT ![a] = "confirmed"]
    BY <1>4 DEF CommitBook
  <2> HIDE DEF a
  <2> QED BY <2>1 DEF LifecycleInv
<1>5. ASSUME NEW h \in Handlers, Manage(h) PROVE FALSE
  BY <1>2, <1>5 DEF Manage, BeginUpdate, BeginPublish, BeginPause, BeginResume, BeginCancel,
                    BeginDelete, Begin, seats
<1>6. ASSUME NEW h \in Handlers,
             \/ CommitUpdate(h) \/ CommitPublish(h) \/ CommitPause(h) \/ CommitResume(h)
             \/ List(h) \/ (\E a \in Bookings : TakeNext(h, a) \/ BeginBook(h, a) \/ BeginGiveUp(h, a))
             \/ FinishPause(h) \/ FinishCancel(h) \/ RefundFails(h) \/ Abandon(h)
      PROVE  FALSE
  <2>1. UNCHANGED booking
    BY <1>6 DEF CommitUpdate, CommitPublish, CommitPause, CommitResume, List, TakeNext, BeginBook,
                BeginGiveUp, FinishPause, FinishCancel, RefundFails, Abandon, seats
  <2> QED BY <1>2, <2>1
<1>7. ASSUME NEW h \in Handlers, Refund(h) \/ CommitGiveUp(h) PROVE FALSE
  BY <1>3, <1>7 DEF Refund, CommitGiveUp
<1>8. CASE (\E req \in CreateRequests : CreateEvent(req)) \/ Tick
  BY <1>2, <1>8 DEF CreateEvent, Tick, seats
<1> QED BY <1>1, <1>4, <1>5, <1>6, <1>7, <1>8 DEF Next, Proceed

\* DeleteErasesOnlyUnseen for every number of bookings, handlers and
\* operations: DeleteEvent looks for active bookings and then deletes, and only a
\* booking made in between goes with the event.
THEOREM DeletionErasesOnlyUnseen == Spec => DeleteErasesOnlyUnseen
<1> DEFINE Step == \A b \in Bookings :
                     booking[b] = "confirmed" /\ booking'[b] = "erased"
                       => \E h \in Handlers : proc[h].op = "delete" /\ b \notin proc[h].seen
<1>1. LifecycleInv /\ [Next]_vars => [Step]_vars
  BY DeleteErases
<1> QED BY <1>1, LifecycleInvariant, PTL DEF Spec, DeleteErasesOnlyUnseen


------------------------------------------------------------------------------
(* EventLifecycle: the event's row, and what is shown of it.               *)

\* A one-on-one event repeats with its windows or has dates, never both.
SessionsOK(r) ==
    r.session = "one_on_one" =>
        IF HasWeeklyWindows(r.windows)
        THEN r.recurring /\ r.rule # "none"
        ELSE r.schedule = "custom_dates" /\ ~r.recurring

\* What every row is, before and after its sessions decide its schedule.
FormOK(r) ==
    /\ CalendarFields \subseteq DOMAIN r
    /\ r.status \in {"draft", "live", "paused", "cancelled"}
    /\ r.time \in Instants
    /\ r.dates \subseteq Instants
RowOK(r) == FormOK(r) /\ SessionsOK(r)

\* The event's row is one, and so is the copy of a handler that will write it.
RowsInv ==
    /\ now \in Nat
    /\ DOMAIN proc = Handlers
    /\ "status" \in DOMAIN row
    /\ Exists => RowOK(row)
    /\ \A h \in Handlers : proc[h].pc = "writing" =>
         /\ proc[h].op \in {"update", "pause", "resume"} => RowOK(proc[h].copy)
         /\ proc[h].op = "update" => proc[h].body \in Updates

\* A set of instants has a first one.
LEMMA FirstInstant == ASSUME NEW S, S \subseteq Nat, S # {}
                      PROVE  Min(S) \in S /\ \A t \in S : Min(S) <= t
<1>1. \E x \in S : \A y \in S : x <= y
  <2>1. SUFFICES ASSUME \A x \in S : \E y \in S : y < x PROVE FALSE
    OBVIOUS
  <2> DEFINE Good == {n \in Nat : \A t \in S : t >= n}
  <2>2. 0 \in Good
    OBVIOUS
  <2>3. ASSUME NEW n \in Good PROVE n + 1 \in Good
    <3>1. n \in Nat /\ \A t \in S : t >= n
      OBVIOUS
    <3>2. n \notin S
      BY <2>1, <3>1
    <3> QED BY <3>1, <3>2
  <2> HIDE DEF Good
  <2>4. Nat \subseteq Good
    BY <2>2, <2>3, NatSetInduction
  <2>5. PICK x \in S : TRUE
    OBVIOUS
  <2>6. x + 1 \in Good
    BY <2>4, <2>5
  <2> QED BY <2>5, <2>6 DEF Good
<1> QED BY <1>1 DEF Min

\* A calendar's sessions are instants.
LEMMA SessionsAreInstants ==
    ASSUME NEW w, NEW d, NEW p, NEW f, NEW m PROVE Generate(w, d, p, f, m) \subseteq Instants
  BY DEF Generate, SessionsOn

\* An instant is a natural number before Never.
LEMMA InstantsAreNat == Instants \subseteq Nat /\ Never \in Nat /\ \A t \in Instants : t < Never
  BY CalendarAssumption DEF Instants, Never

\* Rolling a row forward moves its time only, to an instant.
LEMMA RollsTime ==
    ASSUME NEW r, RowOK(r), NEW t \in Nat
    PROVE  /\ RowOK(Rolled(r, t))
           /\ \A f \in DOMAIN r \ {"time"} : Rolled(r, t)[f] = r[f]
           /\ DOMAIN Rolled(r, t) = DOMAIN r
           /\ ~r.recurring => Rolled(r, t) = r
<1>1. ASSUME NEW u \in Instants
      PROVE  LET q == [r EXCEPT !.time = u] IN
             /\ RowOK(q) /\ DOMAIN q = DOMAIN r
             /\ \A f \in DOMAIN r \ {"time"} : q[f] = r[f]
  BY DEF RowOK, FormOK, SessionsOK, CalendarFields
<1>2. CASE IsRecurringOneOnOne(r)
  <2> DEFINE next == NextWeeklySession(r, t)
  <2>1. next # Never => next \in Instants
    <3> DEFINE S == {Never} \cup Generate(r.windows, r.duration, r.break, t, 1)
    <3>1. S \subseteq Nat /\ S # {}
      BY SessionsAreInstants, InstantsAreNat
    <3>2. Min(S) \in S
      BY <3>1, FirstInstant
    <3>3. next = Min(S)
      BY DEF NextWeeklySession
    <3> QED BY <3>2, <3>3, SessionsAreInstants
  <2>2. Rolled(r, t) = IF next = Never THEN r ELSE [r EXCEPT !.time = next]
    BY <1>2 DEF Rolled
  <2>3. r.recurring
    BY <1>2 DEF RowOK, SessionsOK, IsRecurringOneOnOne
  <2> HIDE DEF next
  <2> QED BY <1>1, <2>1, <2>2, <2>3
<1>3. CASE ~IsRecurringOneOnOne(r) /\ Repeats(r) /\ r.time < t
  <2> DEFINE next == NextOccurrence(r.rule, r.time, t)
  <2>1. next \in Instants
    <3> DEFINE A == {u \in Hits(r.time, RolledPeriod(r.rule)) : u >= t}
    <3>1. A \subseteq Instants
      BY DEF Hits
    <3>2. A # {} => Min(A) \in Instants
      BY <3>1, FirstInstant, InstantsAreNat
    <3>3. r.time \in Instants
      BY DEF RowOK, FormOK
    <3>4. next = IF RolledPeriod(r.rule) = 0 \/ A = {} THEN r.time ELSE Min(A)
      BY DEF NextOccurrence
    <3> QED BY <3>2, <3>3, <3>4
  <2>2. Rolled(r, t) = [r EXCEPT !.time = next]
    BY <1>3 DEF Rolled
  <2>3. r.recurring
    BY <1>3 DEF Repeats
  <2> HIDE DEF next
  <2> QED BY <1>1, <2>1, <2>2, <2>3
<1>4. CASE ~IsRecurringOneOnOne(r) /\ ~(Repeats(r) /\ r.time < t)
  BY <1>4 DEF Rolled
<1> QED BY <1>2, <1>3, <1>4

\* Sessions make a form a row, and the privacy of an event changes none of this.
LEMMA FormBecomesRow == ASSUME NEW r, FormOK(r) PROVE RowOK(WithPrivacy(WithSessions(r)))
<1> DEFINE q == WithSessions(r)
<1>1. RowOK(q)
  <2>1. CASE r.session # "one_on_one"
    BY <2>1 DEF WithSessions, RowOK, SessionsOK
  <2>2. CASE r.session = "one_on_one" /\ HasWeeklyWindows(r.windows)
    <3>1. q = [r EXCEPT !.cap = 1, !.schedule = "recurring", !.recurring = TRUE,
                        !.dates = {}, !.rule = IF @ = "none" THEN "weekly" ELSE @]
      BY <2>2 DEF WithSessions
    <3> HIDE DEF q
    <3>2. /\ DOMAIN q = DOMAIN r /\ q.status = r.status /\ q.time = r.time /\ q.dates = {}
          /\ q.recurring /\ q.rule # "none" /\ q.windows = r.windows
      BY <3>1 DEF FormOK, CalendarFields
    <3> QED BY <2>2, <3>2 DEF RowOK, FormOK, SessionsOK
  <2>3. CASE r.session = "one_on_one" /\ ~HasWeeklyWindows(r.windows)
    <3>1. q = [r EXCEPT !.cap = 1, !.schedule = "custom_dates", !.recurring = FALSE]
      BY <2>3 DEF WithSessions
    <3> HIDE DEF q
    <3>2. /\ DOMAIN q = DOMAIN r /\ q.status = r.status /\ q.time = r.time /\ q.dates = r.dates
          /\ ~q.recurring /\ q.schedule = "custom_dates" /\ q.windows = r.windows
      BY <3>1 DEF FormOK, CalendarFields
    <3> QED BY <2>3, <3>2 DEF RowOK, FormOK, SessionsOK
  <2> QED BY <2>1, <2>2, <2>3
<1> HIDE DEF q
<1>2. /\ DOMAIN WithPrivacy(q) = DOMAIN q
      /\ \A f \in CalendarFields : WithPrivacy(q)[f] = q[f]
  BY <1>1 DEF RowOK, FormOK, CalendarFields, WithPrivacy
<1> HIDE DEF WithPrivacy
<1>3. LET p == WithPrivacy(q) IN
      /\ p.status = q.status /\ p.time = q.time /\ p.dates = q.dates /\ p.session = q.session
      /\ p.windows = q.windows /\ p.recurring = q.recurring /\ p.rule = q.rule
      /\ p.schedule = q.schedule
  BY <1>2 DEF CalendarFields
<1>4. RowOK(WithPrivacy(q))
  BY <1>1, <1>2, <1>3 DEF RowOK, FormOK, SessionsOK
<1> QED BY <1>4 DEF q

\* A valid body makes a row.
LEMMA CreatesRow ==
    ASSUME NEW req \in CreateRequests, req.status \in {"", "draft", "live"} PROVE RowOK(Created(req))
<1>1. CalendarFields \subseteq DOMAIN req /\ req.time \in Instants /\ req.dates \subseteq Instants
  BY LifecycleAssumption DEF WithinTime, CalendarFields
<1> DEFINE p == WithDefaults(req)  q == Over(Unpaused, p)
<1>2. /\ DOMAIN p = DOMAIN req /\ p.time = req.time /\ p.dates = req.dates
      /\ p.status \in {"draft", "live"}
  BY <1>1 DEF WithDefaults, CalendarFields
<1> HIDE DEF p
<1>3. /\ DOMAIN p \subseteq DOMAIN q
      /\ q.time = p.time /\ q.dates = p.dates /\ q.status = p.status
  BY <1>1, <1>2 DEF Over, CalendarFields
<1> HIDE DEF q
<1>4. FormOK(q)
  BY <1>1, <1>2, <1>3 DEF FormOK
<1>5. Created(req) = WithPrivacy(WithSessions(q))
  BY DEF Created, q, p
<1> QED BY <1>4, <1>5, FormBecomesRow

\* So does an edited copy of one.
LEMMA EditsRow == ASSUME NEW copy, RowOK(copy), NEW req \in Updates PROVE RowOK(Edited(copy, req))
<1> DEFINE q == Over(copy, req)
<1>1. /\ WithinTime(req)
      /\ "status" \notin DOMAIN req
  BY LifecycleAssumption
<1>2. FormOK(q)
  <2>1. /\ DOMAIN q = DOMAIN req \cup DOMAIN copy
        /\ \A f \in DOMAIN q : q[f] = IF f \in DOMAIN req THEN req[f] ELSE copy[f]
    BY DEF Over
  <2> HIDE DEF q
  <2>2. {"time", "dates", "status"} \subseteq DOMAIN copy
    BY DEF RowOK, FormOK, CalendarFields
  <2>3. q.status = copy.status
    BY <1>1, <2>1, <2>2
  <2>4. q.time \in Instants
    BY <1>1, <2>1, <2>2 DEF WithinTime, RowOK, FormOK
  <2>5. q.dates \subseteq Instants
    BY <1>1, <2>1, <2>2 DEF WithinTime, RowOK, FormOK
  <2> QED BY <2>1, <2>3, <2>4, <2>5 DEF RowOK, FormOK
<1> HIDE DEF q
<1>3. Edited(copy, req) = WithPrivacy(WithSessions(q))
  BY DEF Edited, q
<1> QED BY <1>2, <1>3, FormBecomesRow

\* Neither the status nor what is paused bears on the form.
LEMMA StatusKeepsRow ==
    ASSUME NEW r, RowOK(r), NEW s \in {"draft", "live", "paused", "cancelled"}, NEW f, NEW d
    PROVE  /\ RowOK([r EXCEPT !.status = s])
           /\ RowOK([r EXCEPT !.status = s, !.pausedFrom = f, !.pausedDates = d])
           /\ RowOK([r EXCEPT !.pausedFrom = f, !.pausedDates = d, !.status = s])
<1>1. ASSUME NEW q, DOMAIN q = DOMAIN r, q.status = s, q.time = r.time, q.dates = r.dates,
             q.session = r.session, q.windows = r.windows, q.recurring = r.recurring,
             q.rule = r.rule, q.schedule = r.schedule
      PROVE  RowOK(q)
  BY <1>1 DEF RowOK, FormOK, SessionsOK
<1>2. CalendarFields \subseteq DOMAIN r
  BY DEF RowOK, FormOK
<1>3. RowOK([r EXCEPT !.status = s])
  BY <1>1, <1>2 DEF CalendarFields
<1>4. RowOK([r EXCEPT !.status = s, !.pausedFrom = f, !.pausedDates = d])
  BY <1>1, <1>2 DEF CalendarFields
<1>5. RowOK([r EXCEPT !.pausedFrom = f, !.pausedDates = d, !.status = s])
  BY <1>1, <1>2 DEF CalendarFields
<1> QED BY <1>3, <1>4, <1>5

\* One handler's turn, and what it may leave for its next.
LEMMA TurnKeepsRows ==
    ASSUME RowsInv, NEW h \in Handlers, NEW p, Become(h, p), now' = now,
           \/ row' = row
           \/ ("status" \in DOMAIN row' /\ (row'.status # "deleted" => RowOK(row'))),
           p.pc = "writing" => /\ p.op \in {"update", "pause", "resume"} => RowOK(p.copy)
                               /\ p.op = "update" => p.body \in Updates
    PROVE  RowsInv'
<1>1. /\ DOMAIN proc' = Handlers /\ proc'[h] = p
      /\ \A j \in Handlers \ {h} : proc'[j] = proc[j]
  BY DEF Become, RowsInv
<1>2. (Exists' => RowOK(row')) /\ "status" \in DOMAIN row'
  BY DEF RowsInv, Exists
<1>3. ASSUME NEW j \in Handlers, proc'[j].pc = "writing"
      PROVE  /\ proc'[j].op \in {"update", "pause", "resume"} => RowOK(proc'[j].copy)
             /\ proc'[j].op = "update" => proc'[j].body \in Updates
  BY <1>1, <1>3 DEF RowsInv
<1> QED BY <1>1, <1>2, <1>3 DEF RowsInv

\* An operation copies the row it read, rolled forward.
LEMMA BeginKeepsRows == ASSUME RowsInv, NEW h \in Handlers, Manage(h) PROVE RowsInv'
<1>1. ASSUME NEW p, Begin(h, p),
             p.pc = "writing" => /\ p.op \in {"update", "pause", "resume"} => RowOK(p.copy)
                                 /\ p.op = "update" => p.body \in Updates
      PROVE  RowsInv'
  BY <1>1, TurnKeepsRows DEF Begin
<1>2. ASSUME NEW p, Begin(h, p) PROVE RowOK(Rolled(row, now))
  BY <1>2, RollsTime DEF Begin, RowsInv
<1>3. ASSUME NEW op PROVE /\ Writing(op).pc = "writing" /\ Writing(op).op = op
                          /\ Writing(op).copy = Rolled(row, now)
                          /\ Listing(op).pc = "listing"
                          /\ DOMAIN Writing(op) = {"pc", "op", "copy", "body", "at", "seen",
                                                   "todo", "current", "failed"}
  BY DEF Writing, Listing, Idle
<1>4. CASE \E req \in Updates : BeginUpdate(h, req)
  <2>1. PICK req \in Updates : BeginUpdate(h, req)
    BY <1>4
  <2> DEFINE p == [Writing("update") EXCEPT !.body = req]
  <2>2. Begin(h, p)
    BY <2>1 DEF BeginUpdate
  <2>3. p.pc = "writing" /\ p.op = "update" /\ p.copy = Rolled(row, now) /\ p.body = req
    BY <1>3
  <2> HIDE DEF p
  <2> QED BY <1>1, <1>2, <2>2, <2>3
<1>5. CASE BeginPublish(h)
  <2> DEFINE p == [Writing("publish") EXCEPT !.copy = NoRow]
  <2>1. Begin(h, p)
    BY <1>5 DEF BeginPublish
  <2>2. p.op = "publish"
    BY <1>3
  <2> HIDE DEF p
  <2> QED BY <1>1, <2>1, <2>2
<1>6. CASE \E req \in PauseRequests : BeginPause(h, req)
  <2>1. PICK req \in PauseRequests : BeginPause(h, req)
    BY <1>6
  <2> DEFINE p == [Writing("pause") EXCEPT !.body = req, !.at = now]
  <2>2. Begin(h, p)
    BY <2>1 DEF BeginPause
  <2>3. p.op = "pause" /\ p.copy = Rolled(row, now)
    BY <1>3
  <2> HIDE DEF p
  <2> QED BY <1>1, <1>2, <2>2, <2>3
<1>7. CASE BeginResume(h)
  BY <1>1, <1>2, <1>3, <1>7 DEF BeginResume
<1>8. CASE BeginCancel(h) \/ BeginDelete(h)
  BY <1>1, <1>3, <1>8 DEF BeginCancel, BeginDelete
<1> QED BY <1>4, <1>5, <1>6, <1>7, <1>8 DEF Manage

\* A row that is written over is one again.
LEMMA OverwriteKeepsRows ==
    ASSUME RowsInv, NEW h \in Handlers, NEW p, Become(h, p), now' = now,
           NEW r, Exists => RowOK(r), Overwrite(r), p.pc # "writing"
    PROVE  RowsInv'
<1>1. (Exists /\ RowOK(row') /\ "status" \in DOMAIN row') \/ row' = row
  BY DEF Overwrite, RowOK, FormOK, CalendarFields
<1> QED BY <1>1, TurnKeepsRows

\* The steps that write the row.
LEMMA WritesKeepRows ==
    ASSUME RowsInv, LifecycleInv, NEW h \in Handlers,
           \/ CommitUpdate(h) \/ CommitPublish(h) \/ CommitPause(h) \/ CommitResume(h)
           \/ FinishCancel(h)
    PROVE  RowsInv'
<1> DEFINE copy == proc[h].copy
<1>1. Idle.pc = "idle" /\ {"pc", "copy"} \subseteq DOMAIN proc[h]
  BY DEF Idle, LifecycleInv, ProcOK, ProcParts
<1>2. CASE CommitUpdate(h)
  <2>1. /\ proc[h].pc = "writing" /\ proc[h].op = "update"
        /\ Overwrite(Edited(copy, proc[h].body)) /\ Become(h, Idle) /\ now' = now
    BY <1>2 DEF CommitUpdate, At
  <2>2. RowOK(copy) /\ proc[h].body \in Updates
    BY <2>1 DEF RowsInv
  <2>3. RowOK(Edited(copy, proc[h].body))
    BY <2>2, EditsRow
  <2> QED BY <1>1, <2>1, <2>3, OverwriteKeepsRows
<1>3. CASE CommitPublish(h)
  <2>1. /\ Overwrite([row EXCEPT !.status = "live"]) /\ Become(h, Idle) /\ now' = now
    BY <1>3 DEF CommitPublish
  <2>2. Exists => RowOK([row EXCEPT !.status = "live"])
    BY StatusKeepsRow DEF RowsInv
  <2> QED BY <1>1, <2>1, <2>2, OverwriteKeepsRows
<1>4. CASE CommitPause(h)
  <2> DEFINE f == proc[h].body.from
             d == IF proc[h].body.date = Never THEN copy.pausedDates
                  ELSE copy.pausedDates \cup {proc[h].body.date}
             r == [copy EXCEPT !.status = "paused", !.pausedFrom = f,
                               !.pausedDates = IF proc[h].body.date = Never THEN @
                                               ELSE @ \cup {proc[h].body.date}]
             p == [proc[h] EXCEPT !.pc = "listing", !.copy = NoRow]
  <2>1. /\ proc[h].pc = "writing" /\ proc[h].op = "pause"
        /\ Overwrite(r) /\ Become(h, p) /\ now' = now
    BY <1>4 DEF CommitPause, At
  <2>2. RowOK(copy)
    BY <2>1 DEF RowsInv
  <2>3. r = [copy EXCEPT !.status = "paused", !.pausedFrom = f, !.pausedDates = d]
    OBVIOUS
  <2>4. RowOK(r)
    BY <2>2, <2>3, StatusKeepsRow
  <2>5. p.pc # "writing"
    BY <1>1
  <2> HIDE DEF p, r
  <2> QED BY <2>1, <2>4, <2>5, OverwriteKeepsRows
<1>5. CASE CommitResume(h)
  <2>1. /\ proc[h].pc = "writing" /\ proc[h].op = "resume"
        /\ Overwrite(Resumed(copy)) /\ Become(h, Idle) /\ now' = now
    BY <1>5 DEF CommitResume, At
  <2>2. RowOK(copy)
    BY <2>1 DEF RowsInv
  <2>3. RowOK(Resumed(copy))
    BY <2>2, StatusKeepsRow DEF Resumed
  <2> QED BY <1>1, <2>1, <2>3, OverwriteKeepsRows
<1>6. CASE FinishCancel(h)
  <2>1. /\ Overwrite([row EXCEPT !.status = "cancelled"]) /\ Become(h, Idle) /\ now' = now
    BY <1>6 DEF FinishCancel
  <2>2. Exists => RowOK([row EXCEPT !.status = "cancelled"])
    BY StatusKeepsRow DEF RowsInv
  <2> QED BY <1>1, <2>1, <2>2, OverwriteKeepsRows
<1> QED BY <1>2, <1>3, <1>4, <1>5, <1>6

\* The other steps of handlers leave the row alone, or delete it.
LEMMA OthersKeepRows ==
    ASSUME RowsInv, LifecycleInv, NEW h \in Handlers,
           \/ List(h) \/ (\E b \in Bookings : TakeNext(h, b)) \/ Refund(h) \/ FinishPause(h)
           \/ FinishDelete(h) \/ RefundFails(h) \/ Abandon(h)
           \/ (\E b \in Bookings : BeginBook(h, b) \/ BeginGiveUp(h, b))
           \/ CommitBook(h) \/ CommitGiveUp(h)
    PROVE  RowsInv'
<1>1. Idle.pc = "idle" /\ {"pc", "failed"} \subseteq DOMAIN proc[h]
  BY DEF Idle, LifecycleInv, ProcOK, ProcParts
<1>2. ASSUME NEW p, Become(h, p), p.pc # "writing", UNCHANGED <<row, now>> PROVE RowsInv'
  BY <1>2, TurnKeepsRows
<1>3. CASE List(h)
  <2>1. PICK p : Become(h, p) /\ p = [proc[h] EXCEPT !.pc = "refunding", !.seen = p.seen,
                                                     !.todo = p.todo, !.at = p.at]
                 /\ UNCHANGED <<row, now>> /\ proc[h].pc = "listing"
    BY <1>3 DEF List, At
  <2>2. p.pc # "writing"
    BY <1>1, <2>1
  <2> QED BY <1>2, <2>1, <2>2
<1>4. CASE \E b \in Bookings : TakeNext(h, b)
  <2>1. PICK b \in Bookings : TakeNext(h, b)
    BY <1>4
  <2> DEFINE q == [proc[h] EXCEPT !.pc = "crediting", !.current = b, !.todo = @ \ {b}]
             s == [proc[h] EXCEPT !.failed = TRUE, !.todo = @ \ {b}]
  <2>2. /\ proc[h].pc = "refunding" /\ UNCHANGED <<row, now>>
        /\ Become(h, q) \/ Become(h, s)
    BY <2>1 DEF TakeNext, At
  <2>3. q.pc # "writing" /\ s.pc # "writing"
    BY <1>1, <2>2
  <2> HIDE DEF q, s
  <2> QED BY <1>2, <2>2, <2>3
<1>5. CASE Refund(h)
  <2> DEFINE q == [proc[h] EXCEPT !.pc = "refunding", !.current = None]
  <2>1. Become(h, q) /\ UNCHANGED <<row, now>> /\ q.pc # "writing"
    BY <1>1, <1>5 DEF Refund, At
  <2> HIDE DEF q
  <2> QED BY <1>2, <2>1
<1>6. CASE RefundFails(h)
  <2> DEFINE q == [proc[h] EXCEPT !.pc = "refunding", !.current = None, !.failed = TRUE]
  <2>1. Become(h, q) /\ UNCHANGED <<row, now>> /\ q.pc # "writing"
    BY <1>1, <1>6 DEF RefundFails, At
  <2> HIDE DEF q
  <2> QED BY <1>2, <2>1
<1>7. CASE FinishPause(h) \/ Abandon(h) \/ CommitBook(h) \/ CommitGiveUp(h)
  BY <1>1, <1>2, <1>7 DEF FinishPause, Abandon, CommitBook, CommitGiveUp, seats
<1>8. CASE \E b \in Bookings : BeginBook(h, b) \/ BeginGiveUp(h, b)
  <2>1. PICK b \in Bookings : BeginBook(h, b) \/ BeginGiveUp(h, b)
    BY <1>8
  <2> DEFINE q == [Idle EXCEPT !.pc = "booking", !.current = b]
             s == [Idle EXCEPT !.pc = "giving up", !.current = b]
  <2>2. /\ UNCHANGED <<row, now>>
        /\ Become(h, q) \/ Become(h, s)
    BY <2>1 DEF BeginBook, BeginGiveUp
  <2>3. q.pc # "writing" /\ s.pc # "writing"
    BY DEF Idle
  <2> HIDE DEF q, s
  <2> QED BY <1>2, <2>2, <2>3
<1>9. CASE FinishDelete(h)
  <2>1. row' = [row EXCEPT !.status = "deleted"] /\ Become(h, Idle) /\ now' = now
    BY <1>9 DEF FinishDelete
  <2>2. row'.status = "deleted" /\ "status" \in DOMAIN row'
    BY <2>1 DEF RowsInv
  <2> QED BY <1>1, <2>1, <2>2, TurnKeepsRows
<1> QED BY <1>3, <1>4, <1>5, <1>6, <1>7, <1>8, <1>9

\* Whatever is created, edited, paused, resumed and published, the row is one.
LEMMA RowsInvariant == Spec => []RowsInv
<1>1. Init => RowsInv
  BY DEF Init, RowsInv, Exists, NoRow, Idle
<1>2. RowsInv /\ LifecycleInv /\ [Next]_vars => RowsInv'
  <2> SUFFICES ASSUME RowsInv, LifecycleInv, [Next]_vars PROVE RowsInv'
    OBVIOUS
  <2>1. CASE \E req \in CreateRequests : CreateEvent(req)
    <3>1. PICK req \in CreateRequests : CreateEvent(req)
      BY <2>1
    <3>2. RowOK(row') /\ UNCHANGED <<now, proc>>
      BY <3>1, CreatesRow DEF CreateEvent
    <3> QED BY <3>2 DEF RowsInv, RowOK, FormOK, CalendarFields
  <2>2. CASE Tick
    BY <2>2 DEF Tick, RowsInv, Exists
  <2>3. CASE UNCHANGED vars
    BY <2>3 DEF vars, RowsInv, Exists
  <2> QED BY <2>1, <2>2, <2>3, BeginKeepsRows, WritesKeepRows, OthersKeepRows DEF Next, Proceed
<1> QED BY <1>1, <1>2, LifecycleInvariant, PTL DEF Spec

\* The recurrence loop, which takes the whole day of a paused date, is only
\* reached by events of which the feed's rule does so too.
LEMMA LoopPauses ==
    ASSUME NEW r, RowOK(r), ~IsRecurringOneOnOne(r), ~HasDates(r), NEW t
    PROVE  PausedInLoop(r, t) <=> IsOccurrencePaused(r, t)
<1>1. r.session # "one_on_one"
  BY DEF RowOK, SessionsOK, IsRecurringOneOnOne, HasDates
<1> QED BY <1>1 DEF PausedInLoop, IsOccurrencePaused, PausedDateMatchesWholeDay

\* What a generated occurrence is: marked by the feed's rule, for guests not
\* paused, and on the host's calendar.
LEMMA OccurrenceIs ==
    ASSUME NEW r, RowOK(r), NEW n \in Nat, NEW all \in BOOLEAN, NEW o \in Generated(r, n, all)
    PROVE  /\ o.paused <=> IsOccurrencePaused(r, o.date)
           /\ all \/ ~IsOccurrencePaused(r, o.date)
           /\ o.date \in Instants
           /\ (r.rule # "none" => r.recurring) => o.date \in CalendarOf(r, n, Never) \cup {r.time}
<1>1. r.time \in Instants /\ r.dates \subseteq Instants
  BY DEF RowOK, FormOK
<1> DEFINE period == OfferedPeriod(r.rule)
           tried  == Earliest({t \in Hits(r.time, period) : t >= n}, MaxTries)
           loop   == Earliest({t \in tried : all \/ ~PausedInLoop(r, t)}, MaxOffered)
<1>2. CASE IsRecurringOneOnOne(r)
  <2>1. PICK t \in GenerateWeeklySessions(r, n) :
          /\ o = [date |-> t, paused |-> IsOccurrencePaused(r, t)]
          /\ all \/ ~IsOccurrencePaused(r, t)
    BY <1>2 DEF Generated, Marked
  <2>2. t \in Instants
    BY SessionsAreInstants DEF GenerateWeeklySessions
  <2>3. t \in SessionsOn(Day(t), r.windows, r.duration, r.break, n)
    BY DEF GenerateWeeklySessions, Generate, SessionsOn
  <2>4. n <= t /\ t < Never
    BY <2>2, <2>3, InstantsAreNat DEF SessionsOn
  <2>5. t \in CalendarOf(r, n, Never)
    BY <1>2, <2>2, <2>4 DEF CalendarOf
  <2> QED BY <2>1, <2>2, <2>5
<1>3. CASE ~IsRecurringOneOnOne(r) /\ HasDates(r)
  <2>1. PICK t \in r.dates :
          /\ o = [date |-> t, paused |-> IsOccurrencePaused(r, t)]
          /\ all \/ ~IsOccurrencePaused(r, t)
          /\ t >= n
    BY <1>3 DEF Generated, Marked
  <2>2. t \in Instants /\ n <= t /\ t < Never
    BY <1>1, <2>1, InstantsAreNat
  <2>3. t \in CalendarOf(r, n, Never)
    BY <1>3, <2>1, <2>2 DEF CalendarOf
  <2> QED BY <2>1, <2>2, <2>3
<1>4. CASE /\ ~IsRecurringOneOnOne(r) /\ ~HasDates(r) /\ r.rule # "none"
           /\ period = 0
  <2>1. /\ o = [date |-> r.time, paused |-> IsOccurrencePaused(r, r.time)]
        /\ all \/ ~IsOccurrencePaused(r, r.time)
    BY <1>4 DEF Generated, Marked
  <2> QED BY <1>1, <2>1
<1>5. CASE /\ ~IsRecurringOneOnOne(r) /\ ~HasDates(r) /\ r.rule # "none"
           /\ period # 0
  <2>1. PICK t \in loop : o = [date |-> t, paused |-> PausedInLoop(r, t)]
    BY <1>5 DEF Generated, Marked
  <2>2. t \in {u \in tried : all \/ ~PausedInLoop(r, u)}
    BY DEF Earliest
  <2>3. t \in Hits(r.time, period) /\ t >= n /\ (all \/ ~PausedInLoop(r, t))
    BY <2>2 DEF Earliest
  <2>4. t \in Instants /\ n <= t /\ t < Never
    BY <2>3, InstantsAreNat DEF Hits
  <2>5. PausedInLoop(r, t) <=> IsOccurrencePaused(r, t)
    BY <1>5, LoopPauses
  <2>6. r.recurring => t \in CalendarOf(r, n, Never)
    BY <1>5, <2>3, <2>4 DEF CalendarOf, Repeats
  <2> QED BY <1>5, <2>1, <2>3, <2>4, <2>5, <2>6
<1>6. CASE ~IsRecurringOneOnOne(r) /\ ~HasDates(r) /\ r.rule = "none"
  BY <1>6 DEF Generated
<1> QED BY <1>2, <1>3, <1>4, <1>5, <1>6

\* What is offered is generated, or is the base time.
LEMMA OfferedIs ==
    ASSUME NEW r, RowOK(r), NEW n \in Nat, NEW t \in OfferedToGuests(r, n)
    PROVE  /\ t \in Instants
           /\ (r.rule # "none" => r.recurring) => t \in CalendarOf(r, n, Never) \cup {r.time}
<1>1. PICK o \in Occurrences(r, n, FALSE) : t = o.date
  BY DEF OfferedToGuests
<1>2. o \in Generated(r, n, FALSE) \/ o.date = r.time
  <2>1. o \in Generated(r, n, FALSE) \/ o \in Fallback(r, FALSE)
    BY <1>1 DEF Occurrences
  <2>2. o \in Fallback(r, FALSE) => o.date = r.time
    <3>1. ASSUME NEW p, o = [date |-> r.time, paused |-> p] PROVE o.date = r.time
      BY <3>1
    <3> QED BY <3>1 DEF Fallback
  <2> QED BY <2>1, <2>2
<1>3. r.time \in Instants
  BY DEF RowOK, FormOK
<1> QED BY <1>1, <1>2, <1>3, OccurrenceIs

\* The feed's card names a date that is offered, or the only one.
LEMMA CardIs ==
    ASSUME NEW r, RowOK(r), NEW n \in Nat, NEW full, NextAvailable(r, n, full) # Never
    PROVE  \/ NextAvailable(r, n, full) \in OfferedToGuests(r, n) \ full
           \/ (NextAvailable(r, n, full) = r.time /\ ~Repeats(r) /\ ~HasDates(r))
<1> DEFINE S == {Never} \cup (OfferedToGuests(r, n) \ full)
<1>1. S \subseteq Nat /\ S # {}
  BY OfferedIs, InstantsAreNat
<1>2. Min(S) \in S
  BY <1>1, FirstInstant
<1>3. CASE Repeats(r) \/ HasDates(r) \/ IsRecurringOneOnOne(r)
  <2>1. NextAvailable(r, n, full) = Min(S)
    BY <1>3 DEF NextAvailable
  <2> HIDE DEF S
  <2>2. NextAvailable(r, n, full) \in S
    BY <1>2, <2>1
  <2> QED BY <2>2 DEF S
<1>4. CASE ~(Repeats(r) \/ HasDates(r) \/ IsRecurringOneOnOne(r))
  BY <1>4 DEF NextAvailable
<1> QED BY <1>3, <1>4

\* A row is listed once.
LEMMA ListedOnce ==
    ASSUME NEW r, RowOK(r), NEW n PROVE Cardinality({f \in Filters : ListedAs(r, n, f)}) = 1
<1> DEFINE only == IF r.status \in {"live", "paused"} /\ Expired(r, n) THEN "expired" ELSE r.status
<1>1. r.status \in {"draft", "live", "paused", "cancelled"}
  BY DEF RowOK, FormOK
<1>2. only \in Filters
  BY <1>1 DEF Filters
<1>3. ASSUME NEW f \in Filters PROVE ListedAs(r, n, f) <=> f = only
  BY <1>1, <1>3 DEF ListedAs, Filters
<1> HIDE DEF only
<1>4. {f \in Filters : ListedAs(r, n, f)} = {only}
  BY <1>2, <1>3
<1> QED BY <1>4, FS_Singleton

\* The directory's date is the calendar's.
LEMMA DirectoryIs ==
    ASSUME NEW r, RowOK(r), NEW n \in Nat
    PROVE  DirectoryDate(r, n) \in CalendarOf(Rolled(r, n), 0, Never) \cup {Rolled(r, n).time}
<1> DEFINE ahead == {d \in r.dates : d > n}
<1>1. CASE ~r.recurring /\ ahead # {}
  <2>1. Rolled(r, n) = r
    BY <1>1, RollsTime
  <2>2. ahead \subseteq Nat
    BY InstantsAreNat DEF RowOK, FormOK
  <2>3. Min(ahead) \in ahead
    BY <1>1, <2>2, FirstInstant
  <2>4. Min(ahead) \in r.dates /\ Min(ahead) \in Instants
    BY <2>3 DEF RowOK, FormOK
  <2>5. ~IsRecurringOneOnOne(r) /\ HasDates(r)
    BY <1>1 DEF RowOK, SessionsOK, IsRecurringOneOnOne, HasDates
  <2>6. DirectoryDate(r, n) = Min(ahead)
    BY <1>1 DEF DirectoryDate
  <2>7. \A t \in Instants : 0 <= t /\ t < Never
    BY InstantsAreNat
  <2> QED BY <2>1, <2>4, <2>5, <2>6, <2>7 DEF CalendarOf
<1>2. CASE ~(~r.recurring /\ ahead # {})
  BY <1>2 DEF DirectoryDate
<1> QED BY <1>1, <1>2

\* ViewsAgree for any number of requests and bookings, any calendar, horizon and
\* recurrence limits: availability, feed, host's list and calendars, and the
\* administrators' directory agree on the dates and pauses of every event.
THEOREM ViewsAlwaysAgree == Spec => []ViewsAgree
<1>1. RowsInv => ViewsAgree
  <2> SUFFICES ASSUME RowsInv, Exists PROVE ViewsAgree
    BY DEF ViewsAgree
  <2> DEFINE r == Rolled(row, now)
             next == NextAvailable(r, now, Full)
             offered == OfferedToGuests(r, now)
  <2>1. RowOK(row) /\ now \in Nat
    BY DEF RowsInv
  <2>2. RowOK(r)
    BY <2>1, RollsTime
  <2>3. r.status = row.status /\ (~row.recurring => r = row)
    BY <2>1, RollsTime DEF RowOK, FormOK, CalendarFields
  <2> HIDE DEF r
  <2>4. \A o \in Generated(r, now, FALSE) : ~IsOccurrencePaused(r, o.date)
    BY <2>1, <2>2, OccurrenceIs
  <2>5. ASSUME NEW o \in ShownToHost(r, now), ~StandsAlone(r)
        PROVE  o.paused <=> IsOccurrencePaused(r, o.date)
    <3>1. o \in Generated(r, now, TRUE)
      BY <2>5 DEF ShownToHost, Occurrences, StandsAlone
    <3> QED BY <2>1, <2>2, <3>1, OccurrenceIs
  <2>6. next # Never =>
          \/ next \in offered \ Full
          \/ (next = r.time /\ ~Repeats(r) /\ ~HasDates(r))
    BY <2>1, <2>2, CardIs
  <2>7. (r.rule # "none" => r.recurring) => offered \subseteq CalendarOf(r, now, Never) \cup {r.time}
    BY <2>1, <2>2, OfferedIs
  <2>8. Cardinality({f \in Filters : ListedAs(row, now, f)}) = 1
    BY <2>1, ListedOnce
  <2>9. InFeed(r, now, Full) => ListedAs(row, now, "live") \/ ListedAs(row, now, "paused")
    BY <2>3 DEF InFeed, ListedAs, Expired
  <2>10. DirectoryDate(row, now) \in CalendarOf(r, 0, Never) \cup {r.time}
    BY <2>1, DirectoryIs DEF r
  <2> HIDE DEF next, offered
  <2> QED BY <2>4, <2>5, <2>6, <2>7, <2>8, <2>9, <2>10 DEF ViewsAgree, r, next, offered
<1> QED BY <1>1, RowsInvariant, PTL


------------------------------------------------------------------------------
(* Passes.                                                                 *)


PassTypeOK ==
    /\ status \in [Keys -> {"none", "active", "expired", "refunded"}]
    /\ paid \in [Keys -> Nat] /\ since \in [Keys -> Nat] /\ used \in [Keys -> Nat]
    /\ seat \in [Keys -> [Sessions -> {"none", "held", "attended", "released"}]]
    /\ wallet \in [Guests -> Nat]
    /\ refunds \in SUBSET Keys
    /\ clock \in Nat
    /\ doing \in [PassHandlers ->
                    [pc: PCs, key: Keys \cup {NoKey}, price: Nat,
                     todo: SUBSET Sessions, listed: SUBSET Sessions, booked: Nat,
                     after: {"idle", "releasing"}]]

\* A handler at work works on a key; one that releases, on a pass that was bought.
AtWork ==
    \A h \in PassHandlers :
        /\ ~Serving(h, "idle") => doing[h].key \in Keys
        /\ Serving(h, "releasing") => status[doing[h].key] # "none"
        /\ Serving(h, "giving up") /\ doing[h].after = "releasing" => status[doing[h].key] # "none"

\* Only a pass that was bought is refunded.
RefundsOfPasses == \A k \in refunds : status[k] # "none"

PassInv == PassTypeOK /\ AtWork /\ RefundsOfPasses /\ CapacityOvershoot /\ WalletMatchesPasses

\* What a guest bought and was not paid back.
Bought(g) == {k \in PassesOf(g) : status[k] # "none" /\ k \notin refunds}
LivePasses == {k \in Keys : Live(k)}

\* The values a step writes have their types.
LEMMA TurnType ==
    ASSUME PassTypeOK, NEW h \in PassHandlers,
           NEW p \in [pc: PCs, key: Keys \cup {NoKey}, price: Nat,
                      todo: SUBSET Sessions, listed: SUBSET Sessions, booked: Nat,
                      after: {"idle", "releasing"}],
           Turn(h, p)
    PROVE  /\ doing' \in [PassHandlers ->
                    [pc: PCs, key: Keys \cup {NoKey}, price: Nat,
                     todo: SUBSET Sessions, listed: SUBSET Sessions, booked: Nat,
                     after: {"idle", "releasing"}]]
           /\ doing'[h] = p /\ \A j \in PassHandlers \ {h} : doing'[j] = doing[j]
  BY DEF PassTypeOK, Turn

\* Nobody else's work is disturbed: a pass that was bought stays so.
LEMMA AtWorkNext ==
    ASSUME PassTypeOK, AtWork, NEW h \in PassHandlers, NEW p,
           doing'[h] = p, \A j \in PassHandlers \ {h} : doing'[j] = doing[j],
           \A k \in Keys : status[k] # "none" => status'[k] # "none",
           p.pc # "idle" => p.key \in Keys,
           p.pc = "releasing" => status'[p.key] # "none",
           p.pc = "giving up" /\ p.after = "releasing" => status'[p.key] # "none"
    PROVE  AtWork'
<1> SUFFICES ASSUME NEW j \in PassHandlers
             PROVE  /\ doing'[j].pc # "idle" => doing'[j].key \in Keys
                    /\ doing'[j].pc = "releasing" => status'[doing'[j].key] # "none"
                    /\ doing'[j].pc = "giving up" /\ doing'[j].after = "releasing"
                         => status'[doing'[j].key] # "none"
  BY DEF AtWork, Serving
<1>1. CASE j = h
  BY <1>1
<1>2. CASE j # h
  <2>1. doing'[j] = doing[j]
    BY <1>2
  <2>2. /\ doing[j].pc # "idle" => doing[j].key \in Keys
        /\ doing[j].pc = "releasing" => status[doing[j].key] # "none"
        /\ doing[j].pc = "giving up" /\ doing[j].after = "releasing"
             => status[doing[j].key] # "none"
    BY DEF AtWork, Serving
  <2> QED BY <2>1, <2>2
<1> QED BY <1>1, <1>2

\* What becomes of a seat.
LEMMA SeatType ==
    ASSUME seat \in [Keys -> [Sessions -> {"none", "held", "attended", "released"}]],
           NEW k \in Keys, NEW o, NEW v \in {"none", "held", "attended", "released"}
    PROVE  [seat EXCEPT ![k][o] = v] \in
             [Keys -> [Sessions -> {"none", "held", "attended", "released"}]]
<1>1. [seat[k] EXCEPT ![o] = v] \in [Sessions -> {"none", "held", "attended", "released"}]
  OBVIOUS
<1> DEFINE entry == [seat[k] EXCEPT ![o] = v]
<1>2. [seat EXCEPT ![k][o] = v] = [seat EXCEPT ![k] = entry]
  OBVIOUS
<1> HIDE DEF entry
<1>3. [seat EXCEPT ![k] = entry] \in [Keys -> [Sessions -> {"none", "held", "attended", "released"}]]
  BY <1>1 DEF entry
<1> QED BY <1>2, <1>3

\* A turn that buys nothing puts no buyer more.
LEMMA FewerBuying ==
    ASSUME PassTypeOK, NEW h \in PassHandlers, NEW p, Turn(h, p), p.pc # "buying"
    PROVE  Buying' \subseteq Buying /\ h \notin Buying'
  BY DEF PassTypeOK, Turn, Buying, Serving

\* The overshoot does not grow when neither count does.
LEMMA CountsShrink ==
    ASSUME PassTypeOK, CapacityOvershoot, Buying' \subseteq Buying, LivePasses' \subseteq LivePasses
    PROVE  CapacityOvershoot'
<1>1. IsFiniteSet(Keys) /\ IsFiniteSet(PassHandlers) /\ Capacity \in Nat
  BY PassAssumption DEF PassAssumption
<1>2. IsFiniteSet(LivePasses) /\ IsFiniteSet(Buying)
  BY <1>1, FS_Subset DEF LivePasses, Buying
<1>3. Cardinality(LivePasses') <= Cardinality(LivePasses) /\ Cardinality(Buying') <= Cardinality(Buying)
  BY <1>2, FS_Subset
<1>4. /\ Cardinality(LivePasses) \in Nat /\ Cardinality(Buying) \in Nat
      /\ IsFiniteSet(LivePasses') /\ IsFiniteSet(Buying')
  BY <1>2, FS_Subset, FS_CardinalityType
<1>5. Cardinality(LivePasses') \in Nat /\ Cardinality(Buying') \in Nat /\ Cardinality(PassHandlers) \in Nat
  BY <1>1, <1>4, FS_CardinalityType
<1> QED BY <1>1, <1>3, <1>4, <1>5 DEF CapacityOvershoot, CountActive, LivePasses

\* Who bought what, and for how much, is left alone.
LEMMA SamePurchases ==
    ASSUME WalletMatchesPasses, wallet' = wallet, paid' = paid, refunds' = refunds,
           \A k \in Keys : status'[k] = "none" <=> status[k] = "none"
    PROVE  WalletMatchesPasses'
<1>1. \A g \in Guests : Bought(g)' = Bought(g)
  BY DEF Bought, PassesOf
<1> QED BY <1>1 DEF WalletMatchesPasses, Bought

\* Expiry only ends passes.
LEMMA ExpiryOnly ==
    ASSUME PassTypeOK, NEW g, status' = ExpireLapsed(g), since' = since, clock' = clock
    PROVE  /\ status' \in [Keys -> {"none", "active", "expired", "refunded"}]
           /\ \A k \in Keys : status'[k] = "none" <=> status[k] = "none"
           /\ LivePasses' \subseteq LivePasses
<1>1. \A k \in Keys : status'[k] = (IF Buyer[k] = g /\ status[k] = "active" /\ clock >= ValidUntil(k)
                                    THEN "expired" ELSE status[k])
  BY DEF ExpireLapsed
<1>2. status' \in [Keys -> {"none", "active", "expired", "refunded"}]
  BY DEF PassTypeOK, ExpireLapsed
<1>3. LivePasses' \subseteq LivePasses
  BY <1>1 DEF LivePasses, Live, ValidUntil
<1> QED BY <1>1, <1>2, <1>3

\* Nothing is sold at the start.
LEMMA PassInitially == PassInit => PassInv
<1> SUFFICES ASSUME PassInit PROVE PassInv
  OBVIOUS
<1>1. PassTypeOK
  BY PassAssumption DEF PassAssumption, PassInit, PassTypeOK, Unoccupied, PCs
<1>2. AtWork /\ RefundsOfPasses
  BY DEF PassInit, AtWork, RefundsOfPasses, Serving, Unoccupied
<1>3. CapacityOvershoot
  <2>1. LivePasses = {} /\ Buying = {}
    BY DEF PassInit, LivePasses, Live, Buying, Serving, Unoccupied
  <2>2. Cardinality(LivePasses) = 0 /\ Cardinality(Buying) = 0
    BY <2>1, FS_EmptySet
  <2>3. Cardinality(PassHandlers) \in Nat /\ Cardinality(PassHandlers) # 0 /\ Capacity \in Nat
    BY PassAssumption, FS_CardinalityType, FS_EmptySet DEF PassAssumption
  <2> QED BY <2>2, <2>3 DEF CapacityOvershoot, CountActive, LivePasses
<1>4. WalletMatchesPasses
  <2> SUFFICES ASSUME NEW g \in Guests PROVE wallet[g] = Deposit - SumFunctionOnSet(paid, Bought(g))
    BY DEF WalletMatchesPasses, Bought
  <2>1. Bought(g) = {}
    BY DEF PassInit, Bought, PassesOf
  <2>2. SumFunctionOnSet(paid, Bought(g)) = 0
    BY <2>1, SumEmpty
  <2> QED BY <2>2, PassAssumption DEF PassInit, PassAssumption
<1> QED BY <1>1, <1>2, <1>3, <1>4 DEF PassInv

\* What moves one guest's wallet by one pass.
LEMMA OneMorePass ==
    ASSUME PassInv, NEW k \in Keys, NEW amount \in Nat,
           status[k] = "none", status' = [status EXCEPT ![k] = "active"],
           paid' = [paid EXCEPT ![k] = amount],
           wallet' = [wallet EXCEPT ![Buyer[k]] = @ - amount], refunds' = refunds
    PROVE  WalletMatchesPasses'
<1> SUFFICES ASSUME NEW g \in Guests
             PROVE  wallet'[g] = Deposit - SumFunctionOnSet(paid', Bought(g)')
  BY DEF WalletMatchesPasses, Bought
<1>0. /\ wallet[g] = Deposit - SumFunctionOnSet(paid, Bought(g))
      /\ wallet \in [Guests -> Nat] /\ paid \in [Keys -> Nat]
      /\ paid' \in [Keys -> Nat] /\ Deposit \in Nat
      /\ Bought(g) \subseteq Keys /\ Bought(g)' \subseteq Keys
  BY PassAssumption DEF PassInv, PassTypeOK, WalletMatchesPasses, Bought, PassesOf, PassAssumption
<1>1. IsFiniteSet(Bought(g)) /\ IsFiniteSet(Bought(g)')
  BY <1>0, PassAssumption, FS_Subset DEF PassAssumption
<1>2. k \notin Bought(g) /\ k \notin refunds
  BY DEF Bought, PassInv, RefundsOfPasses
<1>3. \A j \in Bought(g) : paid[j] = paid'[j]
  BY <1>0, <1>2
<1>4. SumFunctionOnSet(paid, Bought(g)) = SumFunctionOnSet(paid', Bought(g))
  <2> DEFINE old == paid  new == paid'  B == Bought(g)
  <2>1. IsFiniteSet(B) /\ \A j \in B : old[j] = new[j]
    BY <1>1, <1>3
  <2> HIDE DEF old, new, B
  <2>2. SumFunctionOnSet(old, B) = SumFunctionOnSet(new, B)
    BY <2>1, SumSame
  <2> QED BY <2>2 DEF old, new, B
<1>5. SumFunctionOnSet(paid, Bought(g)) \in Int
  BY <1>0, <1>1, SumInt
<1>6. CASE Buyer[k] = g
  <2>1. Bought(g)' = Bought(g) \cup {k}
    BY <1>6, <1>2 DEF Bought, PassesOf, PassInv, PassTypeOK
  <2>2. SumFunctionOnSet(paid', Bought(g) \cup {k}) = SumFunctionOnSet(paid', Bought(g)) + paid'[k]
    <3>1. \A j \in Bought(g) : paid'[j] \in Int
      BY <1>0
    <3>2. paid'[k] \in Int
      BY <1>0
    <3> QED BY <1>1, <1>2, <3>1, <3>2, SumAdd
  <2>3. SumFunctionOnSet(paid', Bought(g)') = SumFunctionOnSet(paid', Bought(g)) + paid'[k]
    BY <2>1, <2>2, Zenon
  <2>4. paid'[k] = amount /\ wallet'[g] = wallet[g] - amount
    BY <1>0, <1>6
  <2> QED BY <1>0, <1>4, <1>5, <2>3, <2>4
<1>7. CASE Buyer[k] # g
  <2>1. Bought(g)' = Bought(g)
    BY <1>7 DEF Bought, PassesOf, PassInv, PassTypeOK
  <2>2. SumFunctionOnSet(paid', Bought(g)') = SumFunctionOnSet(paid', Bought(g))
    BY <2>1, Zenon
  <2>3. wallet'[g] = wallet[g]
    BY <1>0, <1>7
  <2> QED BY <1>0, <1>4, <2>2, <2>3
<1> QED BY <1>6, <1>7

\* A refund gives one pass back, at what was paid for it.
LEMMA OnePassBack ==
    ASSUME PassInv, NEW k \in Keys, status[k] # "none", k \notin refunds,
           status' = [status EXCEPT ![k] = "refunded"], paid' = paid,
           wallet' = [wallet EXCEPT ![Buyer[k]] = @ + paid[k]], refunds' = refunds \cup {k}
    PROVE  WalletMatchesPasses'
<1> SUFFICES ASSUME NEW g \in Guests
             PROVE  wallet'[g] = Deposit - SumFunctionOnSet(paid, Bought(g)')
  BY DEF WalletMatchesPasses, Bought
<1>0. /\ wallet[g] = Deposit - SumFunctionOnSet(paid, Bought(g))
      /\ wallet \in [Guests -> Nat] /\ paid \in [Keys -> Nat] /\ Deposit \in Nat
      /\ Bought(g) \subseteq Keys
  BY PassAssumption DEF PassInv, PassTypeOK, WalletMatchesPasses, Bought, PassesOf, PassAssumption
<1>1. IsFiniteSet(Bought(g))
  BY <1>0, PassAssumption, FS_Subset DEF PassAssumption
<1>2. \A j \in Bought(g) : paid[j] \in Int
  BY <1>0
<1>6. CASE Buyer[k] = g
  <2>1. k \in Bought(g) /\ Bought(g)' = Bought(g) \ {k}
    BY <1>6 DEF Bought, PassesOf, PassInv, PassTypeOK
  <2>2. SumFunctionOnSet(paid, Bought(g)) = paid[k] + SumFunctionOnSet(paid, Bought(g) \ {k})
    BY <1>1, <1>2, <2>1, SumRemove
  <2>3. SumFunctionOnSet(paid, Bought(g)) = paid[k] + SumFunctionOnSet(paid, Bought(g)')
    BY <2>1, <2>2, Zenon
  <2>4. SumFunctionOnSet(paid, Bought(g)') \in Int
    <3>1. IsFiniteSet(Bought(g) \ {k})
      BY <1>1, FS_Subset
    <3>2. SumFunctionOnSet(paid, Bought(g) \ {k}) \in Int
      BY <3>1, <1>2, SumInt
    <3> QED BY <2>1, <3>2, Zenon
  <2>5. wallet'[g] = wallet[g] + paid[k] /\ paid[k] \in Nat
    BY <1>0, <1>6
  <2> QED BY <1>0, <2>3, <2>4, <2>5
<1>7. CASE Buyer[k] # g
  <2>1. Bought(g)' = Bought(g)
    BY <1>7 DEF Bought, PassesOf, PassInv, PassTypeOK
  <2>2. SumFunctionOnSet(paid, Bought(g)') = SumFunctionOnSet(paid, Bought(g))
    BY <2>1, Zenon
  <2>3. wallet'[g] = wallet[g]
    BY <1>0, <1>7
  <2> QED BY <1>0, <2>2, <2>3
<1> QED BY <1>6, <1>7

\* Every step keeps the invariant: a purchase that begins has looked at the
\* count, one that is made turns a buyer into a live pass, and nothing else adds
\* either.
LEMMA PassStep == PassInv /\ [PassNext]_passVars => PassInv'
<1> SUFFICES ASSUME PassInv, [PassNext]_passVars PROVE PassInv'
  OBVIOUS
<1> USE PassAssumption DEF PassAssumption
<1>0. /\ PassTypeOK /\ AtWork /\ RefundsOfPasses /\ CapacityOvershoot /\ WalletMatchesPasses
      /\ Unoccupied \in [pc: PCs, key: Keys \cup {NoKey}, price: Nat,
                         todo: SUBSET Sessions, listed: SUBSET Sessions, booked: Nat,
                         after: {"idle", "releasing"}]
  BY DEF PassInv, Unoccupied, PCs
<1>1. ASSUME NEW h \in PassHandlers, NEW k \in Keys, NEW price \in Prices, BeginPurchase(h, k, price)
      PROVE  PassInv'
  <2> DEFINE p == [Unoccupied EXCEPT !.pc = "buying", !.key = k, !.price = price]
  <2>1. /\ p \in [pc: PCs, key: Keys \cup {NoKey}, price: Nat,
                  todo: SUBSET Sessions, listed: SUBSET Sessions, booked: Nat,
                  after: {"idle", "releasing"}]
        /\ p.pc = "buying" /\ p.key = k /\ Turn(h, p)
    BY <1>1 DEF Unoccupied, PCs, BeginPurchase
  <2> HIDE DEF p
  <2>2. /\ doing' \in [PassHandlers ->
                    [pc: PCs, key: Keys \cup {NoKey}, price: Nat,
                     todo: SUBSET Sessions, listed: SUBSET Sessions, booked: Nat,
                     after: {"idle", "releasing"}]]
        /\ doing'[h] = p /\ \A j \in PassHandlers \ {h} : doing'[j] = doing[j]
    BY <1>0, <2>1, TurnType
  <2>3. /\ status' = ExpireLapsed(Buyer[k]) /\ PassesLeft /\ Serving(h, "idle")
        /\ UNCHANGED <<paid, since, seat, used, wallet, refunds, clock>>
    BY <1>1 DEF BeginPurchase, held, money
  <2>4. /\ status' \in [Keys -> {"none", "active", "expired", "refunded"}]
        /\ \A j \in Keys : status'[j] = "none" <=> status[j] = "none"
        /\ LivePasses' \subseteq LivePasses
    BY <1>0, <2>3, ExpiryOnly
  <2>5. PassTypeOK'
    BY <1>0, <2>2, <2>3, <2>4 DEF PassTypeOK
  <2>6. AtWork' /\ RefundsOfPasses'
    <3>1. AtWork'
      BY <1>0, <2>1, <2>2, <2>4, AtWorkNext
    <3>2. RefundsOfPasses'
      BY <1>0, <2>3, <2>4 DEF RefundsOfPasses, PassTypeOK
    <3> QED BY <3>1, <3>2
  <2>7. WalletMatchesPasses'
    BY <1>0, <2>3, <2>4, SamePurchases
  <2>8. CapacityOvershoot'
    <3>1. /\ IsFiniteSet(LivePasses) /\ Cardinality(LivePasses) < Capacity
          /\ Cardinality(LivePasses) \in Nat /\ Cardinality(PassHandlers) \in Nat
      BY <2>3, FS_Subset, FS_CardinalityType DEF PassesLeft, CountActive, LivePasses
    <3>2. Cardinality(LivePasses') <= Cardinality(LivePasses) /\ Cardinality(LivePasses') \in Nat
      BY <3>1, <2>4, FS_Subset, FS_CardinalityType
    <3>3. Cardinality(Buying') <= Cardinality(PassHandlers) /\ Cardinality(Buying') \in Nat
      <4>1. Buying' \subseteq PassHandlers
        BY DEF Buying
      <4> QED BY <4>1, FS_Subset, FS_CardinalityType
    <3> QED BY <3>1, <3>2, <3>3 DEF CapacityOvershoot, CountActive, LivePasses
  <2> QED BY <2>5, <2>6, <2>7, <2>8 DEF PassInv
<1>2. ASSUME NEW h \in PassHandlers, CommitPurchase(h) PROVE PassInv'
  <2> DEFINE k == doing[h].key
             amount == doing[h].price
             p == [Unoccupied EXCEPT !.pc = "reserving", !.key = k, !.todo = Covered(clock)]
  <2>1. /\ k \in Keys /\ amount \in Nat
        /\ p \in [pc: PCs, key: Keys \cup {NoKey}, price: Nat,
                  todo: SUBSET Sessions, listed: SUBSET Sessions, booked: Nat,
                  after: {"idle", "releasing"}]
        /\ p.pc = "reserving" /\ p.key = k /\ Turn(h, p)
    BY <1>0, <1>2 DEF Unoccupied, PCs, CommitPurchase, AtWork, Serving, PassTypeOK, Covered
  <2>3. /\ status' = [status EXCEPT ![k] = "active"] /\ status[k] = "none"
        /\ paid' = [paid EXCEPT ![k] = amount] /\ since' = [since EXCEPT ![k] = clock]
        /\ wallet' = [wallet EXCEPT ![Buyer[k]] = @ - amount] /\ amount <= wallet[Buyer[k]]
        /\ Serving(h, "buying")
        /\ UNCHANGED <<seat, used, refunds, clock>>
    BY <1>2 DEF CommitPurchase, held, MayHoldPass, MayDebit
  <2> HIDE DEF p, k, amount
  <2>2. /\ doing' \in [PassHandlers ->
                    [pc: PCs, key: Keys \cup {NoKey}, price: Nat,
                     todo: SUBSET Sessions, listed: SUBSET Sessions, booked: Nat,
                     after: {"idle", "releasing"}]]
        /\ doing'[h] = p /\ \A j \in PassHandlers \ {h} : doing'[j] = doing[j]
    BY <1>0, <2>1, TurnType
  <2>4. /\ status' \in [Keys -> {"none", "active", "expired", "refunded"}]
        /\ status'[k] = "active" /\ \A j \in Keys \ {k} : status'[j] = status[j]
        /\ paid' \in [Keys -> Nat] /\ since' \in [Keys -> Nat] /\ wallet' \in [Guests -> Nat]
        /\ \A j \in Keys \ {k} : since'[j] = since[j]
    BY <1>0, <2>1, <2>3 DEF PassTypeOK
  <2>5. PassTypeOK'
    BY <1>0, <2>2, <2>3, <2>4 DEF PassTypeOK
  <2>6. AtWork' /\ RefundsOfPasses'
    <3>1. AtWork'
      BY <1>0, <2>1, <2>2, <2>4, AtWorkNext
    <3>2. RefundsOfPasses'
      BY <1>0, <2>3, <2>4 DEF RefundsOfPasses, PassTypeOK
    <3> QED BY <3>1, <3>2
  <2>7. WalletMatchesPasses'
    BY <2>1, <2>3, OneMorePass
  <2>8. CapacityOvershoot'
    <3>1. LivePasses' \subseteq LivePasses \cup {k} /\ LivePasses \subseteq Keys /\ k \notin LivePasses
      BY <2>3, <2>4 DEF LivePasses, Live, ValidUntil
    <3>2. /\ IsFiniteSet(LivePasses) /\ Cardinality(LivePasses) \in Nat
          /\ Cardinality(LivePasses \cup {k}) = Cardinality(LivePasses) + 1
      BY <3>1, FS_Subset, FS_CardinalityType, FS_AddElement
    <3>3. Cardinality(LivePasses') <= Cardinality(LivePasses) + 1 /\ Cardinality(LivePasses') \in Nat
      <4>1. IsFiniteSet(LivePasses \cup {k})
        BY <3>2, FS_AddElement
      <4> QED BY <3>1, <3>2, <4>1, FS_Subset, FS_CardinalityType
    <3>4. Buying' = Buying \ {h} /\ h \in Buying /\ Buying \subseteq PassHandlers
      BY <1>0, <2>1, <2>2, <2>3 DEF Buying, Serving
    <3>5. /\ IsFiniteSet(Buying) /\ Cardinality(Buying) \in Nat
          /\ Cardinality(Buying \ {h}) = Cardinality(Buying) - 1
      BY <3>4, FS_Subset, FS_CardinalityType, FS_RemoveElement
    <3>6. Cardinality(Buying') = Cardinality(Buying) - 1
      BY <3>4, <3>5, Zenon
    <3>7. /\ Capacity \in Nat /\ Cardinality(PassHandlers) \in Nat
          /\ Cardinality(LivePasses) + Cardinality(Buying) <= Capacity + Cardinality(PassHandlers) - 1
      BY <1>0, FS_CardinalityType DEF CapacityOvershoot, CountActive, LivePasses
    <3> QED BY <3>2, <3>3, <3>5, <3>6, <3>7 DEF CapacityOvershoot, CountActive, LivePasses
  <2> QED BY <2>5, <2>6, <2>7, <2>8 DEF PassInv
<1>3. ASSUME NEW h \in PassHandlers, RefundPass(h) PROVE PassInv'
  <2> DEFINE k == doing[h].key
  <2>1. /\ k \in Keys /\ status[k] # "none" /\ Turn(h, Unoccupied)
        /\ status' = [status EXCEPT ![k] = "refunded"] /\ refunds' = refunds \cup {k}
        /\ wallet' = [wallet EXCEPT ![Buyer[k]] = @ + paid[k]] /\ k \notin refunds
        /\ UNCHANGED <<paid, since, seat, used, clock>>
    BY <1>0, <1>3 DEF RefundPass, MayRefundPass, AtWork, Serving, held
  <2> HIDE DEF k
  <2>2. /\ doing' \in [PassHandlers ->
                    [pc: PCs, key: Keys \cup {NoKey}, price: Nat,
                     todo: SUBSET Sessions, listed: SUBSET Sessions, booked: Nat,
                     after: {"idle", "releasing"}]]
        /\ doing'[h] = Unoccupied /\ \A j \in PassHandlers \ {h} : doing'[j] = doing[j]
    BY <1>0, <2>1, TurnType
  <2>4. /\ status' \in [Keys -> {"none", "active", "expired", "refunded"}]
        /\ status'[k] = "refunded" /\ \A j \in Keys \ {k} : status'[j] = status[j]
        /\ wallet' \in [Guests -> Nat] /\ refunds' \in SUBSET Keys
    BY <1>0, <2>1 DEF PassTypeOK
  <2>5. PassTypeOK'
    BY <1>0, <2>1, <2>2, <2>4 DEF PassTypeOK
  <2>6. AtWork' /\ RefundsOfPasses'
    <3>1. AtWork'
      <4>1. \A j \in Keys : status[j] # "none" => status'[j] # "none"
        BY <2>4
      <4>2. Unoccupied.pc = "idle"
        BY DEF Unoccupied
      <4> QED BY <1>0, <2>2, <4>1, <4>2, AtWorkNext
    <3>2. RefundsOfPasses'
      BY <1>0, <2>1, <2>4 DEF RefundsOfPasses, PassTypeOK
    <3> QED BY <3>1, <3>2
  <2>7. WalletMatchesPasses'
    BY <2>1, OnePassBack
  <2>8. CapacityOvershoot'
    <3>1. LivePasses' \subseteq LivePasses
      BY <2>1, <2>4 DEF LivePasses, Live, ValidUntil
    <3>2. Buying' \subseteq Buying
      BY <1>0, <2>1, FewerBuying DEF Unoccupied
    <3> QED BY <1>0, <3>1, <3>2, CountsShrink
  <2> QED BY <2>5, <2>6, <2>7, <2>8 DEF PassInv
<1>4. ASSUME NEW h \in PassHandlers, NEW p,
             p \in [pc: PCs, key: Keys \cup {NoKey}, price: Nat,
                    todo: SUBSET Sessions, listed: SUBSET Sessions, booked: Nat,
                    after: {"idle", "releasing"}],
             Turn(h, p), p.pc # "buying",
             p.pc # "idle" => p.key \in Keys,
             p.pc = "releasing" => status[p.key] # "none",
             p.pc = "giving up" /\ p.after = "releasing" => status[p.key] # "none",
             seat' \in [Keys -> [Sessions -> {"none", "held", "attended", "released"}]],
             used' \in [Keys -> Nat],
             UNCHANGED <<status, paid, since, wallet, refunds, clock>>
      PROVE  PassInv'
  <2>1. /\ doing' \in [PassHandlers ->
                    [pc: PCs, key: Keys \cup {NoKey}, price: Nat,
                     todo: SUBSET Sessions, listed: SUBSET Sessions, booked: Nat,
                     after: {"idle", "releasing"}]]
        /\ doing'[h] = p /\ \A j \in PassHandlers \ {h} : doing'[j] = doing[j]
    BY <1>0, <1>4, TurnType
  <2>2. PassTypeOK'
    BY <1>0, <1>4, <2>1 DEF PassTypeOK
  <2>3. AtWork' /\ RefundsOfPasses'
    BY <1>0, <1>4, <2>1 DEF AtWork, RefundsOfPasses, Serving
  <2>4. WalletMatchesPasses'
    BY <1>0, <1>4, SamePurchases
  <2>5. CapacityOvershoot'
    <3>1. LivePasses' \subseteq LivePasses
      BY <1>4 DEF LivePasses, Live, ValidUntil
    <3>2. Buying' \subseteq Buying
      BY <1>0, <1>4, FewerBuying
    <3> QED BY <1>0, <3>1, <3>2, CountsShrink
  <2> QED BY <2>2, <2>3, <2>4, <2>5 DEF PassInv
<1>5. ASSUME UNCHANGED <<paid, since, wallet, refunds, doing>>,
             status' \in [Keys -> {"none", "active", "expired", "refunded"}],
             \A k \in Keys : status'[k] = "none" <=> status[k] = "none",
             LivePasses' \subseteq LivePasses, clock' \in Nat,
             seat' \in [Keys -> [Sessions -> {"none", "held", "attended", "released"}]],
             used' \in [Keys -> Nat]
      PROVE  PassInv'
  <2>1. PassTypeOK' /\ Buying' \subseteq Buying
    BY <1>0, <1>5 DEF PassTypeOK, Buying, Serving
  <2>2. AtWork' /\ RefundsOfPasses'
    BY <1>0, <1>5 DEF AtWork, RefundsOfPasses, Serving, PassTypeOK
  <2>3. WalletMatchesPasses'
    BY <1>0, <1>5, SamePurchases
  <2>4. CapacityOvershoot'
    BY <1>0, <1>5, <2>1, CountsShrink
  <2> QED BY <2>1, <2>2, <2>3, <2>4 DEF PassInv
<1>6. /\ seat \in [Keys -> [Sessions -> {"none", "held", "attended", "released"}]]
      /\ used \in [Keys -> Nat] /\ clock \in Nat
  BY <1>0 DEF PassTypeOK
<1>7. ASSUME NEW h \in PassHandlers, NEW k \in Keys, BeginCancelPass(h, k) PROVE PassInv'
  <2> DEFINE p == [Unoccupied EXCEPT !.pc = "releasing", !.key = k, !.todo = Held(k), !.listed = Held(k)]
  <2>1. /\ p \in [pc: PCs, key: Keys \cup {NoKey}, price: Nat,
                  todo: SUBSET Sessions, listed: SUBSET Sessions, booked: Nat,
                  after: {"idle", "releasing"}]
        /\ p.pc = "releasing" /\ p.key = k /\ Turn(h, p) /\ status[k] # "none"
        /\ UNCHANGED <<status, paid, since, seat, used, wallet, refunds, clock>>
    BY <1>7 DEF Unoccupied, PCs, BeginCancelPass, Held, IsRefundable, held, money
  <2> QED BY <1>4, <1>6, <2>1
<1>8. ASSUME NEW h \in PassHandlers, ReserveNext(h) PROVE PassInv'
  <2> DEFINE k == doing[h].key
             o == Min(doing[h].todo)
             p == [doing[h] EXCEPT !.todo = @ \ {o}, !.booked = @ + 1]
  <2>1. /\ p \in [pc: PCs, key: Keys \cup {NoKey}, price: Nat,
                  todo: SUBSET Sessions, listed: SUBSET Sessions, booked: Nat,
                  after: {"idle", "releasing"}]
        /\ p.pc = "reserving" /\ p.key = k /\ k \in Keys
    <3>0. Serving(h, "reserving")
      BY <1>8 DEF ReserveNext
    <3>1. /\ doing[h].todo \ {o} \in SUBSET Sessions /\ doing[h].booked + 1 \in Nat
          /\ doing[h].pc = "reserving" /\ k \in Keys
      <4>1. doing[h].todo \in SUBSET Sessions /\ doing[h].booked \in Nat
        BY <1>0 DEF PassTypeOK
      <4>2. k \in Keys
        BY <1>0, <3>0 DEF Serving, AtWork
      <4> HIDE DEF k, o
      <4> QED BY <3>0, <4>1, <4>2 DEF Serving
    <3> HIDE DEF o
    <3>2. doing[h] \in [pc: PCs, key: Keys \cup {NoKey}, price: Nat,
                        todo: SUBSET Sessions, listed: SUBSET Sessions, booked: Nat,
                        after: {"idle", "releasing"}]
      BY <1>0 DEF PassTypeOK
    <3> QED BY <3>1, <3>2
  <2>2. /\ Turn(h, p) /\ TakeSeat(k, o)
        /\ UNCHANGED <<status, paid, since, wallet, refunds, clock>>
    BY <1>8 DEF ReserveNext, money
  <2>3. /\ seat' \in [Keys -> [Sessions -> {"none", "held", "attended", "released"}]]
        /\ used' \in [Keys -> Nat]
    <3>1. /\ k \in Keys /\ used[k] + 1 \in Nat
          /\ seat' = [seat EXCEPT ![k][o] = "held"] /\ used' = [used EXCEPT ![k] = @ + 1]
      BY <1>6, <2>1, <2>2 DEF TakeSeat
    <3> HIDE DEF k, o
    <3> QED BY <1>6, <3>1, SeatType
  <2> HIDE DEF p
  <2> QED BY <1>4, <2>1, <2>2, <2>3
<1>9. ASSUME NEW h \in PassHandlers, SkipNext(h) PROVE PassInv'
  <2> DEFINE p == [doing[h] EXCEPT !.todo = @ \ {Min(@)}]
  <2>1. /\ p \in [pc: PCs, key: Keys \cup {NoKey}, price: Nat,
                  todo: SUBSET Sessions, listed: SUBSET Sessions, booked: Nat,
                  after: {"idle", "releasing"}]
        /\ p.pc = "reserving" /\ p.key \in Keys
    BY <1>0, <1>9 DEF SkipNext, Serving, PassTypeOK, AtWork
  <2>2. /\ Turn(h, p)
        /\ UNCHANGED <<status, paid, since, seat, used, wallet, refunds, clock>>
    BY <1>9 DEF SkipNext, held, money
  <2> HIDE DEF p
  <2> QED BY <1>4, <1>6, <2>1, <2>2
<1>10. ASSUME NEW h \in PassHandlers, NEW k \in Keys, NEW o \in Sessions, BeginRelease(h, k, o)
       PROVE  PassInv'
  <2> DEFINE p == [Unoccupied EXCEPT !.pc = "giving up", !.key = k, !.todo = {o}]
  <2>1. /\ p \in [pc: PCs, key: Keys \cup {NoKey}, price: Nat,
                  todo: SUBSET Sessions, listed: SUBSET Sessions, booked: Nat,
                  after: {"idle", "releasing"}]
        /\ p.pc = "giving up" /\ p.key = k /\ p.after = "idle" /\ Turn(h, p)
        /\ UNCHANGED <<status, paid, since, seat, used, wallet, refunds, clock>>
    BY <1>10 DEF Unoccupied, PCs, BeginRelease, held, money
  <2> HIDE DEF p
  <2> QED BY <1>4, <1>6, <2>1
<1>11. ASSUME NEW h \in PassHandlers, CommitRelease(h) PROVE PassInv'
  <2> DEFINE k == doing[h].key
             o == Min(doing[h].todo)
             q == [doing[h] EXCEPT !.pc = doing[h].after, !.todo = @ \ {o}, !.after = "idle"]
  <2>0. /\ seat' \in [Keys -> [Sessions -> {"none", "held", "attended", "released"}]]
        /\ used' \in [Keys -> Nat]
        /\ UNCHANGED <<status, paid, since, wallet, refunds, clock>>
    <3>0. Serving(h, "giving up")
      BY <1>11 DEF CommitRelease
    <3>1. /\ k \in Keys
          /\ seat' = [seat EXCEPT ![k][o] = "released"]
          /\ used' = [used EXCEPT ![k] = IF @ = 0 THEN 0 ELSE @ - 1]
          /\ UNCHANGED <<status, paid, since, wallet, refunds, clock>>
      <4>1. k \in Keys
        BY <1>0, <3>0 DEF AtWork, Serving
      <4>2. /\ seat' = [seat EXCEPT ![k][o] = "released"]
            /\ used' = [used EXCEPT ![k] = IF @ = 0 THEN 0 ELSE @ - 1]
            /\ UNCHANGED <<status, paid, since, wallet, refunds, clock>>
        BY <1>11 DEF CommitRelease, money
      <4> QED BY <4>1, <4>2
    <3>2. (IF used[k] = 0 THEN 0 ELSE used[k] - 1) \in Nat
      BY <1>6, <3>1
    <3> HIDE DEF k, o
    <3> QED BY <1>6, <3>1, <3>2, SeatType
  <2>1. CASE doing[h].after = "idle"
    <3>1. Turn(h, Unoccupied)
      BY <1>11, <2>1 DEF CommitRelease
    <3>2. /\ seat' \in [Keys -> [Sessions -> {"none", "held", "attended", "released"}]]
          /\ used' \in [Keys -> Nat]
          /\ UNCHANGED <<status, paid, since, wallet, refunds, clock>>
      BY <1>6, <2>0
    <3>3. Unoccupied.pc = "idle"
      BY DEF Unoccupied
    <3> QED BY <1>0, <1>4, <3>1, <3>2, <3>3
  <2>2. CASE doing[h].after # "idle"
    <3>1. Turn(h, q)
      BY <1>11, <2>2 DEF CommitRelease
    <3>2. /\ seat' \in [Keys -> [Sessions -> {"none", "held", "attended", "released"}]]
          /\ used' \in [Keys -> Nat]
          /\ UNCHANGED <<status, paid, since, wallet, refunds, clock>>
      BY <1>6, <2>0
    <3>3. /\ q \in [pc: PCs, key: Keys \cup {NoKey}, price: Nat,
                    todo: SUBSET Sessions, listed: SUBSET Sessions, booked: Nat,
                    after: {"idle", "releasing"}]
          /\ q.pc = "releasing" /\ q.key \in Keys /\ status[q.key] # "none"
      BY <1>0, <1>11, <2>2 DEF CommitRelease, Serving, PassTypeOK, AtWork, PCs
    <3> HIDE DEF q
    <3> QED BY <1>4, <3>1, <3>2, <3>3
  <2> QED BY <2>1, <2>2
<1>12. ASSUME NEW h \in PassHandlers, ReleaseNext(h) PROVE PassInv'
  <2> DEFINE p == [doing[h] EXCEPT !.pc = "giving up", !.after = "releasing"]
  <2>1. /\ p \in [pc: PCs, key: Keys \cup {NoKey}, price: Nat,
                  todo: SUBSET Sessions, listed: SUBSET Sessions, booked: Nat,
                  after: {"idle", "releasing"}]
        /\ p.pc = "giving up" /\ p.key \in Keys /\ status[p.key] # "none"
    BY <1>0, <1>12 DEF ReleaseNext, Serving, PassTypeOK, AtWork, PCs
  <2>2. /\ Turn(h, p)
        /\ UNCHANGED <<status, paid, since, seat, used, wallet, refunds, clock>>
    BY <1>12 DEF ReleaseNext, held, money
  <2> HIDE DEF p
  <2> QED BY <1>4, <1>6, <2>1, <2>2
<1>13. ASSUME NEW h \in PassHandlers, LeaveOff(h) PROVE PassInv'
  <2>1. /\ Turn(h, Unoccupied) /\ Unoccupied.pc = "idle"
        /\ UNCHANGED <<status, paid, since, seat, used, wallet, refunds, clock>>
    BY <1>13 DEF LeaveOff, held, money, Unoccupied
  <2> QED BY <1>0, <1>4, <1>6, <2>1
<1>14. ASSUME NEW g \in Guests, GetPassForEvent(g) PROVE PassInv'
  <2>1. /\ status' = ExpireLapsed(g)
        /\ UNCHANGED <<paid, since, seat, used, wallet, refunds, clock, doing>>
    BY <1>14 DEF GetPassForEvent, held, money
  <2>2. /\ status' \in [Keys -> {"none", "active", "expired", "refunded"}]
        /\ \A k \in Keys : status'[k] = "none" <=> status[k] = "none"
        /\ LivePasses' \subseteq LivePasses
    BY <1>0, <2>1, ExpiryOnly
  <2> QED BY <1>5, <1>6, <2>1, <2>2
<1>15. ASSUME NEW k \in Keys, NEW o \in Sessions, ReserveSession(k, o) \/ Attend(k, o) PROVE PassInv'
  <2>1. /\ UNCHANGED <<status, paid, since, wallet, refunds, clock, doing>>
        /\ seat' \in [Keys -> [Sessions -> {"none", "held", "attended", "released"}]]
        /\ used' \in [Keys -> Nat]
    BY <1>6, <1>15 DEF ReserveSession, Attend, TakeSeat, money
  <2>2. LivePasses' \subseteq LivePasses
    BY <2>1 DEF LivePasses, Live, ValidUntil
  <2> QED BY <1>0, <1>5, <2>1, <2>2 DEF PassTypeOK
<1>16. ASSUME ClockTicks PROVE PassInv'
  <2>1. /\ UNCHANGED <<status, paid, since, wallet, refunds, seat, used, doing>> /\ clock' = clock + 1
    BY <1>16 DEF ClockTicks, held, money
  <2>2. LivePasses' \subseteq LivePasses
    BY <1>0, <1>6, <2>1 DEF LivePasses, Live, ValidUntil, PassTypeOK
  <2> QED BY <1>0, <1>5, <1>6, <2>1, <2>2 DEF PassTypeOK
<1>17. ASSUME UNCHANGED passVars PROVE PassInv'
  <2>1. UNCHANGED <<status, paid, since, wallet, refunds, seat, used, doing, clock>>
    BY <1>17 DEF passVars, held, money
  <2>2. LivePasses' \subseteq LivePasses
    BY <2>1 DEF LivePasses, Live, ValidUntil
  <2> QED BY <1>0, <1>5, <1>6, <2>1, <2>2 DEF PassTypeOK
<1> QED
  BY <1>1, <1>2, <1>3, <1>7, <1>8, <1>9, <1>10, <1>11, <1>12, <1>13, <1>14, <1>15, <1>16, <1>17
  DEF PassNext, HandlerStep

\* The invariant holds in every reachable state.
THEOREM PassInvariant == PassSpec => []PassInv
  BY PassInitially, PassStep, PTL DEF PassSpec

\* PassesHold for every number of guests, keys, sessions and requests at the
\* same time, for any prices and any capacity: the capacity, which
\* PurchasePass reads outside its transaction (pass_service.go:141), is overshot
\* by less than the requests in flight, and every wallet is short of exactly what
\* its guest bought and was not refunded.
THEOREM PassesAlwaysHold == PassSpec => []PassesHold
<1>1. PassInv => PassesHold
  BY DEF PassInv, PassesHold
<1> QED BY <1>1, PassInvariant, PTL

------------------------------------------------------------------------------
(* Coupons.                                                                *)


EditSteps ==
    [pc: {"new", "done"}]
      \cup [pc: {"batch"}, left: Nat \ {0}, tries: Nat \ {0}, event: Events \cup {Everywhere}]
      \cup [pc: {"read"}, id: Slots, body: Bodies, seen: Rows]
CheckoutSteps ==
    [pc: {"new", "valid", "failed"} \cup Made, coupon: Slots \cup {NoCoupon}, read: Nat,
     prior: SUBSET Checkouts]
Memories == [max: SUBSET Limits, perUser: SUBSET Limits]

CouponTypeOK ==
    /\ coupons \in [Slots -> Rows \cup {NoCoupon}]
    /\ edit \in [Edits -> EditSteps]
    /\ checkout \in [Checkouts -> CheckoutSteps]
    /\ day \in BOOLEAN
    /\ limits \in [Slots -> Memories]

Bound(k) == checkout[k].pc \in {"valid"} \cup Made
Uses(c)  == {k \in Checkouts : checkout[k].coupon = c /\ checkout[k].pc \in Made}

\* A row's terms are remembered; what an edit read, or a checkout chose, was
\* a row, and if it is still there it is the same host's.
TermsRemembered ==
    \A c \in Slots : Listed(c) =>
        coupons[c].max \in limits[c].max /\ coupons[c].perUser \in limits[c].perUser
EditsOfOwnRows ==
    \A q \in Edits : Is(q, "read") =>
        /\ edit[q].seen.host = HostOf[q]
        /\ limits[edit[q].id].max # {}
        /\ Listed(edit[q].id) => coupons[edit[q].id].host = HostOf[q]
ChoiceStands ==
    \A k \in Checkouts : Bound(k) =>
        /\ checkout[k].coupon \in Slots
        /\ limits[checkout[k].coupon].max # {}
        /\ Listed(checkout[k].coupon) => coupons[checkout[k].coupon].host = Owner[EventOf[k]]

\* A checkout counted fewer bookings than the code allowed each guest.
CountedUnder ==
    \A k \in Checkouts : Bound(k) =>
        \E n \in limits[checkout[k].coupon].perUser :
            n = NoLimit \/ Cardinality(checkout[k].prior) < n

\* What a checkout counted had begun, and so of any checkouts one was counted
\* by none of them: the last one to count.
CountedHadBegun ==
    \A k \in Checkouts : \A j \in checkout[k].prior : checkout[j].pc # "new"
LastCounted ==
    \A some \in SUBSET Checkouts : some # {} =>
        \E m \in some : \A i \in some : m \notin checkout[i].prior

CouponInv ==
    /\ CouponTypeOK /\ TermsRemembered /\ EditsOfOwnRows /\ ChoiceStands
    /\ CapEverHeld /\ EveryUseIsCounted
    /\ CountedUnder /\ CountedHadBegun /\ LastCounted

------------------------------------------------------------------------------

\* Of a guest's standing bookings the last to count saw all the others, unless
\* two of them overlapped.
LEMMA LimitFollows == CouponInv => PerUserLimitBrokenOnlyByOverlap
<1> SUFFICES ASSUME CouponInv, NEW c \in Slots, NEW k \in Checkouts,
                    \A n \in limits[c].perUser : n # NoLimit /\ Cardinality(UsedBy(GuestOf[k], c)) > n,
                    UsedBy(GuestOf[k], c) # {},
                    \A i, j \in UsedBy(GuestOf[k], c) :
                        i # j => i \in checkout[j].prior \/ j \in checkout[i].prior
             PROVE  FALSE
  BY DEF PerUserLimitBrokenOnlyByOverlap
<1> DEFINE users == UsedBy(GuestOf[k], c)
<1>1. users \in SUBSET Checkouts /\ users # {}
  BY DEF UsedBy
<1>2. PICK m \in users : \A i \in users : m \notin checkout[i].prior
  BY <1>1 DEF CouponInv, LastCounted
<1>3. users \ {m} \subseteq checkout[m].prior
  BY <1>1, <1>2
<1>4. checkout[m].coupon = c /\ Bound(m) /\ m \in Checkouts
  BY <1>1 DEF UsedBy, Bound, Made
<1>5. PICK n \in limits[c].perUser : n = NoLimit \/ Cardinality(checkout[m].prior) < n
  BY <1>4 DEF CouponInv, CountedUnder
<1>6. checkout[m].prior \in SUBSET Checkouts /\ n \in Limits
  BY <1>4, <1>5 DEF CouponInv, CouponTypeOK, CheckoutSteps, Memories
<1>7. n # NoLimit /\ n \in Nat /\ Cardinality(users) > n
  BY <1>5, <1>6 DEF Limits
<1> HIDE DEF users
<1>8. /\ IsFiniteSet(users) /\ IsFiniteSet(checkout[m].prior)
  BY <1>1, <1>6, CouponsAssumption, FS_Subset DEF CouponsAssumption
<1>9. /\ Cardinality(users) \in Nat /\ Cardinality(users \ {m}) = Cardinality(users) - 1
      /\ Cardinality(checkout[m].prior) \in Nat
  BY <1>2, <1>8, FS_CardinalityType, FS_RemoveElement
<1>10. Cardinality(users \ {m}) <= Cardinality(checkout[m].prior)
  BY <1>3, <1>8, FS_Subset
<1> QED BY <1>5, <1>7, <1>9, <1>10

\* The table at the start is unused.
LEMMA CouponInitially == CouponsInit => CouponInv
<1> SUFFICES ASSUME CouponsInit PROVE CouponInv
  OBVIOUS
<1> USE CouponsAssumption DEF CouponsAssumption
<1>1. CouponTypeOK
  <2>1. coupons \in [Slots -> Rows \cup {NoCoupon}] /\ edit \in [Edits -> EditSteps] /\ day \in BOOLEAN
    BY DEF CouponsInit, EditSteps
  <2>2. checkout \in [Checkouts -> CheckoutSteps]
    BY DEF CouponsInit, CheckoutSteps, Unstarted
  <2>3. limits \in [Slots -> Memories]
    <3> SUFFICES ASSUME NEW c \in Slots PROVE limits[c] \in Memories
      BY DEF CouponsInit
    <3>1. limits[c] = IF Listed(c) THEN [max |-> {Stock[c].max}, perUser |-> {Stock[c].perUser}]
                      ELSE [max |-> {}, perUser |-> {}]
      BY DEF CouponsInit
    <3>2. Listed(c) => Stock[c].max \in Limits /\ Stock[c].perUser \in Limits
      BY DEF CouponsInit, Listed, Rows, Says
    <3> QED BY <3>1, <3>2 DEF Memories
  <2> QED BY <2>1, <2>2, <2>3 DEF CouponTypeOK
<1>2. TermsRemembered /\ CapEverHeld
  <2> SUFFICES ASSUME NEW c \in Slots, Listed(c)
               PROVE  /\ coupons[c].max \in limits[c].max /\ coupons[c].perUser \in limits[c].perUser
                      /\ coupons[c].redeemed = 0 /\ coupons[c].max \in Limits
    BY DEF TermsRemembered, CapEverHeld, Limits
  <2>1. limits[c] = [max |-> {Stock[c].max}, perUser |-> {Stock[c].perUser}]
    BY DEF CouponsInit
  <2> QED BY <2>1 DEF CouponsInit, Listed, Rows, Says
<1>3. EditsOfOwnRows /\ ChoiceStands /\ CountedUnder /\ CountedHadBegun
  BY DEF CouponsInit, EditsOfOwnRows, ChoiceStands, CountedUnder, CountedHadBegun, Is, Bound, Made,
         Standing, Unstarted
<1>4. LastCounted
  BY DEF CouponsInit, LastCounted, Unstarted
<1>5. EveryUseIsCounted
  <2>1. \A k \in Checkouts : checkout[k].pc \notin Made
    BY DEF CouponsInit, Unstarted, Made, Standing
  <2>2. \A c \in Slots : Uses(c) = {}
    BY <2>1 DEF Uses
  <2>3. \A c \in Slots : Listed(c) => coupons[c].redeemed = 0
    BY DEF CouponsInit, Listed
  <2> QED BY <2>1, <2>2, <2>3, FS_EmptySet DEF EveryUseIsCounted, Uses
<1> QED BY <1>1, <1>2, <1>3, <1>4, <1>5 DEF CouponInv

------------------------------------------------------------------------------

\* A row has its terms, its host and its count.
LEMMA FieldsOfARow ==
    /\ Fields = {"event", "code", "max", "perUser", "window", "active"}
    /\ \A r \in Rows : DOMAIN r = Fields \cup {"host", "redeemed"}
  BY DEF Fields, Says, Rows

\* An edit's row is a row, of the same host.
LEMMA MergedIsARow ==
    ASSUME NEW seen \in Rows, NEW body \in Bodies
    PROVE  /\ Merged(seen, body) \in Rows
           /\ Merged(seen, body).host = seen.host
           /\ \A f \in Fields : Merged(seen, body)[f] = IF f \in DOMAIN body THEN body[f] ELSE seen[f]
<1> DEFINE next == Merged(seen, body)
<1>1. /\ DOMAIN body \subseteq Fields
      /\ \A f \in DOMAIN body : body[f] \in Says[f]
  BY CouponsAssumption DEF CouponsAssumption
<1>2. DOMAIN next = Fields \cup {"host", "redeemed"}
  BY FieldsOfARow DEF Merged
<1>3. \A f \in Fields \cup {"host", "redeemed"} : next[f] = IF f \in DOMAIN body THEN body[f] ELSE seen[f]
  BY FieldsOfARow DEF Merged
<1>4. next = [f \in Fields \cup {"host", "redeemed"} |-> next[f]]
  BY FieldsOfARow DEF Merged
<1>5. next.host = seen.host /\ next.redeemed = seen.redeemed
  BY <1>1, <1>3, FieldsOfARow
<1>6. \A f \in Fields : next[f] \in Says[f]
  <2> SUFFICES ASSUME NEW f \in Fields PROVE next[f] \in Says[f]
    OBVIOUS
  <2>1. seen[f] \in Says[f]
    BY FieldsOfARow DEF Rows, Says
  <2> QED BY <1>1, <1>3, <2>1
<1>7. /\ next.event \in Says.event /\ next.code \in Says.code /\ next.max \in Says.max
      /\ next.perUser \in Says.perUser /\ next.window \in Says.window /\ next.active \in Says.active
  BY <1>6, FieldsOfARow
<1>8. next.host \in Hosts /\ next.redeemed \in Nat
  BY <1>5 DEF Rows
<1> HIDE DEF next
<1>9. next = [host |-> next.host, redeemed |-> next.redeemed, event |-> next.event,
              code |-> next.code, max |-> next.max, perUser |-> next.perUser,
              window |-> next.window, active |-> next.active]
  BY <1>4, FieldsOfARow
<1>10. next \in Rows
  BY <1>7, <1>8, <1>9 DEF Rows
<1> QED BY <1>3, <1>5, <1>10 DEF next

\* What a request of the host does to the table and to what is remembered.
RowsMove ==
    \A c \in Slots :
        /\ limits[c].max \subseteq limits'[c].max /\ limits[c].perUser \subseteq limits'[c].perUser
        /\ Listed(c)' =>
             /\ \/ /\ Listed(c)
                   /\ coupons'[c].host = coupons[c].host
                   /\ coupons'[c].redeemed = coupons[c].redeemed
                \/ ~Listed(c) /\ limits[c].max = {} /\ coupons'[c].redeemed = 0
             /\ coupons'[c].max \in limits'[c].max /\ coupons'[c].perUser \in limits'[c].perUser
        /\ Listed(c) /\ ~Listed(c)' => Uses(c) = {}

\* A row is written, and its terms remembered.
LEMMA WrittenRow ==
    ASSUME CouponInv, NEW c \in Slots, NEW entry \in Rows,
           coupons' = [coupons EXCEPT ![c] = entry], Remember(c, entry),
           \/ Listed(c) /\ entry.host = coupons[c].host /\ entry.redeemed = coupons[c].redeemed
           \/ ~Listed(c) /\ limits[c].max = {} /\ entry.redeemed = 0
    PROVE  /\ coupons' \in [Slots -> Rows \cup {NoCoupon}]
           /\ limits' \in [Slots -> Memories]
           /\ RowsMove
<1> DEFINE memory == [max |-> limits[c].max \cup {entry.max}, perUser |-> limits[c].perUser \cup {entry.perUser}]
<1>1. /\ coupons \in [Slots -> Rows \cup {NoCoupon}] /\ limits \in [Slots -> Memories]
      /\ entry # NoCoupon /\ entry.max \in Limits /\ entry.perUser \in Limits
  BY CouponsAssumption DEF CouponsAssumption, CouponInv, CouponTypeOK, Rows, Says
<1>2. memory \in Memories
  BY <1>1 DEF Memories
<1>3. limits' = [limits EXCEPT ![c] = memory]
  <2>1. limits' = [limits EXCEPT ![c] = [[limits[c] EXCEPT !.max = @ \cup {entry.max}]
                                           EXCEPT !.perUser = @ \cup {entry.perUser}]]
    BY <1>1 DEF Remember
  <2>2. [[limits[c] EXCEPT !.max = @ \cup {entry.max}] EXCEPT !.perUser = @ \cup {entry.perUser}] = memory
    <3>1. limits[c] = [max |-> limits[c].max, perUser |-> limits[c].perUser]
      BY <1>1 DEF Memories
    <3> DEFINE a == limits[c].max  b == limits[c].perUser
    <3> HIDE DEF a, b
    <3>2. [[[max |-> a, perUser |-> b] EXCEPT !.max = @ \cup {entry.max}] EXCEPT !.perUser = @ \cup {entry.perUser}]
            = [max |-> a \cup {entry.max}, perUser |-> b \cup {entry.perUser}]
      <4> DEFINE x == a \cup {entry.max}  y == b \cup {entry.perUser}
      <4>1. [[max |-> a, perUser |-> b] EXCEPT !.max = @ \cup {entry.max}] = [max |-> x, perUser |-> b]
        OBVIOUS
      <4>2. [[max |-> x, perUser |-> b] EXCEPT !.perUser = @ \cup {entry.perUser}] = [max |-> x, perUser |-> y]
        <5> HIDE DEF x
        <5> QED OBVIOUS
      <4> HIDE DEF x, y
      <4>3. [[[max |-> a, perUser |-> b] EXCEPT !.max = @ \cup {entry.max}] EXCEPT !.perUser = @ \cup {entry.perUser}]
              = [max |-> x, perUser |-> y]
        BY <4>1, <4>2, Zenon
      <4> QED BY <4>3 DEF x, y
    <3> QED BY <3>1, <3>2 DEF a, b
  <2> QED BY <2>1, <2>2
<1> HIDE DEF memory
<1>4. limits' \in [Slots -> Memories] /\ coupons' \in [Slots -> Rows \cup {NoCoupon}]
  BY <1>1, <1>2, <1>3
<1>5. /\ limits'[c] = memory /\ coupons'[c] = entry
      /\ \A d \in Slots \ {c} : limits'[d] = limits[d] /\ coupons'[d] = coupons[d]
  BY <1>1, <1>3
<1>6. RowsMove
  <2> SUFFICES ASSUME NEW d \in Slots
               PROVE  /\ limits[d].max \subseteq limits'[d].max /\ limits[d].perUser \subseteq limits'[d].perUser
                      /\ coupons'[d] # NoCoupon =>
                           /\ \/ /\ Listed(d)
                                 /\ coupons'[d].host = coupons[d].host
                                 /\ coupons'[d].redeemed = coupons[d].redeemed
                              \/ ~Listed(d) /\ limits[d].max = {} /\ coupons'[d].redeemed = 0
                           /\ coupons'[d].max \in limits'[d].max
                           /\ coupons'[d].perUser \in limits'[d].perUser
                      /\ Listed(d) /\ ~(coupons'[d] # NoCoupon) => Uses(d) = {}
    BY DEF RowsMove, Listed
  <2>1. CASE d = c
    BY <1>1, <1>5, <2>1 DEF memory
  <2>2. CASE d # c
    BY <1>5, <2>2 DEF CouponInv, TermsRemembered, Listed
  <2> QED BY <2>1, <2>2
<1> QED BY <1>4, <1>6

\* A new coupon, in a row that was never used.
LEMMA InsertedRow ==
    ASSUME CouponInv, NEW c \in Slots, NEW host \in Hosts, NEW form \in AllTerms, Insert(c, host, form)
    PROVE  /\ coupons' \in [Slots -> Rows \cup {NoCoupon}]
           /\ limits' \in [Slots -> Memories]
           /\ RowsMove
<1> DEFINE entry == NewRow(host, form)
<1>1. entry \in Rows /\ entry.redeemed = 0
  BY DEF NewRow, Rows, AllTerms
<1>2. /\ ~Listed(c) /\ limits[c].max = {}
      /\ coupons' = [coupons EXCEPT ![c] = entry] /\ Remember(c, entry)
  BY DEF Insert
<1> HIDE DEF entry
<1> QED BY <1>1, <1>2, WrittenRow

\* A request that leaves the table alone.
LEMMA SameRows ==
    ASSUME CouponInv, UNCHANGED <<coupons, limits>>
    PROVE  /\ coupons' \in [Slots -> Rows \cup {NoCoupon}]
           /\ limits' \in [Slots -> Memories]
           /\ RowsMove
  BY DEF CouponInv, CouponTypeOK, RowsMove, Listed, TermsRemembered

\* A request of the host, checkouts standing still.
LEMMA HostMoves ==
    ASSUME CouponInv, NEW q \in Edits, NEW step \in EditSteps, Answer(q, step),
           step.pc = "read" => /\ step.seen.host = HostOf[q]
                               /\ limits[step.id].max # {}
                               /\ Listed(step.id) => coupons[step.id].host = HostOf[q],
           UNCHANGED <<checkout, day>>,
           coupons' \in [Slots -> Rows \cup {NoCoupon}], limits' \in [Slots -> Memories], RowsMove
    PROVE  CouponInv'
<1>0. /\ CouponTypeOK /\ TermsRemembered /\ EditsOfOwnRows /\ ChoiceStands
      /\ CapEverHeld /\ EveryUseIsCounted
      /\ CountedUnder /\ CountedHadBegun /\ LastCounted
  BY DEF CouponInv
<1>1. /\ edit' \in [Edits -> EditSteps] /\ edit'[q] = step
      /\ \A r \in Edits \ {q} : edit'[r] = edit[r]
  BY <1>0 DEF Answer, CouponTypeOK
<1>2. CouponTypeOK'
  BY <1>0, <1>1 DEF CouponTypeOK
<1>3. TermsRemembered'
  BY DEF RowsMove, TermsRemembered
<1>4. /\ \A c \in Slots : limits[c].max # {} => limits'[c].max # {}
      /\ \A c \in Slots : limits[c].max # {} /\ Listed(c)' => /\ Listed(c)
                                                             /\ coupons'[c].host = coupons[c].host
  BY DEF RowsMove
<1>5. EditsOfOwnRows'
  <2> SUFFICES ASSUME NEW r \in Edits, edit'[r].pc = "read"
               PROVE  /\ edit'[r].seen.host = HostOf[r]
                      /\ limits'[edit'[r].id].max # {}
                      /\ coupons'[edit'[r].id] # NoCoupon => coupons'[edit'[r].id].host = HostOf[r]
    BY DEF EditsOfOwnRows, Is, Listed
  <2>1. /\ edit'[r].seen.host = HostOf[r]
        /\ limits[edit'[r].id].max # {}
        /\ Listed(edit'[r].id) => coupons[edit'[r].id].host = HostOf[r]
    <3>1. CASE r = q
      BY <1>1, <3>1 DEF Listed
    <3>2. CASE r # q
      <4>1. edit'[r] = edit[r]
        BY <1>1, <3>2
      <4> QED BY <1>0, <4>1 DEF EditsOfOwnRows, Is, Listed
    <3> QED BY <3>1, <3>2
  <2>2. edit'[r].id \in Slots
    BY <1>1 DEF EditSteps
  <2> QED BY <1>4, <2>1, <2>2 DEF Listed
<1>6. ChoiceStands'
  BY <1>0, <1>4 DEF ChoiceStands, Bound, Listed
<1>7. \A c \in Slots : Uses(c)' = Uses(c)
  BY DEF Uses
<1>8. CapEverHeld'
  <2> SUFFICES ASSUME NEW c \in Slots, coupons'[c] # NoCoupon
               PROVE  \E n \in limits'[c].max : n = NoLimit \/ coupons'[c].redeemed <= n
    BY DEF CapEverHeld, Listed
  <2>1. CASE Listed(c) /\ coupons'[c].redeemed = coupons[c].redeemed
    BY <1>0, <2>1 DEF CapEverHeld, RowsMove
  <2>2. CASE coupons'[c].redeemed = 0
    <3>1. coupons'[c].max \in limits'[c].max /\ limits'[c] \in Memories
      BY <1>2 DEF RowsMove, Listed, CouponTypeOK
    <3> QED BY <2>2, <3>1 DEF Memories, Limits
  <2> QED BY <2>1, <2>2 DEF RowsMove, Listed
<1>9. EveryUseIsCounted'
  <2>1. ASSUME NEW k \in Checkouts, checkout'[k].pc \in Made
        PROVE  /\ coupons'[checkout'[k].coupon] # NoCoupon
               /\ coupons'[checkout'[k].coupon].host = Owner[EventOf[k]]
    <3> DEFINE c == checkout[k].coupon
    <3>1. Listed(c) /\ coupons[c].host = Owner[EventOf[k]] /\ c \in Slots /\ limits[c].max # {}
      BY <1>0, <2>1 DEF EveryUseIsCounted, ChoiceStands, Bound
    <3>2. k \in Uses(c)
      BY <2>1 DEF Uses
    <3> HIDE DEF c
    <3>3. coupons'[c] # NoCoupon
      BY <3>1, <3>2 DEF RowsMove, Listed
    <3>4. coupons'[c].host = coupons[c].host
      BY <1>4, <3>1, <3>3 DEF Listed
    <3> QED BY <3>1, <3>3, <3>4 DEF c
  <2>2. ASSUME NEW c \in Slots, coupons'[c] # NoCoupon
        PROVE  coupons'[c].redeemed = Cardinality(Uses(c)')
    <3>1. CASE Listed(c) /\ coupons'[c].redeemed = coupons[c].redeemed
      <4>1. coupons[c].redeemed = Cardinality(Uses(c))
        BY <1>0, <3>1 DEF EveryUseIsCounted, Uses
      <4> QED BY <1>7, <3>1, <4>1
    <3>2. CASE ~Listed(c) /\ coupons'[c].redeemed = 0
      <4>1. Uses(c)' = {}
        BY <1>0, <1>7, <3>2 DEF EveryUseIsCounted, Uses
      <4>2. Cardinality(Uses(c)') = 0
        BY <4>1, FS_EmptySet
      <4> QED BY <3>2, <4>2
    <3> QED BY <2>2, <3>1, <3>2 DEF RowsMove, Listed
  <2> QED BY <2>1, <2>2 DEF EveryUseIsCounted, Listed, Uses
<1>10. CountedUnder'
  <2> SUFFICES ASSUME NEW k \in Checkouts, Bound(k)
               PROVE  \E n \in limits'[checkout[k].coupon].perUser :
                        n = NoLimit \/ Cardinality(checkout[k].prior) < n
    BY DEF CountedUnder, Bound
  <2>1. checkout[k].coupon \in Slots
    BY <1>0 DEF ChoiceStands
  <2> QED BY <1>0, <2>1 DEF CountedUnder, RowsMove
<1>11. CountedHadBegun' /\ LastCounted'
  BY <1>0 DEF CountedHadBegun, LastCounted
<1> QED BY <1>2, <1>3, <1>5, <1>6, <1>8, <1>9, <1>10, <1>11 DEF CouponInv

\* A checkout's step, the rows keeping their terms: all but the counts.
LEMMA GuestMoves ==
    ASSUME CouponInv, NEW k \in Checkouts, NEW new \in CheckoutSteps,
           checkout' = [checkout EXCEPT ![k] = new], new.pc # "new",
           new.pc \in {"valid"} \cup Made =>
               /\ new.coupon \in Slots /\ limits[new.coupon].max # {}
               /\ Listed(new.coupon) => coupons[new.coupon].host = Owner[EventOf[k]]
               /\ \E n \in limits[new.coupon].perUser : n = NoLimit \/ Cardinality(new.prior) < n,
           \/ new.prior \subseteq checkout[k].prior
           \/ /\ checkout[k].pc = "new"
              /\ \A j \in new.prior : checkout[j].pc # "new",
           UNCHANGED <<edit, day, limits>>,
           coupons' \in [Slots -> Rows \cup {NoCoupon}],
           \A c \in Slots : /\ coupons'[c] = NoCoupon <=> coupons[c] = NoCoupon
                            /\ coupons[c] # NoCoupon =>
                                 /\ coupons'[c].host = coupons[c].host
                                 /\ coupons'[c].max = coupons[c].max
                                 /\ coupons'[c].perUser = coupons[c].perUser
    PROVE  /\ CouponTypeOK' /\ TermsRemembered' /\ EditsOfOwnRows' /\ ChoiceStands'
           /\ CountedUnder' /\ CountedHadBegun' /\ LastCounted'
<1>0. /\ CouponTypeOK /\ TermsRemembered /\ EditsOfOwnRows /\ ChoiceStands
      /\ CountedUnder /\ CountedHadBegun /\ LastCounted
  BY DEF CouponInv
<1>1. /\ checkout' \in [Checkouts -> CheckoutSteps] /\ checkout'[k] = new
      /\ \A j \in Checkouts \ {k} : checkout'[j] = checkout[j]
      /\ checkout \in [Checkouts -> CheckoutSteps]
      /\ \A j \in Checkouts : checkout[j].prior \in SUBSET Checkouts
      /\ new.prior \in SUBSET Checkouts
  BY <1>0 DEF CouponTypeOK, CheckoutSteps
<1>2. CouponTypeOK'
  BY <1>0, <1>1 DEF CouponTypeOK
<1>3. TermsRemembered'
  BY <1>0 DEF TermsRemembered, Listed
<1>4. EditsOfOwnRows'
  <2> SUFFICES ASSUME NEW r \in Edits, edit[r].pc = "read"
               PROVE  /\ edit[r].seen.host = HostOf[r]
                      /\ limits[edit[r].id].max # {}
                      /\ coupons'[edit[r].id] # NoCoupon => coupons'[edit[r].id].host = HostOf[r]
    BY DEF EditsOfOwnRows, Is, Listed
  <2>1. edit[r].id \in Slots
    BY <1>0 DEF CouponTypeOK, EditSteps
  <2>2. /\ edit[r].seen.host = HostOf[r]
        /\ limits[edit[r].id].max # {}
        /\ coupons[edit[r].id] # NoCoupon => coupons[edit[r].id].host = HostOf[r]
    BY <1>0 DEF EditsOfOwnRows, Is, Listed
  <2> QED BY <2>1, <2>2
<1>5. ChoiceStands' /\ CountedUnder'
  <2> SUFFICES ASSUME NEW j \in Checkouts, checkout'[j].pc \in {"valid"} \cup Made
               PROVE  /\ checkout'[j].coupon \in Slots /\ limits[checkout'[j].coupon].max # {}
                      /\ coupons'[checkout'[j].coupon] # NoCoupon =>
                           coupons'[checkout'[j].coupon].host = Owner[EventOf[j]]
                      /\ \E n \in limits[checkout'[j].coupon].perUser :
                           n = NoLimit \/ Cardinality(checkout'[j].prior) < n
    BY DEF ChoiceStands, CountedUnder, Bound, Listed
  <2>1. /\ checkout'[j].coupon \in Slots /\ limits[checkout'[j].coupon].max # {}
        /\ coupons[checkout'[j].coupon] # NoCoupon =>
             coupons[checkout'[j].coupon].host = Owner[EventOf[j]]
        /\ \E n \in limits[checkout'[j].coupon].perUser :
             n = NoLimit \/ Cardinality(checkout'[j].prior) < n
    <3>1. CASE j = k
      BY <1>1, <3>1 DEF Listed
    <3>2. CASE j # k
      <4>1. checkout'[j] = checkout[j] /\ Bound(j)
        BY <1>1, <3>2 DEF Bound
      <4> QED BY <1>0, <4>1 DEF ChoiceStands, CountedUnder, Listed
    <3> QED BY <3>1, <3>2
  <2> QED BY <2>1
<1>6. CountedHadBegun'
  <2> SUFFICES ASSUME NEW j \in Checkouts, NEW i \in checkout'[j].prior PROVE checkout'[i].pc # "new"
    BY DEF CountedHadBegun
  <2>1. i \in Checkouts /\ checkout[i].pc # "new"
    <3>1. CASE j = k
      BY <1>0, <1>1, <3>1 DEF CountedHadBegun
    <3>2. CASE j # k
      BY <1>0, <1>1, <3>2 DEF CountedHadBegun
    <3> QED BY <3>1, <3>2
  <2> QED BY <1>1, <2>1
<1>7. LastCounted'
  <2> SUFFICES ASSUME NEW some \in SUBSET Checkouts, some # {}
               PROVE  \E m \in some : \A i \in some : m \notin checkout'[i].prior
    BY DEF LastCounted
  <2>1. CASE new.prior \subseteq checkout[k].prior
    <3>1. \A i \in some : checkout'[i].prior \subseteq checkout[i].prior
      BY <1>1, <2>1
    <3> QED BY <1>0, <3>1 DEF LastCounted
  <2>2. CASE checkout[k].pc = "new" /\ k \in some /\ \A j \in new.prior : checkout[j].pc # "new"
    <3>1. \A i \in some : k \notin checkout'[i].prior
      <4> SUFFICES ASSUME NEW i \in some PROVE k \notin checkout'[i].prior
        OBVIOUS
      <4>1. CASE i = k
        BY <1>1, <2>2, <4>1
      <4>2. CASE i # k
        BY <1>0, <1>1, <2>2, <4>2 DEF CountedHadBegun
      <4> QED BY <4>1, <4>2
    <3> QED BY <2>2, <3>1
  <2>3. CASE k \notin some
    BY <1>0, <1>1, <2>3 DEF LastCounted
  <2> QED BY <2>1, <2>2, <2>3
<1> QED BY <1>2, <1>3, <1>4, <1>5, <1>6, <1>7

\* A step that books nothing leaves the counts alone.
LEMMA CountsKeep ==
    ASSUME CouponInv, NEW k \in Checkouts, NEW new \in CheckoutSteps,
           checkout' = [checkout EXCEPT ![k] = new],
           new.pc \in Made <=> checkout[k].pc \in Made,
           new.pc \in Made => new.coupon = checkout[k].coupon,
           UNCHANGED <<coupons, limits>>
    PROVE  CapEverHeld' /\ EveryUseIsCounted'
<1>1. /\ checkout'[k] = new /\ \A j \in Checkouts \ {k} : checkout'[j] = checkout[j]
  BY DEF CouponInv, CouponTypeOK
<1>2. \A c \in Slots : Uses(c)' = Uses(c)
  BY <1>1 DEF Uses
<1>3. CapEverHeld'
  BY DEF CouponInv, CapEverHeld, Listed
<1>4. ASSUME NEW j \in Checkouts, checkout'[j].pc \in Made
      PROVE  /\ coupons[checkout'[j].coupon] # NoCoupon
             /\ coupons[checkout'[j].coupon].host = Owner[EventOf[j]]
  BY <1>1, <1>4 DEF CouponInv, EveryUseIsCounted, Listed
<1>5. ASSUME NEW c \in Slots, coupons[c] # NoCoupon
      PROVE  coupons[c].redeemed = Cardinality(Uses(c)')
  <2>1. coupons[c].redeemed = Cardinality(Uses(c))
    BY <1>5 DEF CouponInv, EveryUseIsCounted, Listed, Uses
  <2> QED BY <1>2, <2>1
<1> QED BY <1>3, <1>4, <1>5 DEF EveryUseIsCounted, Listed, Uses

\* A checkout counts from what stands when it reads.
LEMMA ValidateKeeps ==
    ASSUME CouponInv, NEW k \in Checkouts, ValidateCoupon(k) PROVE CouponInv'
<1>1. PICK c \in Found(k) :
         /\ Under(Cardinality(UsedBy(GuestOf[k], c)), coupons[c].perUser)
         /\ checkout' = [checkout EXCEPT ![k] =
                [pc |-> "valid", coupon |-> c, read |-> coupons[c].redeemed,
                 prior |-> UsedBy(GuestOf[k], c)]]
  BY DEF ValidateCoupon
<1> DEFINE new == [pc |-> "valid", coupon |-> c, read |-> coupons[c].redeemed,
                   prior |-> UsedBy(GuestOf[k], c)]
<1>2. /\ c \in Slots /\ Listed(c) /\ coupons[c] \in Rows
      /\ coupons[c].host = Owner[EventOf[k]]
      /\ UsedBy(GuestOf[k], c) \in SUBSET Checkouts
      /\ \A j \in UsedBy(GuestOf[k], c) : checkout[j].pc # "new"
  BY DEF Found, Listed, CouponInv, CouponTypeOK, UsedBy, Standing
<1>3. /\ limits[c].max # {}
      /\ \E n \in limits[c].perUser : n = NoLimit \/ Cardinality(UsedBy(GuestOf[k], c)) < n
  BY <1>1, <1>2 DEF CouponInv, TermsRemembered, Under
<1>4. /\ new \in CheckoutSteps /\ new.pc = "valid" /\ new.coupon = c
      /\ new.prior = UsedBy(GuestOf[k], c)
  BY <1>2 DEF CheckoutSteps, Rows
<1>5. /\ checkout' = [checkout EXCEPT ![k] = new] /\ checkout[k].pc = "new"
      /\ UNCHANGED <<coupons, edit, day, limits>>
  BY <1>1 DEF ValidateCoupon
<1> HIDE DEF new
<1>6. new.pc \notin Made /\ checkout[k].pc \notin Made
  BY <1>4, <1>5 DEF Made, Standing
<1>7. CapEverHeld' /\ EveryUseIsCounted'
  BY <1>4, <1>5, <1>6, CountsKeep
<1>8. coupons' \in [Slots -> Rows \cup {NoCoupon}]
  BY <1>5 DEF CouponInv, CouponTypeOK
<1>9. /\ CouponTypeOK' /\ TermsRemembered' /\ EditsOfOwnRows' /\ ChoiceStands'
      /\ CountedUnder' /\ CountedHadBegun' /\ LastCounted'
  BY <1>2, <1>3, <1>4, <1>5, <1>8, GuestMoves
<1> QED BY <1>7, <1>9 DEF CouponInv

\* A booking that ends stays a use of its code.
LEMMA EndKeeps ==
    ASSUME CouponInv, NEW k \in Checkouts, EndBooking(k) PROVE CouponInv'
<1>1. PICK pc \in {"cancelled", "refunded"} : checkout' = [checkout EXCEPT ![k].pc = pc]
  BY DEF EndBooking
<1> DEFINE new == [checkout[k] EXCEPT !.pc = pc]
<1>2. checkout[k] \in CheckoutSteps /\ checkout[k].pc = "booked" /\ Bound(k)
  BY DEF CouponInv, CouponTypeOK, EndBooking, Bound, Made, Standing
<1>3. /\ new \in CheckoutSteps /\ new.pc = pc /\ new.coupon = checkout[k].coupon
      /\ new.prior = checkout[k].prior
  BY <1>2 DEF CheckoutSteps, Made, Standing
<1>4. /\ checkout' = [checkout EXCEPT ![k] = new]
      /\ UNCHANGED <<coupons, edit, day, limits>>
  BY <1>1 DEF EndBooking
<1> HIDE DEF new
<1>5. new.pc \in Made /\ checkout[k].pc \in Made
  BY <1>2, <1>3 DEF Made, Standing
<1>6. CapEverHeld' /\ EveryUseIsCounted'
  BY <1>3, <1>4, <1>5, CountsKeep
<1>7. /\ new.coupon \in Slots /\ limits[new.coupon].max # {}
      /\ Listed(new.coupon) => coupons[new.coupon].host = Owner[EventOf[k]]
      /\ \E n \in limits[new.coupon].perUser : n = NoLimit \/ Cardinality(new.prior) < n
  BY <1>2, <1>3 DEF CouponInv, ChoiceStands, CountedUnder
<1>8. coupons' \in [Slots -> Rows \cup {NoCoupon}]
  BY <1>4 DEF CouponInv, CouponTypeOK
<1>9. new.prior \subseteq checkout[k].prior /\ new.pc # "new"
  BY <1>3
<1>10. /\ CouponTypeOK' /\ TermsRemembered' /\ EditsOfOwnRows' /\ ChoiceStands'
       /\ CountedUnder' /\ CountedHadBegun' /\ LastCounted'
  BY <1>3, <1>4, <1>7, <1>8, <1>9, GuestMoves
<1> QED BY <1>6, <1>10 DEF CouponInv

\* A checkout that fails counts for nothing.
LEMMA FailedKeeps ==
    ASSUME CouponInv, NEW k \in Checkouts, checkout[k].pc = "valid",
           checkout' = [checkout EXCEPT ![k] = [Unstarted EXCEPT !.pc = "failed"]],
           UNCHANGED <<coupons, edit, day, limits>>
    PROVE  CouponInv'
<1> DEFINE new == [Unstarted EXCEPT !.pc = "failed"]
<1>1. new \in CheckoutSteps /\ new.pc = "failed" /\ new.prior = {}
  BY DEF CheckoutSteps, Unstarted
<1> HIDE DEF new
<1>2. new.pc \notin Made /\ checkout[k].pc \notin Made /\ new.pc \notin {"valid"} \cup Made
  BY <1>1 DEF Made, Standing
<1>3. checkout' = [checkout EXCEPT ![k] = new]
  BY DEF new
<1>4. CapEverHeld' /\ EveryUseIsCounted'
  BY <1>1, <1>2, <1>3, CountsKeep
<1>5. coupons' \in [Slots -> Rows \cup {NoCoupon}] /\ new.prior \subseteq checkout[k].prior
  BY <1>1 DEF CouponInv, CouponTypeOK
<1>6. /\ CouponTypeOK' /\ TermsRemembered' /\ EditsOfOwnRows' /\ ChoiceStands'
      /\ CountedUnder' /\ CountedHadBegun' /\ LastCounted'
  BY <1>1, <1>2, <1>3, <1>5, GuestMoves
<1> QED BY <1>4, <1>6 DEF CouponInv

\* A use is counted in the transaction that makes the booking.
LEMMA BookedKeeps ==
    ASSUME CouponInv, NEW k \in Checkouts, checkout[k].pc = "valid", CapHolds(k),
           coupons' = [coupons EXCEPT ![checkout[k].coupon].redeemed = @ + 1],
           checkout' = [checkout EXCEPT ![k].pc = "booked", ![k].read = 0],
           UNCHANGED <<edit, day, limits>>
    PROVE  CouponInv'
<1> DEFINE c == checkout[k].coupon
           prior == checkout[k].prior
           new == [pc |-> "booked", coupon |-> c, read |-> 0, prior |-> prior]
           entry == [coupons[c] EXCEPT !.redeemed = @ + 1]
<1>1. /\ checkout[k] \in CheckoutSteps /\ c \in Slots /\ Listed(c) /\ coupons[c] \in Rows
      /\ Under(coupons[c].redeemed, coupons[c].max) /\ Bound(k)
      /\ coupons[c].host = Owner[EventOf[k]]
      /\ coupons \in [Slots -> Rows \cup {NoCoupon}]
  BY DEF CouponInv, CouponTypeOK, ChoiceStands, Bound, CapHolds, Listed
<1>2. checkout' = [checkout EXCEPT ![k] = new] /\ new \in CheckoutSteps
  <2>1. checkout[k] = [pc |-> checkout[k].pc, coupon |-> c, read |-> checkout[k].read, prior |-> prior]
    BY <1>1 DEF CheckoutSteps
  <2>2. checkout' = [checkout EXCEPT ![k] = [[checkout[k] EXCEPT !.pc = "booked"] EXCEPT !.read = 0]]
    BY DEF CouponInv, CouponTypeOK
  <2>3. [[checkout[k] EXCEPT !.pc = "booked"] EXCEPT !.read = 0] = new
    <3> HIDE DEF c, prior
    <3>1. [checkout[k] EXCEPT !.pc = "booked"]
            = [pc |-> "booked", coupon |-> c, read |-> checkout[k].read, prior |-> prior]
      BY <2>1
    <3>2. [[pc |-> "booked", coupon |-> c, read |-> checkout[k].read, prior |-> prior] EXCEPT !.read = 0] = new
      OBVIOUS
    <3> QED BY <3>1, <3>2, Zenon
  <2>4. new \in CheckoutSteps
    BY <1>1 DEF CheckoutSteps, Made, Standing
  <2> QED BY <2>2, <2>3, <2>4, Zenon
<1>3. /\ entry \in Rows /\ entry.redeemed = coupons[c].redeemed + 1 /\ entry.host = coupons[c].host
      /\ entry.max = coupons[c].max /\ entry.perUser = coupons[c].perUser
      /\ coupons[c].redeemed \in Nat
  BY <1>1 DEF Rows
<1>4. coupons' = [coupons EXCEPT ![c] = entry]
  BY <1>1
<1>5. /\ new.pc = "booked" /\ new.coupon = c /\ new.prior = prior
  OBVIOUS
<1> HIDE DEF new, entry, c
<1>6. /\ coupons' \in [Slots -> Rows \cup {NoCoupon}] /\ coupons'[c] = entry /\ entry # NoCoupon
      /\ \A d \in Slots \ {c} : coupons'[d] = coupons[d]
      /\ coupons[c] # NoCoupon
  BY <1>1, <1>3, <1>4, CouponsAssumption DEF CouponsAssumption, Listed
<1>7. /\ limits[c].max # {}
      /\ \E n \in limits[c].perUser : n = NoLimit \/ Cardinality(prior) < n
  BY <1>1 DEF CouponInv, ChoiceStands, CountedUnder, c
<1>8. /\ CouponTypeOK' /\ TermsRemembered' /\ EditsOfOwnRows' /\ ChoiceStands'
      /\ CountedUnder' /\ CountedHadBegun' /\ LastCounted'
  <2>1. \A d \in Slots : /\ coupons'[d] = NoCoupon <=> coupons[d] = NoCoupon
                         /\ coupons[d] # NoCoupon =>
                                 /\ coupons'[d].host = coupons[d].host
                                 /\ coupons'[d].max = coupons[d].max
                                 /\ coupons'[d].perUser = coupons[d].perUser
    BY <1>3, <1>6
  <2>2. new.pc # "new" /\ new.prior \subseteq checkout[k].prior
    BY <1>5
  <2> QED BY <1>1, <1>2, <1>5, <1>6, <1>7, <2>1, <2>2, GuestMoves
<1>9. /\ checkout'[k] = new /\ \A j \in Checkouts \ {k} : checkout'[j] = checkout[j]
  BY <1>2 DEF CouponInv, CouponTypeOK
<1>10. CapEverHeld'
  <2> SUFFICES ASSUME NEW d \in Slots, coupons'[d] # NoCoupon
               PROVE  \E n \in limits[d].max : n = NoLimit \/ coupons'[d].redeemed <= n
    BY DEF CapEverHeld, Listed
  <2>1. CASE d = c
    <3>1. coupons[c].max \in limits[c].max /\ coupons[c].max \in Limits
      BY <1>1 DEF CouponInv, TermsRemembered, Rows, Says
    <3>2. coupons[c].max = NoLimit \/ (coupons[c].max \in Nat /\ coupons[c].redeemed < coupons[c].max)
      BY <1>1, <3>1 DEF Under, Limits
    <3>3. coupons'[c].redeemed = coupons[c].redeemed + 1
      BY <1>3, <1>6
    <3>4. coupons[c].max = NoLimit \/ coupons'[c].redeemed <= coupons[c].max
      BY <1>3, <3>2, <3>3
    <3> QED BY <2>1, <3>1, <3>4
  <2>2. CASE d # c
    BY <1>6, <2>2 DEF CouponInv, CapEverHeld, Listed
  <2> QED BY <2>1, <2>2
<1>11. EveryUseIsCounted'
  <2>1. ASSUME NEW j \in Checkouts, checkout'[j].pc \in Made
        PROVE  /\ coupons'[checkout'[j].coupon] # NoCoupon
               /\ coupons'[checkout'[j].coupon].host = Owner[EventOf[j]]
    <3>1. CASE j = k
      BY <1>1, <1>3, <1>5, <1>6, <1>9, <3>1
    <3>2. CASE j # k
      <4>1. /\ checkout'[j] = checkout[j] /\ checkout[j].coupon \in Slots
            /\ coupons[checkout[j].coupon] # NoCoupon
            /\ coupons[checkout[j].coupon].host = Owner[EventOf[j]]
        BY <1>9, <2>1, <3>2 DEF CouponInv, EveryUseIsCounted, ChoiceStands, Bound, Listed
      <4> QED BY <1>3, <1>6, <4>1
    <3> QED BY <3>1, <3>2
  <2>2. ASSUME NEW d \in Slots, coupons'[d] # NoCoupon
        PROVE  coupons'[d].redeemed = Cardinality(Uses(d)')
    <3>1. coupons[d] # NoCoupon => coupons[d].redeemed = Cardinality(Uses(d))
      BY DEF CouponInv, EveryUseIsCounted, Listed, Uses
    <3>2. CASE d = c
      <4>1. Uses(d)' = Uses(d) \cup {k} /\ k \notin Uses(d) /\ Uses(d) \in SUBSET Checkouts
        <5>1. /\ \A x \in Checkouts \ {k} : checkout'[x] = checkout[x]
              /\ checkout'[k].pc = "booked" /\ checkout'[k].coupon = d
              /\ checkout[k].pc = "valid"
          BY <1>5, <1>9, <3>2
        <5> QED BY <5>1 DEF Uses, Made, Standing
      <4>2. IsFiniteSet(Uses(d))
        BY <4>1, CouponsAssumption, FS_Subset DEF CouponsAssumption
      <4>3. Cardinality(Uses(d) \cup {k}) = Cardinality(Uses(d)) + 1
        BY <4>1, <4>2, FS_AddElement
      <4>4. Cardinality(Uses(d)') = Cardinality(Uses(d)) + 1
        BY <4>1, <4>3, Zenon
      <4> QED BY <1>3, <1>6, <3>1, <3>2, <4>4
    <3>3. CASE d # c
      <4>1. Uses(d)' = Uses(d)
        BY <1>5, <1>9, <3>3 DEF Uses, c, Made, Standing
      <4> QED BY <1>6, <2>2, <3>1, <3>3, <4>1
    <3> QED BY <3>2, <3>3
  <2> QED BY <2>1, <2>2 DEF EveryUseIsCounted, Listed, Uses
<1> QED BY <1>8, <1>10, <1>11 DEF CouponInv

------------------------------------------------------------------------------

\* The step of a request that was answered.
LEMMA DoneStep == Done \in EditSteps /\ Done.pc = "done"
  BY DEF Done, EditSteps

\* POST /coupons keeps the invariant.
LEMMA CreateKeeps == ASSUME CouponInv, NEW q \in Edits, CreateCoupon(q) PROVE CouponInv'
<1>1. PICK form \in Forms :
        IF CodeFree(HostOf[q], form.code, NoCoupon)
        THEN \E c \in Slots : Insert(c, HostOf[q], form)
        ELSE UNCHANGED <<coupons, limits>>
  BY DEF CreateCoupon
<1>2. form \in AllTerms /\ HostOf[q] \in Hosts
  BY CouponsAssumption DEF CouponsAssumption
<1>3. /\ coupons' \in [Slots -> Rows \cup {NoCoupon}] /\ limits' \in [Slots -> Memories] /\ RowsMove
  <2>1. CASE \E c \in Slots : Insert(c, HostOf[q], form)
    BY <1>2, <2>1, InsertedRow
  <2>2. CASE UNCHANGED <<coupons, limits>>
    BY <2>2, SameRows
  <2> QED BY <1>1, <2>1, <2>2
<1>4. Answer(q, Done) /\ UNCHANGED <<checkout, day>>
  BY DEF CreateCoupon
<1> QED BY <1>3, <1>4, DoneStep, HostMoves

\* A batch that begins has inserted nothing.
LEMMA OpenBatchKeeps == ASSUME CouponInv, NEW q \in Edits, OpenBatch(q) PROVE CouponInv'
<1>1. PICK n \in 1..MaxBatch, event \in Events \cup {Everywhere} :
        Answer(q, [pc |-> "batch", left |-> n, tries |-> Attempts, event |-> event])
  BY DEF OpenBatch
<1> DEFINE step == [pc |-> "batch", left |-> n, tries |-> Attempts, event |-> event]
<1>2. step \in EditSteps /\ step.pc = "batch"
  BY CouponsAssumption DEF CouponsAssumption, EditSteps
<1>3. Answer(q, step) /\ UNCHANGED <<coupons, checkout, day, limits>>
  BY <1>1 DEF OpenBatch
<1> HIDE DEF step
<1> QED BY <1>2, <1>3, SameRows, HostMoves

\* Each code of a batch is inserted, or drawn again, or the batch is over.
LEMMA BatchKeeps == ASSUME CouponInv, NEW q \in Edits, BatchCreateCoupons(q) PROVE CouponInv'
<1> DEFINE e == edit[q]
<1>1. /\ e \in [pc: {"batch"}, left: Nat \ {0}, tries: Nat \ {0}, event: Events \cup {Everywhere}]
      /\ e = [pc |-> "batch", left |-> e.left, tries |-> e.tries, event |-> e.event]
  <2>1. e \in EditSteps /\ e.pc = "batch"
    BY DEF CouponInv, CouponTypeOK, BatchCreateCoupons, Is
  <2> HIDE DEF e
  <2>2. e \in [pc: {"batch"}, left: Nat \ {0}, tries: Nat \ {0}, event: Events \cup {Everywhere}]
    BY <2>1 DEF EditSteps
  <2> QED BY <2>2
<1> DEFINE more  == [pc |-> "batch", left |-> e.left - 1, tries |-> Attempts, event |-> e.event]
           again == [pc |-> "batch", left |-> e.left, tries |-> e.tries - 1, event |-> e.event]
<1>2. /\ [e EXCEPT !.left = @ - 1, !.tries = Attempts] = more
      /\ [e EXCEPT !.tries = @ - 1] = again
  <2> DEFINE l == e.left  t == e.tries  v == e.event
  <2>1. e = [pc |-> "batch", left |-> l, tries |-> t, event |-> v]
    BY <1>1
  <2> HIDE DEF e, l, t, v
  <2>2. [e EXCEPT !.tries = t - 1] = [pc |-> "batch", left |-> l, tries |-> t - 1, event |-> v]
    BY <2>1
  <2>3. [e EXCEPT !.left = l - 1] = [pc |-> "batch", left |-> l - 1, tries |-> t, event |-> v]
    BY <2>1
  <2>4. [[e EXCEPT !.left = l - 1] EXCEPT !.tries = Attempts]
          = [pc |-> "batch", left |-> l - 1, tries |-> Attempts, event |-> v]
    <3> DEFINE m == l - 1
    <3>1. [e EXCEPT !.left = m] = [pc |-> "batch", left |-> m, tries |-> t, event |-> v]
      BY <2>3
    <3> HIDE DEF m
    <3>2. [[pc |-> "batch", left |-> m, tries |-> t, event |-> v] EXCEPT !.tries = Attempts]
            = [pc |-> "batch", left |-> m, tries |-> Attempts, event |-> v]
      OBVIOUS
    <3>3. [[e EXCEPT !.left = m] EXCEPT !.tries = Attempts]
            = [pc |-> "batch", left |-> m, tries |-> Attempts, event |-> v]
      BY <3>1, <3>2, Zenon
    <3> QED BY <3>3 DEF m
  <2>5. [e EXCEPT !.left = l - 1, !.tries = Attempts] = [[e EXCEPT !.left = l - 1] EXCEPT !.tries = Attempts]
    OBVIOUS
  <2> QED BY <2>2, <2>4, <2>5 DEF l, t, v
<1>3. /\ e.left # 1 => more \in EditSteps /\ more.pc = "batch"
      /\ e.tries # 1 => again \in EditSteps /\ again.pc = "batch"
  BY <1>1, CouponsAssumption DEF CouponsAssumption, EditSteps
<1>4. PICK code \in Codes :
        IF CodeFree(HostOf[q], code, NoCoupon)
        THEN /\ \E c \in Slots :
                   Insert(c, HostOf[q], [event |-> e.event, code |-> code, max |-> 1,
                            perUser |-> 1, window |-> {TRUE, FALSE}, active |-> TRUE])
             /\ Answer(q, IF e.left = 1 THEN Done ELSE [e EXCEPT !.left = @ - 1, !.tries = Attempts])
        ELSE /\ UNCHANGED <<coupons, limits>>
             /\ Answer(q, IF e.tries = 1 THEN Done ELSE [e EXCEPT !.tries = @ - 1])
  BY DEF BatchCreateCoupons
<1> DEFINE form == [event |-> e.event, code |-> code, max |-> 1,
                    perUser |-> 1, window |-> {TRUE, FALSE}, active |-> TRUE]
<1>5. form \in AllTerms /\ HostOf[q] \in Hosts
  BY <1>1, CouponsAssumption DEF CouponsAssumption, AllTerms, Says, Limits
<1>6. UNCHANGED <<checkout, day>>
  BY DEF BatchCreateCoupons
<1> HIDE DEF form
<1>7. /\ coupons' \in [Slots -> Rows \cup {NoCoupon}] /\ limits' \in [Slots -> Memories] /\ RowsMove
  <2>1. CASE \E c \in Slots : Insert(c, HostOf[q], form)
    BY <1>5, <2>1, InsertedRow
  <2>2. CASE UNCHANGED <<coupons, limits>>
    BY <2>2, SameRows
  <2> QED BY <1>4, <2>1, <2>2 DEF form
<1>8. \E step \in EditSteps : Answer(q, step) /\ step.pc # "read"
  <2> HIDE DEF more, again
  <2>1. CASE Answer(q, IF e.left = 1 THEN Done ELSE more)
    BY <1>3, <2>1, DoneStep
  <2>2. CASE Answer(q, IF e.tries = 1 THEN Done ELSE again)
    BY <1>3, <2>2, DoneStep
  <2>3. Answer(q, IF e.left = 1 THEN Done ELSE more) \/ Answer(q, IF e.tries = 1 THEN Done ELSE again)
    <3> HIDE DEF e
    <3> QED BY <1>2, <1>4
  <2> QED BY <2>1, <2>2, <2>3
<1> QED BY <1>6, <1>7, <1>8, HostMoves

\* An edit reads a row of its own host.
LEMMA ReadKeeps == ASSUME CouponInv, NEW q \in Edits, ReadCoupon(q) PROVE CouponInv'
<1>1. PICK c \in Slots, body \in Bodies :
        /\ Listed(c) /\ coupons[c].host = HostOf[q]
        /\ Answer(q, [pc |-> "read", id |-> c, body |-> body, seen |-> coupons[c]])
  BY DEF ReadCoupon
<1> DEFINE step == [pc |-> "read", id |-> c, body |-> body, seen |-> coupons[c]]
<1>2. coupons[c] \in Rows /\ limits[c].max # {}
  BY <1>1 DEF CouponInv, CouponTypeOK, Listed, TermsRemembered
<1>3. step \in EditSteps /\ step.seen = coupons[c] /\ step.id = c
  BY <1>2 DEF EditSteps
<1>4. Answer(q, step) /\ UNCHANGED <<coupons, checkout, day, limits>>
  BY <1>1 DEF ReadCoupon
<1> HIDE DEF step
<1> QED BY <1>1, <1>2, <1>3, <1>4, SameRows, HostMoves

\* The row an edit writes.
LEMMA UpdatedRow ==
    ASSUME CouponInv, NEW q \in Edits, Is(q, "read"), Listed(edit[q].id)
    PROVE  /\ edit[q].id \in Slots /\ edit[q].seen \in Rows /\ edit[q].body \in Bodies
           /\ [Merged(edit[q].seen, edit[q].body) EXCEPT !.redeemed = coupons[edit[q].id].redeemed] \in Rows
<1>1. edit[q].id \in Slots /\ edit[q].seen \in Rows /\ edit[q].body \in Bodies
  BY DEF CouponInv, CouponTypeOK, EditSteps, Is
<1>2. coupons[edit[q].id] \in Rows
  BY <1>1 DEF CouponInv, CouponTypeOK, Listed
<1> DEFINE next == Merged(edit[q].seen, edit[q].body)  n == coupons[edit[q].id].redeemed
<1>3. next \in Rows /\ n \in Nat
  BY <1>1, <1>2, MergedIsARow DEF Rows
<1> HIDE DEF next, n
<1>4. [next EXCEPT !.redeemed = n] \in Rows
  BY <1>3 DEF Rows
<1> QED BY <1>1, <1>4 DEF next, n

\* An edit writes the terms and leaves the count and the host.
LEMMA UpdateKeeps == ASSUME CouponInv, NEW q \in Edits, UpdateCoupon(q) PROVE CouponInv'
<1> DEFINE c    == edit[q].id
           next == Merged(edit[q].seen, edit[q].body)
           entry  == [next EXCEPT !.redeemed = coupons[c].redeemed]
<1>1. Is(q, "read") /\ Answer(q, Done) /\ UNCHANGED <<checkout, day>>
  BY DEF UpdateCoupon
<1>2. \/ Listed(c) /\ coupons' = [coupons EXCEPT ![c] = entry] /\ Remember(c, next)
      \/ UNCHANGED <<coupons, limits>>
  BY DEF UpdateCoupon
<1>3. CASE Listed(c) /\ coupons' = [coupons EXCEPT ![c] = entry] /\ Remember(c, next)
  <2>1. c \in Slots /\ entry \in Rows /\ edit[q].seen \in Rows /\ edit[q].body \in Bodies
    BY <1>1, <1>3, UpdatedRow
  <2>2. next \in Rows /\ next.host = HostOf[q] /\ coupons[c].host = HostOf[q]
    BY <1>1, <1>3, <2>1, MergedIsARow DEF CouponInv, EditsOfOwnRows
  <2> DEFINE n == coupons[c].redeemed
  <2>3. entry.host = coupons[c].host /\ entry.redeemed = n
        /\ entry.max = next.max /\ entry.perUser = next.perUser
    <3> HIDE DEF next, n, c
    <3>1. entry = [next EXCEPT !.redeemed = n]
      BY DEF n
    <3> HIDE DEF entry
    <3> QED BY <2>2, <3>1 DEF Rows
  <2>4. Remember(c, entry)
    BY <1>3, <2>3 DEF Remember
  <2> HIDE DEF entry, next, c
  <2>5. /\ coupons' \in [Slots -> Rows \cup {NoCoupon}] /\ limits' \in [Slots -> Memories] /\ RowsMove
    BY <1>3, <2>1, <2>3, <2>4, WrittenRow DEF n
  <2> QED BY <1>1, <2>5, DoneStep, HostMoves
<1>4. CASE UNCHANGED <<coupons, limits>>
  BY <1>1, <1>4, SameRows, DoneStep, HostMoves
<1> QED BY <1>2, <1>3, <1>4

\* A coupon that was used is not deleted.
LEMMA DeleteKeeps == ASSUME CouponInv, NEW q \in Edits, DeleteCoupon(q) PROVE CouponInv'
<1>1. PICK c \in Slots :
         /\ Listed(c) /\ coupons[c].host = HostOf[q]
         /\ \A k \in Checkouts : checkout[k].pc \in Made => checkout[k].coupon # c
         /\ coupons' = [coupons EXCEPT ![c] = NoCoupon]
  BY DEF DeleteCoupon
<1>2. Answer(q, Done) /\ UNCHANGED <<checkout, day, limits>>
  BY DEF DeleteCoupon
<1>3. Uses(c) = {}
  BY <1>1 DEF Uses
<1>4. coupons \in [Slots -> Rows \cup {NoCoupon}] /\ limits \in [Slots -> Memories]
  BY DEF CouponInv, CouponTypeOK
<1>5. coupons' \in [Slots -> Rows \cup {NoCoupon}] /\ limits' \in [Slots -> Memories]
  BY <1>1, <1>2, <1>4
<1>6. coupons'[c] = NoCoupon /\ \A d \in Slots \ {c} : coupons'[d] = coupons[d]
  BY <1>1, <1>4
<1>7. RowsMove
  BY <1>2, <1>3, <1>6 DEF RowsMove, Listed, CouponInv, TermsRemembered
<1> QED BY <1>2, <1>5, <1>7, DoneStep, HostMoves

\* Every step keeps the invariant.
LEMMA CouponStep == CouponInv /\ [CouponsNext]_cpVars => CouponInv'
<1> SUFFICES ASSUME CouponInv, [CouponsNext]_cpVars PROVE CouponInv'
  OBVIOUS
<1>1. ASSUME NEW q \in Edits, GiveUpEdit(q) PROVE CouponInv'
  <2>1. Answer(q, Done) /\ UNCHANGED <<coupons, checkout, day, limits>>
    BY <1>1 DEF GiveUpEdit
  <2> QED BY <2>1, SameRows, DoneStep, HostMoves
<1>2. ASSUME NEW k \in Checkouts, Redeem(k) PROVE CouponInv'
  BY <1>2, BookedKeeps, FailedKeeps DEF Redeem
<1>3. ASSUME UNCHANGED <<coupons, edit, checkout, limits>>, day' \in BOOLEAN PROVE CouponInv'
  BY <1>3 DEF CouponInv, CouponTypeOK, TermsRemembered, EditsOfOwnRows, ChoiceStands, CapEverHeld,
              EveryUseIsCounted, CountedUnder, CountedHadBegun, LastCounted, Listed, Is, Bound
<1>4. CASE DayPasses
  BY <1>3, <1>4 DEF DayPasses
<1>5. CASE UNCHANGED cpVars
  BY <1>3, <1>5 DEF cpVars, CouponInv, CouponTypeOK
<1> QED
  BY <1>1, <1>2, <1>4, <1>5, CreateKeeps, OpenBatchKeeps, BatchKeeps, ReadKeeps, UpdateKeeps,
     DeleteKeeps, ValidateKeeps, EndKeeps DEF CouponsNext

\* The invariant holds in every reachable state.
THEOREM CouponInvariant == CouponsSpec => []CouponInv
  BY CouponInitially, CouponStep, PTL DEF CouponsSpec

\* CodesKeepTheirLimits for every table, every number of edits and of
\* checkouts: a code is used at most as often as the largest cap it ever had, a
\* guest's own limit is broken only by bookings made at once, and every use is
\* counted (validateCoupon reads, couponRepo.Redeem writes).
THEOREM CodesAlwaysKeepLimits == CouponsSpec => []CodesKeepTheirLimits
<1>1. CouponInv => CodesKeepTheirLimits
  BY LimitFollows DEF CouponInv, CodesKeepTheirLimits
<1> QED BY <1>1, CouponInvariant, PTL

------------------------------------------------------------------------------

\* What one step does to the terms of a code.
LEMMA EditStep ==
    CouponInv /\ [CouponsNext]_cpVars =>
       [\A c \in Slots, f \in Fields :
          Listed(c) /\ Listed(c)' /\ coupons[c][f] # coupons'[c][f] =>
             \E q \in Edits :
                /\ Is(q, "read") /\ Is(q, "done")' /\ edit[q].id = c
                /\ \/ f \in DOMAIN edit[q].body
                   \/ /\ coupons'[c][f] = edit[q].seen[f]
                      /\ coupons[c][f] # edit[q].seen[f]]_cpVars
<1> SUFFICES ASSUME CouponInv, CouponsNext, NEW c \in Slots, NEW f \in Fields,
                    Listed(c), Listed(c)', coupons[c][f] # coupons'[c][f]
             PROVE  \E q \in Edits :
                        /\ Is(q, "read") /\ Is(q, "done")' /\ edit[q].id = c
                        /\ \/ f \in DOMAIN edit[q].body
                           \/ /\ coupons'[c][f] = edit[q].seen[f]
                              /\ coupons[c][f] # edit[q].seen[f]
  OBVIOUS
<1>1. coupons \in [Slots -> Rows \cup {NoCoupon}] /\ edit \in [Edits -> EditSteps]
  BY DEF CouponInv, CouponTypeOK
<1>2. ASSUME NEW d \in Slots, NEW host, NEW form, Insert(d, host, form) PROVE FALSE
  BY <1>1, <1>2 DEF Insert, Listed
<1>3. ASSUME UNCHANGED coupons PROVE FALSE
  BY <1>3
<1>4. ASSUME NEW k \in Checkouts, Redeem(k) PROVE FALSE
  <2> DEFINE d == checkout[k].coupon
  <2>1. coupons' = [coupons EXCEPT ![d] = [coupons[d] EXCEPT !.redeemed = @ + 1]]
    BY <1>3, <1>4 DEF Redeem
  <2> HIDE DEF d
  <2>2. d = c /\ coupons[d] \in Rows /\ coupons'[d] = [coupons[d] EXCEPT !.redeemed = @ + 1]
    BY <1>1, <2>1 DEF Listed
  <2>3. [coupons[d] EXCEPT !.redeemed = @ + 1][f] = coupons[d][f]
    <3> DEFINE r == coupons[d]  n == r.redeemed + 1
    <3>1. r \in Rows /\ f \in DOMAIN r /\ f # "redeemed"
      BY <2>2, FieldsOfARow
    <3> HIDE DEF r, n
    <3>2. [r EXCEPT !.redeemed = n][f] = r[f]
      BY <3>1
    <3> QED BY <3>2 DEF r, n
  <2> QED BY <2>2, <2>3
<1>5. ASSUME NEW q \in Edits, DeleteCoupon(q) PROVE FALSE
  BY <1>1, <1>5 DEF DeleteCoupon, Listed
<1>6. ASSUME NEW q \in Edits, UpdateCoupon(q)
      PROVE  /\ Is(q, "read") /\ Is(q, "done")' /\ edit[q].id = c
             /\ \/ f \in DOMAIN edit[q].body
                \/ /\ coupons'[c][f] = edit[q].seen[f]
                   /\ coupons[c][f] # edit[q].seen[f]
  <2> DEFINE d    == edit[q].id
             next == Merged(edit[q].seen, edit[q].body)
             entry  == [next EXCEPT !.redeemed = coupons[d].redeemed]
  <2>1. Is(q, "read") /\ Answer(q, Done)
    BY <1>6 DEF UpdateCoupon
  <2>2. edit'[q].pc = "done"
    BY <1>1, <2>1, DoneStep DEF Answer
  <2>3. Listed(d) /\ coupons' = [coupons EXCEPT ![d] = entry]
    BY <1>3, <1>6 DEF UpdateCoupon
  <2>4. d \in Slots /\ edit[q].seen \in Rows /\ edit[q].body \in Bodies
    BY <2>1, <2>3, UpdatedRow
  <2>5. next \in Rows /\ next[f] = IF f \in DOMAIN edit[q].body THEN edit[q].body[f] ELSE edit[q].seen[f]
    BY <2>4, MergedIsARow
  <2>6. entry[f] = next[f]
    <3> DEFINE n == coupons[d].redeemed
    <3>1. f \in DOMAIN next /\ f # "redeemed"
      BY <2>5, FieldsOfARow
    <3> HIDE DEF next, n
    <3>2. [next EXCEPT !.redeemed = n][f] = next[f]
      BY <2>5, <3>1
    <3> QED BY <3>2 DEF n
  <2> HIDE DEF entry, next
  <2>7. d = c
    BY <1>1, <2>3
  <2>8. coupons'[c][f] = next[f]
    BY <1>1, <2>3, <2>6, <2>7
  <2> QED BY <2>1, <2>2, <2>5, <2>7, <2>8 DEF Is
<1>7. ASSUME NEW q \in Edits, CreateCoupon(q) \/ BatchCreateCoupons(q) PROVE FALSE
  BY <1>2, <1>3, <1>7 DEF CreateCoupon, BatchCreateCoupons
<1>8. ASSUME NEW q \in Edits, OpenBatch(q) \/ ReadCoupon(q) \/ GiveUpEdit(q) PROVE FALSE
  BY <1>3, <1>8 DEF OpenBatch, ReadCoupon, GiveUpEdit
<1>9. ASSUME NEW k \in Checkouts, ValidateCoupon(k) \/ EndBooking(k) PROVE FALSE
  BY <1>3, <1>9 DEF ValidateCoupon, EndBooking
<1>10. CASE DayPasses
  BY <1>3, <1>10 DEF DayPasses
<1> QED BY <1>4, <1>5, <1>6, <1>7, <1>8, <1>9, <1>10 DEF CouponsNext

\* EditsLostOnlyByOverlap for every table, every number of edits and any
\* bodies: a term changes only by an edit that names it, or by one that puts back
\* what it had read (UpdateCoupon writes the whole row).
THEOREM EditsAlwaysAccountedFor == CouponsSpec => EditsLostOnlyByOverlap
  BY CouponInvariant, EditStep, PTL DEF CouponsSpec, EditsLostOnlyByOverlap

------------------------------------------------------------------------------
(* The limiter.                                                            *)


\* A bucket is written when it is seen, or earlier.
WrittenWhenSeen == \A k \in Callers : buckets[k] # NoBucket => buckets[k].last <= buckets[k].seen

\* The inductive invariant.
ThrottleInv == ThrottleTypeOK /\ WrittenWhenSeen /\ GrantsBounded

\* Capping a number keeps it within the bucket.
LEMMA CappedBounds ==
    ASSUME NEW n \in Nat
    PROVE  /\ Capped(n) \in 0..Burst /\ Capped(n) <= n
           /\ Capped(n + 1) <= Capped(n) + 1
           /\ n >= Burst => Capped(n) = Burst
           /\ n <= Burst => Capped(n) = n
  BY ThrottleAssumption DEF Capped, ThrottleAssumption

\* A bucket that is there has its fields, and one that is made is full.
LEMMA BucketFields ==
    ASSUME ThrottleInv, NEW k \in Callers
    PROVE  /\ Bucket(k).tokens \in 0..Burst
           /\ Bucket(k).last \in 0..instant /\ Bucket(k).seen \in 0..instant
           /\ Bucket(k).last <= Bucket(k).seen
           /\ Bucket(k) = [tokens |-> Bucket(k).tokens, last |-> Bucket(k).last,
                           seen |-> Bucket(k).seen]
           /\ Bucket(k).tokens + instant - Bucket(k).last \in Nat
           /\ Level(k) \in 0..Burst
<1>1. CASE buckets[k] = NoBucket
  <2>1. Bucket(k) = [tokens |-> Burst, last |-> instant, seen |-> instant]
    BY <1>1 DEF Bucket
  <2>2. Burst \in Nat /\ instant \in Nat
    BY ThrottleAssumption DEF ThrottleAssumption, ThrottleInv, ThrottleTypeOK
  <2>3. Burst + instant - instant = Burst
    BY <2>2
  <2> QED BY <2>1, <2>2, <2>3, CappedBounds DEF Level
<1>2. CASE buckets[k] # NoBucket
  <2>1. /\ Bucket(k) = buckets[k]
        /\ buckets[k] \in [tokens: 0..Burst, last: 0..instant, seen: 0..instant]
        /\ buckets[k].last <= buckets[k].seen
    BY <1>2 DEF Bucket, ThrottleInv, ThrottleTypeOK, WrittenWhenSeen
  <2>2. Burst \in Nat /\ instant \in Nat
    BY ThrottleAssumption DEF ThrottleAssumption, ThrottleInv, ThrottleTypeOK
  <2>3. buckets[k].tokens + instant - buckets[k].last \in Nat
    BY <2>1, <2>2
  <2> QED BY <2>1, <2>2, <2>3, CappedBounds DEF Level
<1> QED BY <1>1, <1>2

\* Nobody else's level moves while the clock stands still.
LEMMA OthersKeepTheirs ==
    ASSUME ThrottleInv, instant' = instant, NEW j \in Callers, buckets'[j] = buckets[j]
    PROVE  Bucket(j)' = Bucket(j) /\ Level(j)' = Level(j)
  BY DEF Bucket, Level, Capped

\* The initial states satisfy the invariant.
LEMMA InvInit == ThrottleInit => ThrottleInv
<1> SUFFICES ASSUME ThrottleInit PROVE ThrottleInv
  OBVIOUS
<1>1. ThrottleTypeOK
  BY DEF ThrottleInit, ThrottleTypeOK
<1>2. WrittenWhenSeen
  BY DEF ThrottleInit, WrittenWhenSeen
<1>3. GrantsBounded
  <2> SUFFICES ASSUME NEW k \in Callers PROVE granted[k] + Level(k) <= Burst + instant
    BY DEF GrantsBounded
  <2>1. granted[k] = 0 /\ instant = 0 /\ Burst \in Nat
    BY ThrottleAssumption DEF ThrottleAssumption, ThrottleInit
  <2>2. Bucket(k) = [tokens |-> Burst, last |-> 0, seen |-> 0]
    BY DEF Bucket, ThrottleInit
  <2>3. Bucket(k).tokens + instant - Bucket(k).last = Burst
    BY <2>1, <2>2
  <2>4. Level(k) = Burst
    BY <2>1, <2>3, CappedBounds DEF Level
  <2> QED BY <2>1, <2>4
<1> QED BY <1>1, <1>2, <1>3 DEF ThrottleInv

\* A step that writes one bucket, at this instant, keeps the invariant if the
\* bucket fits and the caller's sum stays within its bound.
LEMMA OneBucketWritten ==
    ASSUME ThrottleInv, instant' = instant, NEW k \in Callers,
           NEW b \in [tokens: 0..Burst, last: 0..instant, seen: 0..instant] \cup {NoBucket},
           NEW g \in Nat,
           buckets' = [buckets EXCEPT ![k] = b], granted' = [granted EXCEPT ![k] = g],
           b # NoBucket => b.last <= b.seen,
           g + Level(k)' <= Burst + instant
    PROVE  ThrottleInv'
<1>1. ThrottleTypeOK'
  BY DEF ThrottleInv, ThrottleTypeOK
<1>2. WrittenWhenSeen'
  BY DEF ThrottleInv, ThrottleTypeOK, WrittenWhenSeen
<1>3. GrantsBounded'
  <2> SUFFICES ASSUME NEW j \in Callers PROVE granted'[j] + Level(j)' <= Burst + instant'
    BY DEF GrantsBounded
  <2>1. CASE j = k
    BY <2>1 DEF ThrottleInv, ThrottleTypeOK
  <2>2. CASE j # k
    <3>1. buckets'[j] = buckets[j] /\ granted'[j] = granted[j]
      BY <2>2 DEF ThrottleInv, ThrottleTypeOK
    <3>2. Level(j)' = Level(j)
      BY <3>1, OthersKeepTheirs
    <3> QED BY <3>1, <3>2 DEF ThrottleInv, GrantsBounded
  <2> QED BY <2>1, <2>2
<1> QED BY <1>1, <1>2, <1>3 DEF ThrottleInv

\* An attempt that is granted.
LEMMA AllowKeepsInv ==
    ASSUME ThrottleInv, NEW k \in Callers, Allow(k)
    PROVE  ThrottleInv'
<1> DEFINE b == [tokens |-> Level(k) - Token, last |-> instant, seen |-> instant]
<1>1. Token \in Nat \ {0} /\ Burst \in Nat /\ instant \in Nat /\ granted[k] \in Nat
  BY ThrottleAssumption DEF ThrottleAssumption, ThrottleInv, ThrottleTypeOK
<1>2. Level(k) \in 0..Burst /\ Level(k) >= Token
  BY BucketFields DEF Allow
<1>3. Level(k) - Token \in 0..Burst
  BY <1>1, <1>2
<1>4. b \in [tokens: 0..Burst, last: 0..instant, seen: 0..instant] /\ b.last <= b.seen
  BY <1>1, <1>3
<1>5. buckets' = [buckets EXCEPT ![k] = b] /\ instant' = instant
      /\ granted' = [granted EXCEPT ![k] = granted[k] + Token]
  BY DEF Allow
<1>6. Level(k)' = Level(k) - Token
  <2>1. buckets'[k] = b
    BY <1>5 DEF ThrottleInv, ThrottleTypeOK
  <2>2. b # NoBucket
    BY <1>1, <1>2, <1>3, ThrottleAssumption DEF ThrottleAssumption
  <2>3. Bucket(k)' = b
    BY <2>1, <2>2 DEF Bucket
  <2>4. (Bucket(k).tokens + instant - Bucket(k).last)' = Level(k) - Token
    BY <1>1, <1>2, <1>5, <2>3
  <2>5. Capped(Level(k) - Token) = Level(k) - Token
    BY <1>1, <1>3, CappedBounds
  <2>6. Level(k)' = Capped((Bucket(k).tokens + instant - Bucket(k).last)')
    BY DEF Level, Capped
  <2> QED BY <2>4, <2>5, <2>6
<1>7. granted[k] + Token + Level(k)' <= Burst + instant
  <2>1. granted[k] + Level(k) <= Burst + instant
    BY DEF ThrottleInv, GrantsBounded
  <2> QED BY <1>1, <1>2, <1>6, <2>1
<1>8. granted[k] + Token \in Nat
  BY <1>1
<1> QED BY <1>4, <1>5, <1>7, <1>8, OneBucketWritten

\* An attempt that is refused writes when it was seen, nothing more.
LEMMA RefuseKeepsInv ==
    ASSUME ThrottleInv, NEW k \in Callers, Refuse(k)
    PROVE  ThrottleInv'
<1> DEFINE b == [Bucket(k) EXCEPT !.seen = instant]
<1>1. Burst \in Nat /\ instant \in Nat /\ granted[k] \in Nat
  BY ThrottleAssumption DEF ThrottleAssumption, ThrottleInv, ThrottleTypeOK
<1>2. /\ b = [tokens |-> Bucket(k).tokens, last |-> Bucket(k).last, seen |-> instant]
      /\ Bucket(k).tokens \in 0..Burst /\ Bucket(k).last \in 0..instant
  BY BucketFields
<1>3. b \in [tokens: 0..Burst, last: 0..instant, seen: 0..instant] /\ b.last <= b.seen
  BY <1>1, <1>2
<1>4. buckets' = [buckets EXCEPT ![k] = b] /\ instant' = instant /\ granted' = granted
  BY DEF Refuse
<1>5. granted' = [granted EXCEPT ![k] = granted[k]]
  BY <1>4 DEF ThrottleInv, ThrottleTypeOK
<1>6. Level(k)' = Level(k)
  <2>1. buckets'[k] = b
    BY <1>4 DEF ThrottleInv, ThrottleTypeOK
  <2>2. b # NoBucket
    BY <1>1, <1>2, ThrottleAssumption DEF ThrottleAssumption
  <2>3. Bucket(k)' = b
    BY <2>1, <2>2 DEF Bucket
  <2>4. (Bucket(k).tokens + instant - Bucket(k).last)' = Bucket(k).tokens + instant - Bucket(k).last
    BY <1>2, <1>4, <2>3
  <2> QED BY <2>4 DEF Level, Capped
<1>7. granted[k] + Level(k)' <= Burst + instant
  BY <1>6 DEF ThrottleInv, GrantsBounded
<1> QED BY <1>1, <1>3, <1>4, <1>5, <1>7, OneBucketWritten

\* A bucket that is dropped was full: its last write is longer ago than it takes
\* to fill it.
LEMMA SweepKeepsInv ==
    ASSUME ThrottleInv, NEW k \in Callers, Sweep(k)
    PROVE  ThrottleInv'
<1>1. /\ Burst \in Nat /\ IdleFor \in Nat /\ IdleFor >= Burst
      /\ instant \in Nat /\ granted[k] \in Nat
  BY ThrottleAssumption DEF ThrottleAssumption, ThrottleInv, ThrottleTypeOK
<1>2. /\ Bucket(k) = buckets[k] /\ instant - Bucket(k).seen > IdleFor
      /\ buckets' = [buckets EXCEPT ![k] = NoBucket] /\ instant' = instant /\ granted' = granted
  BY DEF Sweep, Dormant, Bucket
<1>3. /\ Bucket(k).tokens \in Nat /\ Bucket(k).last \in Nat /\ Bucket(k).seen \in Nat
      /\ Bucket(k).last <= Bucket(k).seen
  BY BucketFields
<1>4. Bucket(k).tokens + instant - Bucket(k).last >= Burst
  BY <1>1, <1>2, <1>3
<1>5. Level(k) = Burst
  BY <1>4, BucketFields, CappedBounds DEF Level
<1>6. Level(k)' = Burst
  <2>1. buckets'[k] = NoBucket
    BY <1>2 DEF ThrottleInv, ThrottleTypeOK
  <2>2. Bucket(k)' = [tokens |-> Burst, last |-> instant, seen |-> instant]
    BY <1>2, <2>1 DEF Bucket
  <2>3. (Bucket(k).tokens + instant - Bucket(k).last)' = Burst
    BY <1>1, <1>2, <2>2
  <2>4. Capped(Burst) = Burst
    BY <1>1, CappedBounds
  <2> QED BY <2>3, <2>4 DEF Level, Capped
<1>7. granted[k] + Level(k)' <= Burst + instant
  BY <1>5, <1>6 DEF ThrottleInv, GrantsBounded
<1>8. granted' = [granted EXCEPT ![k] = granted[k]]
  BY <1>2 DEF ThrottleInv, ThrottleTypeOK
<1> QED BY <1>1, <1>2, <1>7, <1>8, OneBucketWritten

\* An instant adds at most one grain to a level, and one to the bound.
LEMMA ElapseKeepsInv ==
    ASSUME ThrottleInv, Elapse
    PROVE  ThrottleInv'
<1>1. instant \in Nat /\ instant' = instant + 1 /\ buckets' = buckets /\ granted' = granted /\ Burst \in Nat
  BY ThrottleAssumption DEF ThrottleAssumption, ThrottleInv, ThrottleTypeOK, Elapse
<1>2. ThrottleTypeOK'
  <2>1. (0..instant) \subseteq (0..instant')
    BY <1>1
  <2> QED BY <1>1, <2>1 DEF ThrottleInv, ThrottleTypeOK
<1>3. WrittenWhenSeen'
  BY <1>1 DEF ThrottleInv, WrittenWhenSeen
<1>4. GrantsBounded'
  <2> SUFFICES ASSUME NEW k \in Callers PROVE granted'[k] + Level(k)' <= Burst + instant'
    BY DEF GrantsBounded
  <2>1. granted[k] \in Nat /\ granted[k] + Level(k) <= Burst + instant /\ Level(k) \in 0..Burst
    BY BucketFields DEF ThrottleInv, ThrottleTypeOK, GrantsBounded
  <2>2. Level(k)' \in Nat /\ Level(k)' <= Level(k) + 1
    <3>1. CASE buckets[k] = NoBucket
      <4>1. Bucket(k) = [tokens |-> Burst, last |-> instant, seen |-> instant]
            /\ Bucket(k)' = [tokens |-> Burst, last |-> instant', seen |-> instant']
        BY <1>1, <3>1 DEF Bucket
      <4>2. /\ Bucket(k).tokens + instant - Bucket(k).last = Burst
            /\ (Bucket(k).tokens + instant - Bucket(k).last)' = Burst
        BY <1>1, <4>1
      <4>3. Level(k)' = Level(k)
        BY <4>2 DEF Level, Capped
      <4> QED BY <2>1, <4>3
    <3>2. CASE buckets[k] # NoBucket
      <4>1. Bucket(k)' = Bucket(k)
        BY <1>1, <3>2 DEF Bucket
      <4> DEFINE n == Bucket(k).tokens + instant - Bucket(k).last
      <4>2. n \in Nat /\ Bucket(k).tokens \in Nat /\ Bucket(k).last \in Nat
        BY BucketFields
      <4>3. (Bucket(k).tokens + instant - Bucket(k).last)' = n + 1
        BY <1>1, <4>1, <4>2
      <4>4. Level(k)' = Capped(n + 1) /\ Level(k) = Capped(n)
        BY <4>3 DEF Level, Capped
      <4>5. Capped(n + 1) \in 0..Burst /\ Capped(n + 1) <= Capped(n) + 1
        <5> HIDE DEF n
        <5> QED BY <4>2, CappedBounds
      <4> QED BY <4>4, <4>5, <1>1
    <3> QED BY <3>1, <3>2
  <2> QED BY <1>1, <2>1, <2>2
<1> QED BY <1>2, <1>3, <1>4 DEF ThrottleInv

\* Every step keeps the invariant.
LEMMA StepKeepsInv == ThrottleInv /\ [ThrottleNext]_thVars => ThrottleInv'
<1> SUFFICES ASSUME ThrottleInv, [ThrottleNext]_thVars PROVE ThrottleInv'
  OBVIOUS
<1>1. ASSUME NEW k \in Callers, Allow(k) PROVE ThrottleInv'
  BY <1>1, AllowKeepsInv
<1>2. ASSUME NEW k \in Callers, Refuse(k) PROVE ThrottleInv'
  BY <1>2, RefuseKeepsInv
<1>3. ASSUME NEW k \in Callers, Sweep(k) PROVE ThrottleInv'
  BY <1>3, SweepKeepsInv
<1>4. CASE Elapse
  BY <1>4, ElapseKeepsInv
<1>5. CASE UNCHANGED thVars
  BY <1>5 DEF thVars, ThrottleInv, ThrottleTypeOK, WrittenWhenSeen, GrantsBounded, Level, Bucket
<1> QED BY <1>1, <1>2, <1>3, <1>4, <1>5 DEF ThrottleNext

\* Forgetting a caller never hands out a token, for every burst, rate and
\* patience that a bucket refills within.
THEOREM ThrottleGrantsBounded == ThrottleSpec => []GrantsBounded
<1>1. ThrottleSpec => []ThrottleInv
  BY InvInit, StepKeepsInv, PTL DEF ThrottleSpec
<1>2. ThrottleInv => GrantsBounded
  BY DEF ThrottleInv
<1> QED BY <1>1, <1>2, PTL

\* The type invariant, of the same induction.
THEOREM ThrottleTypes == ThrottleSpec => []ThrottleTypeOK
<1>1. ThrottleSpec => []ThrottleInv
  BY InvInit, StepKeepsInv, PTL DEF ThrottleSpec
<1>2. ThrottleInv => ThrottleTypeOK
  BY DEF ThrottleInv
<1> QED BY <1>1, <1>2, PTL

==============================================================================
