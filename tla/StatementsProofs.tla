---------------------------- MODULE StatementsProofs ----------------------------
(***************************************************************************)
(* Proofs about the pages of money, for any bookings, passes, withdrawals, *)
(* guests, hosts and prices: written query by query they agree, and a page *)
(* of several statements is wrong only by what was written meanwhile.      *)
(*                                                                         *)
(* That they agree follows from an invariant of the rows: a wallet, its    *)
(* ledger, a host's total and a host's ledger are each what the live       *)
(* bookings and passes come to, less what withdrawals took; and of each    *)
(* withdrawal of which every write went through, where it may stand        *)
(* between its request, the provider and the webhooks.  The rest takes     *)
(* sums apart, by guest, by host and by kind of payment.                   *)
(*                                                                         *)
(* For the reader of a list the invariant counts, of what was there when   *)
(* the list was opened, what has come to stand before the pages that were  *)
(* read without having been seen.  It never outgrows what has left: one    *)
(* that leaves pulls the others up by one place, and only one stands at    *)
(* the boundary; one that joins pushes them on, into pages still to come.  *)
(***************************************************************************)
EXTENDS Statements, Sums

------------------------------------------------------------------------------
(* A list, newest first.                                                   *)

\* What a booking has before it in a list, newest first.
Newer(S, b) == {c \in S : c > b}
Place(S, b) == Cardinality(Newer(S, b))

\* Bookings are finitely many numbers.
LEMMA SalesFinite ==
    /\ IsFiniteSet(Sales) /\ Sales \subseteq Int
    /\ \A S \in SUBSET Sales : IsFiniteSet(S) /\ Cardinality(S) \in Nat
<1>1. IsFiniteSet(Sales) /\ Sales = 1..Cardinality(Sales)
  BY StatementsAssumption
<1>2. Sales \subseteq Int
  <2>1. Cardinality(Sales) \in Nat
    BY <1>1, FS_CardinalityType
  <2> QED BY <1>1, <2>1
<1> QED BY <1>1, <1>2, FS_Subset, FS_CardinalityType

\* A place counts bookings of the list.
LEMMA PlaceType ==
    ASSUME NEW S \in SUBSET Sales, NEW b
    PROVE  Newer(S, b) \in SUBSET S /\ Newer(S, b) \in SUBSET Sales /\ Place(S, b) \in Nat
  BY SalesFinite DEF Newer, Place

\* More bookings push a booking on, and of two the older one stands further on.
LEMMA PlaceGrows ==
    ASSUME NEW S \in SUBSET Sales, NEW T \in SUBSET S, NEW b
    PROVE  Place(T, b) <= Place(S, b)
<1>1. Newer(T, b) \in SUBSET Newer(S, b)
  BY DEF Newer
<1>2. IsFiniteSet(Newer(S, b))
  BY PlaceType, SalesFinite
<1>3. Cardinality(Newer(T, b)) <= Cardinality(Newer(S, b))
  BY <1>1, <1>2, FS_Subset
<1> QED BY <1>3 DEF Place

\* Of two bookings of a list the older one stands further on.
LEMMA PlacesDiffer ==
    ASSUME NEW S \in SUBSET Sales, NEW b \in S, NEW c \in S, b < c
    PROVE  Place(S, c) < Place(S, b)
<1>1. b \in Int /\ c \in Int
  BY SalesFinite
<1>2. Newer(S, c) \in SUBSET Newer(S, b)
  <2>1. \A d \in S : d \in Int
    BY SalesFinite
  <2>2. \A d \in S : d > c => d > b
    BY <1>1, <2>1
  <2> QED BY <2>2 DEF Newer
<1>3. c \in Newer(S, b) /\ c \notin Newer(S, c)
  BY <1>1 DEF Newer
<1>4. IsFiniteSet(Newer(S, b)) /\ Place(S, c) \in Nat /\ Place(S, b) \in Nat
  BY PlaceType, SalesFinite
<1>5. Place(S, c) <= Place(S, b) /\ (Place(S, c) = Place(S, b) => Newer(S, b) = Newer(S, c))
  BY <1>2, <1>4, FS_Subset DEF Place
<1> QED BY <1>3, <1>4, <1>5

\* No two bookings of a list stand at one place.
LEMMA PlaceOfOne ==
    ASSUME NEW S \in SUBSET Sales, NEW b \in S, NEW c \in S, Place(S, b) = Place(S, c)
    PROVE  b = c
<1>1. b \in Int /\ c \in Int /\ Place(S, b) \in Nat /\ Place(S, c) \in Nat
  BY SalesFinite, PlaceType
<1>2. CASE b < c
  BY <1>1, <1>2, PlacesDiffer
<1>3. CASE c < b
  BY <1>1, <1>3, PlacesDiffer
<1> QED BY <1>1, <1>2, <1>3

\* One that leaves pulls those behind it up by one.
LEMMA PlaceWithout ==
    ASSUME NEW S \in SUBSET Sales, NEW e, NEW b
    PROVE  Place(S, b) <= Place(S \ {e}, b) + 1
<1>1. Newer(S \ {e}, b) = Newer(S, b) \ {e}
  BY DEF Newer
<1>2. IsFiniteSet(Newer(S, b)) /\ Cardinality(Newer(S, b)) \in Nat
  BY PlaceType, SalesFinite DEF Place
<1> DEFINE N == Newer(S, b)
<1>3. Cardinality(N \ {e}) = IF e \in N THEN Cardinality(N) - 1 ELSE Cardinality(N)
  BY <1>2, FS_RemoveElement
<1>4. Cardinality(N) <= Cardinality(N \ {e}) + 1
  BY <1>2, <1>3
<1> QED BY <1>1, <1>4 DEF Place

\* The last of a set of bookings to be sold.
LEMMA LastSold ==
    ASSUME NEW S \in SUBSET Sales, S # {}
    PROVE  \E t \in S : \A c \in S : c <= t
<1> DEFINE Good == {T \in SUBSET S : T = {} \/ \E t \in T : \A c \in T : c <= t}
<1>1. {} \in Good
  OBVIOUS
<1>2. ASSUME NEW T \in SUBSET S, T # {}, \A x \in T : T \ {x} \in Good PROVE T \in Good
  <2>1. PICK x \in T : TRUE
    BY <1>2
  <2>2. T \subseteq Int
    BY SalesFinite
  <2>3. CASE T \ {x} = {}
    <3>1. \A c \in T : c <= x
      BY <2>1, <2>2, <2>3
    <3> QED BY <2>1, <3>1
  <2>4. CASE T \ {x} # {}
    <3>1. PICK t \in T \ {x} : \A c \in T \ {x} : c <= t
      BY <1>2, <2>1, <2>4
    <3>2. CASE x <= t
      <4>1. \A c \in T : c <= t
        BY <3>1, <3>2
      <4> QED BY <3>1, <4>1
    <3>3. CASE ~(x <= t)
      <4>1. t <= x /\ x <= x
        BY <2>1, <2>2, <3>1, <3>3
      <4>2. \A c \in T : c <= x
        BY <2>2, <3>1, <4>1, <2>1
      <4> QED BY <2>1, <4>2
    <3> QED BY <3>2, <3>3
  <2> QED BY <2>3, <2>4
<1> HIDE DEF Good
<1>3. \A T \in SUBSET S : T \in Good
  BY <1>1, <1>2, SalesFinite, SubsetInduction
<1> QED BY <1>3 DEF Good

\* Only so many stand beyond a place.
LEMMA FewBeyond ==
    ASSUME NEW S \in SUBSET Sales, NEW k \in Nat
    PROVE  LET T == {b \in S : Place(S, b) >= k}
           IN  Cardinality(T) = 0 \/ Cardinality(T) + k <= Cardinality(S)
<1> DEFINE T == {b \in S : Place(S, b) >= k}
<1>0. T \in SUBSET Sales /\ IsFiniteSet(T) /\ Cardinality(T) \in Nat /\ IsFiniteSet(S) /\ Cardinality(S) \in Nat
  BY SalesFinite
<1>1. CASE T = {}
  BY <1>1, FS_EmptySet
<1>2. CASE T # {}
  <2>1. PICK t \in T : \A c \in T : c <= t
    BY <1>0, <1>2, LastSold
  <2>2. Newer(S, t) \in SUBSET S /\ Newer(S, t) \cap T = {}
    <3>1. \A c \in T : ~(c > t)
      <4>1. T \subseteq Int
        BY SalesFinite
      <4> QED BY <2>1, <4>1
    <3> QED BY <3>1 DEF Newer
  <2>3. Place(S, t) >= k /\ Place(S, t) \in Nat
    BY <2>1, PlaceType
  <2>4. T \in SUBSET (S \ Newer(S, t))
    BY <2>2
  <2>5. /\ IsFiniteSet(S \ Newer(S, t))
        /\ Cardinality(S \ Newer(S, t)) = Cardinality(S) - Place(S, t)
    <3>1. IsFiniteSet(Newer(S, t))
      BY SalesFinite, <2>2
    <3>2. S \cap Newer(S, t) = Newer(S, t)
      BY <2>2
    <3> QED BY <1>0, <3>1, <3>2, FS_Difference DEF Place
  <2>6. Cardinality(T) <= Cardinality(S) - Place(S, t)
    BY <2>4, <2>5, FS_Subset
  <2> QED BY <1>0, <2>3, <2>6
<1> QED BY <1>1, <1>2

------------------------------------------------------------------------------
(* One who turns the pages of a list.                                      *)

\* How far the pages read so far reach, and what of the list, as it was when it
\* was opened, has come to stand before that without having been seen.
Reach(r)      == IF r.pc = "rows" THEN (r.number - 1) * PageSize ELSE r.number * PageSize
Stays(r)      == r.start \ r.left
Skipped(r, S) == {b \in Stays(r) \ r.seen : Place(S, b) < Reach(r)}

Filters == {"", "confirmed", "refunded"}
Turning == [page : {"bookings"}, pc : {"rows", "count"}, filter : Filters, number : Nat \ {0},
            total : Nat, start : SUBSET Sales, seen : SUBSET Sales, left : SUBSET Sales,
            late : SUBSET Sales]

\* No more was skipped than has left, nor has the list grown by more than what
\* came late.
ListTrue(r, S) ==
    /\ Stays(r) \subseteq S
    /\ r.late \subseteq S \cup r.left
    /\ r.pc = "rows" => Cardinality(S) <= r.total + Cardinality(r.late)
    /\ Cardinality(Skipped(r, S)) <= Cardinality(r.left)

\* A reach is a number of bookings.
LEMMA ReachType == ASSUME NEW r \in Turning PROVE Reach(r) \in Nat
<1>1. r.number \in Nat /\ r.number - 1 \in Nat /\ PageSize \in Nat
  BY StatementsAssumption DEF Turning
<1> QED BY <1>1 DEF Reach

\* What was skipped is a set of bookings.
LEMMA SkippedType == ASSUME NEW r \in Turning, NEW S PROVE Skipped(r, S) \in SUBSET Sales
  BY DEF Skipped, Stays, Turning

\* What a write does to the list, as far as the reader can tell.
Recorded(r, S, T) ==
    [r EXCEPT !.left = @ \cup (S \ T),
              !.late = IF r.pc = "rows" THEN @ \cup (T \ S) ELSE @]

\* A write that leaves the list alone leaves its reader alone.
LEMMA SameList ==
    ASSUME NEW r \in Turning, NEW S
    PROVE  Recorded(r, S, S) = r
<1>1. r.left \cup (S \ S) = r.left /\ r.late \cup (S \ S) = r.late
  OBVIOUS
<1> QED BY <1>1 DEF Recorded, Turning

\* A booking that joins a list pushes others on: no more is skipped.
LEMMA OneJoins ==
    ASSUME NEW r \in Turning, NEW S \in SUBSET Sales, ListTrue(r, S),
           NEW e \in Sales \ S, e \notin r.left,
           NEW T, T = S \cup {e}, NEW q, q = Recorded(r, S, T)
    PROVE  ListTrue(q, T)
<1>1. T \in SUBSET Sales /\ S \ T = {} /\ T \ S = {e}
  OBVIOUS
<1>2. /\ q \in Turning /\ q.pc = r.pc /\ q.start = r.start /\ q.seen = r.seen /\ q.total = r.total
      /\ q.left = r.left /\ q.late = (IF r.pc = "rows" THEN r.late \cup {e} ELSE r.late)
      /\ Reach(q) = Reach(r)
  <2>1. /\ q \in Turning /\ q.pc = r.pc /\ q.start = r.start /\ q.seen = r.seen /\ q.total = r.total
        /\ q.left = r.left \cup (S \ T)
        /\ q.late = IF r.pc = "rows" THEN r.late \cup (T \ S) ELSE r.late
        /\ Reach(q) = Reach(r)
    BY <1>1 DEF Recorded, Turning, Reach
  <2> QED BY <1>1, <2>1
<1>3. Stays(q) \subseteq T /\ q.late \subseteq T \cup q.left
  BY <1>2 DEF ListTrue, Stays
<1>4. ASSUME q.pc = "rows" PROVE Cardinality(T) <= q.total + Cardinality(q.late)
  <2>1. e \notin r.late
    BY DEF ListTrue
  <2>2. Cardinality(T) = Cardinality(S) + 1 /\ Cardinality(r.late \cup {e}) = Cardinality(r.late) + 1
    <3>1. IsFiniteSet(S) /\ IsFiniteSet(r.late)
      BY SalesFinite DEF Turning
    <3> QED BY <2>1, <3>1, FS_AddElement
  <2>3. r.total \in Nat /\ Cardinality(S) \in Nat /\ Cardinality(r.late) \in Nat
    BY SalesFinite DEF Turning
  <2>4. Cardinality(S) <= r.total + Cardinality(r.late)
    BY <1>2, <1>4 DEF ListTrue
  <2>5. q.late = r.late \cup {e} /\ q.total = r.total
    BY <1>2, <1>4
  <2>6. Cardinality(T) <= r.total + Cardinality(r.late \cup {e})
    BY <2>2, <2>3, <2>4
  <2> QED BY <2>5, <2>6
<1>5. Cardinality(Skipped(q, T)) <= Cardinality(q.left)
  <2>1. Skipped(q, T) \in SUBSET Skipped(r, S)
    <3>1. ASSUME NEW b, Place(T, b) < Reach(r) PROVE Place(S, b) < Reach(r)
      BY <3>1, <1>1, PlaceGrows, PlaceType, ReachType
    <3> QED BY <3>1, <1>2 DEF Skipped, Stays
  <2>2. Skipped(r, S) \in SUBSET Sales
    BY SkippedType
  <2>3. Cardinality(Skipped(q, T)) <= Cardinality(Skipped(r, S))
    BY <2>1, <2>2, SalesFinite, FS_Subset
  <2>4. Cardinality(Skipped(r, S)) <= Cardinality(r.left)
    BY DEF ListTrue
  <2>5. /\ Cardinality(Skipped(q, T)) \in Nat /\ Cardinality(Skipped(r, S)) \in Nat
        /\ Cardinality(r.left) \in Nat
    BY <2>1, <2>2, SalesFinite DEF Turning
  <2> QED BY <1>2, <2>3, <2>4, <2>5
<1> QED BY <1>3, <1>4, <1>5 DEF ListTrue

\* One that leaves lets at most one slip before the reach of the pages read.
LEMMA OneLeaves ==
    ASSUME NEW r \in Turning, NEW S \in SUBSET Sales, ListTrue(r, S),
           NEW e \in S, e \notin r.left,
           NEW T, T = S \ {e}, NEW q, q = Recorded(r, S, T)
    PROVE  ListTrue(q, T)
<1>1. T \in SUBSET Sales /\ S \ T = {e} /\ T \ S = {}
  OBVIOUS
<1>2. /\ q \in Turning /\ q.pc = r.pc /\ q.start = r.start /\ q.seen = r.seen /\ q.total = r.total
      /\ q.left = r.left \cup {e} /\ q.late = r.late
      /\ Reach(q) = Reach(r)
  <2>1. /\ q \in Turning /\ q.pc = r.pc /\ q.start = r.start /\ q.seen = r.seen /\ q.total = r.total
        /\ q.left = r.left \cup (S \ T)
        /\ q.late = IF r.pc = "rows" THEN r.late \cup (T \ S) ELSE r.late
        /\ Reach(q) = Reach(r)
    BY <1>1 DEF Recorded, Turning, Reach
  <2> QED BY <1>1, <2>1
<1>3. Stays(q) \subseteq T /\ q.late \subseteq T \cup q.left
  BY <1>2 DEF ListTrue, Stays
<1>4. ASSUME q.pc = "rows" PROVE Cardinality(T) <= q.total + Cardinality(q.late)
  <2>1. Cardinality(T) = Cardinality(S) - 1
    BY SalesFinite, FS_RemoveElement
  <2>2. r.total \in Nat /\ Cardinality(S) \in Nat /\ Cardinality(r.late) \in Nat
    BY SalesFinite DEF Turning
  <2>3. Cardinality(S) <= r.total + Cardinality(r.late)
    BY <1>2, <1>4 DEF ListTrue
  <2> QED BY <1>2, <2>1, <2>2, <2>3
<1>5. Cardinality(Skipped(q, T)) <= Cardinality(q.left)
  <2> DEFINE Old == Skipped(r, S)
             New == Skipped(q, T)
  <2>1. Old \in SUBSET Sales /\ New \in SUBSET Sales
    BY <1>2, SkippedType
  <2>2. ASSUME NEW b \in New PROVE b \in Old \/ (b \in S /\ Place(S, b) = Reach(r))
    <3>1. b \in Stays(r) \ r.seen /\ Place(T, b) < Reach(r) /\ b \in S
      BY <1>2, <2>2 DEF Skipped, Stays, ListTrue
    <3>2. Place(S, b) <= Place(T, b) + 1
      BY PlaceWithout
    <3>3. Place(S, b) \in Nat /\ Place(T, b) \in Nat /\ Reach(r) \in Nat
      BY <1>1, PlaceType, ReachType
    <3>4. Place(S, b) < Reach(r) \/ Place(S, b) = Reach(r)
      BY <3>1, <3>2, <3>3
    <3> QED BY <3>1, <3>4 DEF Skipped
  <2>3. /\ IsFiniteSet(Old) /\ Cardinality(Old) \in Nat /\ Cardinality(New) \in Nat
        /\ Cardinality(r.left) \in Nat /\ IsFiniteSet(r.left)
    BY <2>1, SalesFinite DEF Turning
  <2>4. Cardinality(New) <= Cardinality(Old) + 1
    <3>1. CASE New \in SUBSET Old
      <4>1. Cardinality(New) <= Cardinality(Old)
        BY <2>3, <3>1, FS_Subset
      <4> QED BY <2>3, <4>1
    <3>2. CASE New \notin SUBSET Old
      <4>1. PICK x \in New : x \notin Old
        BY <3>2
      <4>2. \A b \in New : b \in Old \/ b = x
        BY <2>2, <4>1, PlaceOfOne
      <4>3. New \in SUBSET (Old \cup {x})
        BY <4>2
      <4>4. IsFiniteSet(Old \cup {x}) /\ Cardinality(Old \cup {x}) = Cardinality(Old) + 1
        BY <2>3, <4>1, FS_AddElement
      <4>5. Cardinality(New) <= Cardinality(Old \cup {x})
        BY <4>3, <4>4, FS_Subset
      <4> QED BY <4>4, <4>5
    <3> QED BY <3>1, <3>2
  <2>5. Cardinality(r.left \cup {e}) = Cardinality(r.left) + 1
    BY <2>3, FS_AddElement
  <2>6. Cardinality(Old) <= Cardinality(r.left)
    BY DEF ListTrue
  <2> HIDE DEF Old, New
  <2>7. Cardinality(New) <= Cardinality(q.left)
    <3>1. q.left = r.left \cup {e}
      BY <1>2
    <3>2. Cardinality(New) <= Cardinality(r.left \cup {e})
      BY <2>3, <2>4, <2>5, <2>6
    <3> QED BY <3>1, <3>2
  <2> QED BY <2>7 DEF New
<1> QED BY <1>3, <1>4, <1>5 DEF ListTrue

------------------------------------------------------------------------------
(* What a write does to a list.                                            *)

Ended == {"cancelled", "refunded"}

\* A withdrawal's parts: how far its request is, its row, its lines, its transfer,
\* the webhooks that have credited it, and what was written of it.
Stages  == {"new", "checking", "debiting", "opening", "starting", "sending", "completing",
            "failing", "reversing", "over"}
Rows    == {"none", "pending", "processing", "completed", "failed", "reversed"}
Lines   == {"debit", "start", "failed", "reversed"}
Ways    == {"none", "inflight", "completed", "failed", "reversed"}
Credits == {"failed", "reversed"}
Heard   == {"nothing", "completed", "failed", "reversed", "more"}

PayoutTypes ==
    /\ withdrawal \in [Payouts -> Stages] /\ payoutRow \in [Payouts -> Rows]
    /\ entries \in [Payouts -> SUBSET Lines] /\ provider \in [Payouts -> Ways]
    /\ marking \in [Payouts -> SUBSET Credits] /\ heard \in [Payouts -> Heard]

StTypeOK ==
    /\ sold \in [Sales -> {"none", "confirmed"} \cup Ended]
    /\ past \in SUBSET Sales
    /\ passStatus \in [Coverage -> {"none", "active", "cancelled"}]
    /\ reviewed \in [HostSet -> Nat]
    /\ PayoutTypes
    /\ stored \in [Payers -> Int] /\ ledger \in [Accounts -> Int] /\ aggregate \in [HostSet -> Int]

\* A withdrawal changes no booking, no pass and no wallet.
LEMMA PayoutsMoveNoSales == ASSUME PayoutWrites PROVE UNCHANGED <<sales, wallets>>
<1> USE DEF sales, wallets
<1>1. PICK w \in Payouts :
        \/ AskPayout(w) \/ CheckPayout(w) \/ GiveUpPayout(w) \/ DebitPayout(w)
        \/ OpenPayout(w) \/ StartPayout(w) \/ SendPayout(w) \/ CompletePayout(w)
        \/ FailPayout(w) \/ ReversePayout(w) \/ CutOffPayout(w)
        \/ ProviderSettles(w) \/ HearCompleted(w) \/ CreditPayout(w) \/ MarkPayout(w)
  BY DEF PayoutWrites
<1>2. CASE AskPayout(w) \/ CheckPayout(w) \/ GiveUpPayout(w) \/ DebitPayout(w)
  BY <1>2 DEF AskPayout, CheckPayout, GiveUpPayout, DebitPayout
<1>3. CASE OpenPayout(w) \/ StartPayout(w) \/ SendPayout(w) \/ CompletePayout(w)
  BY <1>3 DEF OpenPayout, StartPayout, SendPayout, CompletePayout
<1>4. CASE FailPayout(w) \/ ReversePayout(w) \/ CutOffPayout(w)
  BY <1>4 DEF FailPayout, ReversePayout, CutOffPayout
<1>5. CASE ProviderSettles(w) \/ HearCompleted(w) \/ CreditPayout(w) \/ MarkPayout(w)
  BY <1>5 DEF ProviderSettles, HearCompleted, CreditPayout, MarkPayout
<1> QED BY <1>1, <1>2, <1>3, <1>4, <1>5

\* A booking is sold once and given up once.
LEMMA SoldMoves ==
    ASSUME StTypeOK, Writes
    PROVE  \/ sold' = sold
           \/ \E b \in Sales : sold[b] = "none" /\ sold' = [sold EXCEPT ![b] = "confirmed"]
           \/ \E b \in Sales, x \in Ended : sold[b] = "confirmed" /\ sold' = [sold EXCEPT ![b] = x]
<1>1. ASSUME NEW b \in Sales, Book(b)
      PROVE  sold[b] = "none" /\ sold' = [sold EXCEPT ![b] = "confirmed"]
  BY <1>1 DEF Book
<1>2. ASSUME NEW b \in Sales, Cancel(b)
      PROVE  \E x \in Ended : sold[b] = "confirmed" /\ sold' = [sold EXCEPT ![b] = x]
  BY <1>2 DEF Cancel, Ended
<1>3. ASSUME NEW b \in Sales, TakePlace(b) PROVE sold' = sold
  BY <1>3 DEF TakePlace
<1>4. ASSUME NEW p \in Coverage, SellPass(p) \/ RefundPass(p) PROVE sold' = sold
  BY <1>4 DEF SellPass, RefundPass
<1>5. ASSUME PayoutWrites PROVE sold' = sold
  BY <1>5, PayoutsMoveNoSales DEF sales
<1>6. ASSUME NEW h \in HostSet, WriteReview(h) PROVE sold' = sold
  BY <1>6 DEF WriteReview
<1> QED BY <1>1, <1>2, <1>3, <1>4, <1>5, <1>6 DEF Writes, SaleWrites

\* A booking that was given up stays given up.
LEMMA EndedStay ==
    ASSUME StTypeOK, Writes, NEW b \in Sales, sold[b] \in Ended
    PROVE  sold'[b] \in Ended
  BY SoldMoves DEF StTypeOK, Ended

\* A list is one of bookings, before and after a step.
LEMMA MatchesAreSales == \A f : Matching(f) \in SUBSET Sales /\ Matching(f)' \in SUBSET Sales
  BY DEF Matching, Made, With

\* A write adds a booking to a list, takes one from the confirmed for good, or
\* leaves the list alone.
LEMMA ListMoves ==
    ASSUME StTypeOK, Writes, NEW f \in Filters
    PROVE  \/ Matching(f)' = Matching(f)
           \/ \E e \in Sales \ Matching(f) :
                 Matching(f)' = Matching(f) \cup {e} /\ ~(f = "confirmed" /\ sold[e] \in Ended)
           \/ \E e \in Matching(f) :
                 Matching(f)' = Matching(f) \ {e} /\ f = "confirmed" /\ sold'[e] \in Ended
<1>0. f \in {"", "confirmed", "refunded"} /\ sold \in [Sales -> {"none", "confirmed"} \cup Ended]
  BY DEF Filters, StTypeOK
<1>1. CASE sold' = sold
  BY <1>1 DEF Matching, Made, With
<1>2. ASSUME NEW b \in Sales, sold[b] = "none", sold' = [sold EXCEPT ![b] = "confirmed"]
      PROVE  \/ Matching(f)' = Matching(f)
             \/ /\ b \in Sales \ Matching(f) /\ Matching(f)' = Matching(f) \cup {b}
                /\ ~(f = "confirmed" /\ sold[b] \in Ended)
  <2>1. CASE f = ""
    BY <1>0, <1>2, <2>1 DEF Matching, Made, With, Ended
  <2>2. CASE f = "confirmed"
    BY <1>0, <1>2, <2>2 DEF Matching, With, Ended
  <2>3. CASE f = "refunded"
    BY <1>0, <1>2, <2>3 DEF Matching, With, Ended
  <2> QED BY <1>0, <2>1, <2>2, <2>3
<1>3. ASSUME NEW b \in Sales, NEW x \in Ended, sold[b] = "confirmed", sold' = [sold EXCEPT ![b] = x]
      PROVE  \/ Matching(f)' = Matching(f)
             \/ /\ b \in Sales \ Matching(f) /\ Matching(f)' = Matching(f) \cup {b}
                /\ ~(f = "confirmed" /\ sold[b] \in Ended)
             \/ /\ b \in Matching(f) /\ Matching(f)' = Matching(f) \ {b}
                /\ f = "confirmed" /\ sold'[b] \in Ended
  <2>1. CASE f = ""
    BY <1>0, <1>3, <2>1 DEF Matching, Made, With, Ended
  <2>2. CASE f = "confirmed"
    BY <1>0, <1>3, <2>2 DEF Matching, With, Ended
  <2>3. CASE f = "refunded" /\ x = "refunded"
    BY <1>0, <1>3, <2>3 DEF Matching, With, Ended
  <2>4. CASE f = "refunded" /\ x = "cancelled"
    BY <1>0, <1>3, <2>4 DEF Matching, With, Ended
  <2> QED BY <1>0, <2>1, <2>2, <2>3, <2>4 DEF Ended
<1> QED BY <1>1, <1>2, <1>3, SoldMoves

\* What has left the list of a reader has left for good.
Gone(r) == \A b \in r.left : r.filter = "confirmed" /\ sold[b] \in Ended

ListRead == reader \in Turning /\ ListTrue(reader, Matching(reader.filter)) /\ Gone(reader)

\* A write keeps what a reader who is turning pages has.
LEMMA WatchedList ==
    ASSUME StTypeOK, Writes, Watched, ListRead
    PROVE  ListRead'
<1> DEFINE f == reader.filter
<1>1. f \in Filters /\ reader.pc \in {"rows", "count"}
  BY DEF ListRead, Turning
<1>2. PICK g \in {f} : g = f
  OBVIOUS
<1>3. PICK S \in SUBSET Sales : S = Matching(g)
  BY MatchesAreSales
<1>4. PICK T \in SUBSET Sales : T = Matching(g)'
  BY MatchesAreSales
<1>5. PICK r \in Turning : r = reader
  BY DEF ListRead
<1>6. r.filter = g /\ g \in Filters /\ ListTrue(r, S)
  BY <1>1, <1>2, <1>3, <1>5 DEF ListRead
<1>7. reader' = Recorded(r, S, T)
  BY <1>1, <1>2, <1>3, <1>4, <1>5 DEF Watched, Recorded
<1>8. PICK q : q = Recorded(r, S, T)
  OBVIOUS
<1>9. q \in Turning /\ q.filter = g /\ q.left = r.left \cup (S \ T)
  BY <1>6, <1>8 DEF Recorded, Turning
<1>10. \A b \in r.left : g = "confirmed" /\ sold[b] \in Ended /\ sold'[b] \in Ended
  <2>1. r.left \subseteq Sales
    BY DEF Turning
  <2>2. \A b \in r.left : g = "confirmed" /\ sold[b] \in Ended
    BY <1>5, <1>6 DEF ListRead, Gone
  <2> QED BY <2>1, <2>2, EndedStay
<1>11. ListTrue(q, T) /\ \A b \in q.left : g = "confirmed" /\ sold'[b] \in Ended
  <2>1. CASE T = S
    <3>1. q = r
      BY <1>8, <2>1, SameList
    <3> QED BY <1>6, <1>10, <2>1, <3>1
  <2>2. ASSUME NEW e \in Sales \ S, T = S \cup {e}, ~(g = "confirmed" /\ sold[e] \in Ended)
        PROVE  ListTrue(q, T) /\ \A b \in q.left : g = "confirmed" /\ sold'[b] \in Ended
    <3>1. e \notin r.left
      BY <1>10, <2>2
    <3>2. ListTrue(q, T)
      BY <1>6, <1>8, <2>2, <3>1, OneJoins
    <3>3. q.left = r.left
      BY <1>9, <2>2
    <3> QED BY <1>10, <3>2, <3>3
  <2>3. ASSUME NEW e \in S, T = S \ {e}, g = "confirmed" /\ sold'[e] \in Ended
        PROVE  ListTrue(q, T) /\ \A b \in q.left : g = "confirmed" /\ sold'[b] \in Ended
    <3>1. sold[e] = "confirmed"
      BY <1>3, <2>3 DEF Matching, With
    <3>2. e \notin r.left
      BY <1>10, <3>1 DEF Ended
    <3>3. ListTrue(q, T)
      BY <1>6, <1>8, <2>3, <3>2, OneLeaves
    <3>4. q.left = r.left \cup {e}
      BY <1>9, <2>3
    <3> QED BY <1>10, <2>3, <3>3, <3>4
  <2>4. \/ T = S
        \/ \E e \in Sales \ S : T = S \cup {e} /\ ~(g = "confirmed" /\ sold[e] \in Ended)
        \/ \E e \in S : T = S \ {e} /\ g = "confirmed" /\ sold'[e] \in Ended
    BY <1>3, <1>4, <1>6, ListMoves
  <2> QED BY <2>1, <2>2, <2>3, <2>4
<1>12. q = reader' /\ Matching(reader.filter)' = T
  <2>1. q = reader'
    BY <1>7, <1>8
  <2>2. reader'.filter = g
    BY <1>9, <2>1
  <2> QED BY <1>4, <2>1, <2>2 DEF Matching, Made, With
<1> QED BY <1>9, <1>11, <1>12 DEF ListRead, Gone

\* The pages turned to the end.
Turned == [page : {"bookings"}, pc : {"done"}, filter : Filters, number : Nat \ {0},
           total : Nat, start : SUBSET Sales, seen : SUBSET Sales, left : SUBSET Sales,
           late : SUBSET Sales]
Missed(r) == Cardinality(Stays(r) \ r.seen)
ListDone  == reader \in Turned /\ Missed(reader) <= Cardinality(reader.left) + Cardinality(reader.late)

\* Pages follow each other without a gap.
LEMMA OneMorePage ==
    ASSUME NEW n \in Nat \ {0}
    PROVE  /\ (n - 1) * PageSize \in Nat /\ n * PageSize \in Nat
           /\ (n - 1) * PageSize + PageSize = n * PageSize
<1>1. PageSize \in Nat /\ n - 1 \in Nat
  BY StatementsAssumption
<1>2. \A m, p \in Nat : m * p \in Nat /\ (m + 1) * p = m * p + p
  BY SMT
<1>3. (n - 1) + 1 = n
  OBVIOUS
<1> QED BY <1>1, <1>2, <1>3

\* A page holds what stands between its first place and the next page's.
LEMMA PageHolds ==
    ASSUME NEW n \in Nat \ {0}, NEW S \in SUBSET Sales, NEW b \in S
    PROVE  b \in PageOf(S, n) <=> (n - 1) * PageSize <= Place(S, b) /\ Place(S, b) < n * PageSize
<1> DEFINE k == (n - 1) * PageSize
<1>1. k \in Nat /\ k + PageSize = n * PageSize /\ PageSize \in Nat /\ Place(S, b) \in Nat
  BY OneMorePage, PlaceType, StatementsAssumption
<1>2. b \in PageOf(S, n) <=> Place(S, b) \in k .. k + PageSize - 1
  BY DEF PageOf, Offset, Place, Newer
<1> HIDE DEF k
<1>3. Place(S, b) \in k .. k + PageSize - 1 <=> k <= Place(S, b) /\ Place(S, b) < k + PageSize
  BY <1>1
<1> QED BY <1>1, <1>2, <1>3 DEF k

\* Reading a page: the last one leaves unseen only what was skipped, or what
\* stands beyond the pages because it came after the last count.
LEMMA PageReads ==
    ASSUME StTypeOK, ListRead, ReadPage
    PROVE  (ListRead \/ ListDone)'
<1>1. PICK r \in Turning : r = reader
  BY DEF ListRead
<1>2. PICK S \in SUBSET Sales : S = Matching(r.filter)
  BY MatchesAreSales
<1>3. ListTrue(r, S) /\ Gone(r) /\ r.pc = "rows"
  BY <1>1, <1>2 DEF ListRead, ReadPage
<1> DEFINE n == r.number
           k == (n - 1) * PageSize
           m == n * PageSize
<1>4. /\ n \in Nat \ {0} /\ k \in Nat /\ m \in Nat /\ r.total \in Nat
      /\ Reach(r) = k
  BY <1>3, OneMorePage DEF Turning, Reach
<1>5. PICK page \in SUBSET Sales : page = PageOf(S, n)
  BY DEF PageOf
<1>6. PICK q : q = [r EXCEPT !.seen = @ \cup page, !.pc = IF m >= r.total THEN "done" ELSE "count"]
  OBVIOUS
<1>7. reader' = q
  BY <1>1, <1>2, <1>5, <1>6 DEF ReadPage
<1>8. UNCHANGED <<sold, Matching(r.filter)>>
  BY DEF ReadPage, rows, sales, Matching, Made, With
<1>9. /\ q.start = r.start /\ q.left = r.left /\ q.late = r.late /\ q.total = r.total
      /\ q.filter = r.filter /\ q.number = n /\ q.seen = r.seen \cup page
      /\ q.pc = IF m >= r.total THEN "done" ELSE "count"
  BY <1>6 DEF Turning
<1>10. q \in Turning \cup Turned
  BY <1>6 DEF Turning, Turned
<1> HIDE DEF k, m
<1>11. ASSUME NEW b \in Stays(r) \ q.seen
       PROVE  b \in S /\ (Place(S, b) < k \/ Place(S, b) >= m) /\ Place(S, b) \in Nat
  <2>1. b \in S /\ b \notin page
    BY <1>3, <1>9, <1>11 DEF ListTrue
  <2>2. ~(k <= Place(S, b) /\ Place(S, b) < m) /\ Place(S, b) \in Nat
    BY <1>4, <1>5, <2>1, PageHolds, PlaceType DEF k, m
  <2> QED BY <1>4, <2>1, <2>2
<1>12. Skipped(r, S) \in SUBSET Sales /\ Cardinality(Skipped(r, S)) <= Cardinality(r.left)
  BY <1>3, SkippedType DEF ListTrue
<1>13. CASE ~(m >= r.total)
  <2>1. q \in Turning /\ q.pc = "count"
    BY <1>9, <1>10, <1>13 DEF Turned
  <2>2. Reach(q) = m
    BY <1>9, <2>1 DEF Reach, m
  <2>3. Skipped(q, S) \in SUBSET Skipped(r, S)
    BY <1>4, <1>9, <1>11, <2>2 DEF Skipped, Stays
  <2>4. Cardinality(Skipped(q, S)) <= Cardinality(Skipped(r, S))
    BY <1>12, <2>3, SalesFinite, FS_Subset
  <2>5. /\ Cardinality(Skipped(q, S)) \in Nat /\ Cardinality(Skipped(r, S)) \in Nat
        /\ Cardinality(r.left) \in Nat
    BY <1>12, <2>3, SalesFinite DEF Turning
  <2>6. Cardinality(Skipped(q, S)) <= Cardinality(q.left)
    BY <1>9, <1>12, <2>4, <2>5
  <2>7. ListTrue(q, S)
    BY <1>3, <1>9, <2>1, <2>6 DEF ListTrue, Stays
  <2>8. Matching(reader.filter)' = S
    <3>1. reader'.filter = r.filter
      BY <1>7, <1>9
    <3> QED BY <1>2, <1>8, <3>1 DEF Matching, Made, With
  <2>9. Gone(reader)'
    BY <1>3, <1>7, <1>8, <1>9 DEF Gone
  <2> QED BY <1>7, <2>1, <2>7, <2>8, <2>9 DEF ListRead
<1>14. CASE m >= r.total
  <2>1. q \in Turned /\ q.pc = "done"
    BY <1>9, <1>10, <1>14 DEF Turning
  <2> DEFINE Rest   == Stays(r) \ q.seen
             Beyond == {b \in S : Place(S, b) >= m}
             Front  == Skipped(r, S)
  <2>2. Rest \in SUBSET (Front \cup Beyond)
    BY <1>4, <1>9, <1>11 DEF Skipped
  <2>3. Cardinality(Beyond) = 0 \/ Cardinality(Beyond) + m <= Cardinality(S)
    BY <1>4, FewBeyond
  <2>4. Beyond \in SUBSET Sales /\ Front \in SUBSET Sales /\ Rest \in SUBSET Sales
    BY <1>12 DEF Stays, Turning
  <2> HIDE DEF Rest, Beyond, Front
  <2>5. /\ IsFiniteSet(Beyond) /\ IsFiniteSet(Front) /\ IsFiniteSet(Front \cup Beyond)
        /\ Cardinality(Beyond) \in Nat /\ Cardinality(Front) \in Nat /\ Cardinality(Rest) \in Nat
        /\ Cardinality(r.left) \in Nat /\ Cardinality(r.late) \in Nat /\ Cardinality(S) \in Nat
        /\ Cardinality(Front \cap Beyond) \in Nat
    <3>1. Front \cup Beyond \in SUBSET Sales /\ Front \cap Beyond \in SUBSET Sales
      BY <2>4
    <3> QED BY <2>4, <3>1, SalesFinite DEF Turning
  <2>6. Cardinality(Front \cup Beyond) = Cardinality(Front) + Cardinality(Beyond) - Cardinality(Front \cap Beyond)
    BY <2>5, FS_Union
  <2>7. Cardinality(Rest) <= Cardinality(Front \cup Beyond)
    BY <2>2, <2>5, FS_Subset
  <2>8. Cardinality(S) <= r.total + Cardinality(r.late)
    BY <1>3 DEF ListTrue
  <2>9. Cardinality(Front) <= Cardinality(r.left)
    BY <1>12 DEF Front
  <2>10. Cardinality(Beyond) <= Cardinality(r.late)
    BY <1>4, <1>14, <2>3, <2>5, <2>8
  <2>11. Cardinality(Rest) <= Cardinality(r.left) + Cardinality(r.late)
    BY <2>5, <2>6, <2>7, <2>9, <2>10
  <2>12. Missed(q) = Cardinality(Rest)
    BY <1>9 DEF Missed, Stays, Rest
  <2> QED BY <1>7, <1>9, <2>1, <2>11, <2>12 DEF ListDone
<1> QED BY <1>13, <1>14

\* Turning to the next page: the list is counted anew.
LEMMA PageTurns ==
    ASSUME StTypeOK, ListRead, TurnPage
    PROVE  ListRead'
<1>1. PICK r \in Turning : r = reader
  BY DEF ListRead
<1>2. PICK S \in SUBSET Sales : S = Matching(r.filter)
  BY MatchesAreSales
<1>3. ListTrue(r, S) /\ Gone(r) /\ r.pc = "count" /\ r.number \in Nat \ {0} /\ Cardinality(S) \in Nat
  BY <1>1, <1>2, SalesFinite DEF ListRead, TurnPage, Turning
<1>4. PICK q : q = [r EXCEPT !.pc = "rows", !.number = @ + 1, !.late = {}, !.total = Cardinality(S)]
  OBVIOUS
<1>5. reader' = q
  BY <1>1, <1>2, <1>4 DEF TurnPage
<1>6. UNCHANGED <<sold, Matching(r.filter)>>
  BY DEF TurnPage, rows, sales, Matching, Made, With
<1>7. q \in Turning
  <2>1. r.number + 1 \in Nat \ {0} /\ {} \in SUBSET Sales
    BY <1>3
  <2> QED BY <1>3, <1>4, <2>1 DEF Turning
<1>8. /\ q.start = r.start /\ q.left = r.left /\ q.late = {} /\ q.total = Cardinality(S)
      /\ q.filter = r.filter /\ q.number = r.number + 1 /\ q.seen = r.seen /\ q.pc = "rows"
  BY <1>4 DEF Turning
<1>9. Reach(q) = Reach(r)
  <2>1. (r.number + 1) - 1 = r.number
    BY <1>3
  <2> QED BY <1>3, <1>8, <2>1 DEF Reach
<1>10. Skipped(q, S) = Skipped(r, S)
  BY <1>8, <1>9 DEF Skipped, Stays
<1>11. Cardinality(S) <= q.total + Cardinality(q.late)
  BY <1>3, <1>8, FS_EmptySet
<1>12. ListTrue(q, S)
  BY <1>3, <1>8, <1>10, <1>11 DEF ListTrue, Stays
<1>13. Matching(reader.filter)' = S
  <2>1. reader'.filter = r.filter
    BY <1>5, <1>8
  <2> QED BY <1>2, <1>6, <2>1 DEF Matching, Made, With
<1> QED BY <1>3, <1>5, <1>6, <1>7, <1>8, <1>12, <1>13 DEF ListRead, Gone

\* Opening a list: nothing was skipped yet.
LEMMA ListOpens ==
    ASSUME StTypeOK, NEW f \in Filters, OpenList(f)
    PROVE  ListRead'
<1>1. PICK S \in SUBSET Sales : S = Matching(f)
  BY MatchesAreSales
<1>2. PICK q : q = [page |-> "bookings", pc |-> "rows", filter |-> f, number |-> 1,
                    total |-> Cardinality(S), start |-> S,
                    seen |-> {}, left |-> {}, late |-> {}]
  OBVIOUS
<1>3. reader' = q
  BY <1>1, <1>2 DEF OpenList
<1>4. Cardinality(S) \in Nat
  BY SalesFinite
<1>5. q \in Turning
  BY <1>2, <1>4 DEF Turning
<1>6. Skipped(q, S) = {}
  <2>1. Reach(q) = 0
    <3>1. 1 - 1 = 0 /\ 0 * PageSize = 0
      BY StatementsAssumption
    <3> QED BY <1>2, <3>1 DEF Reach
  <2>2. \A b : ~(Place(S, b) < 0)
    BY PlaceType
  <2> QED BY <2>1, <2>2 DEF Skipped
<1>7. ListTrue(q, S)
  <2>1. Cardinality({}) = 0
    BY FS_EmptySet
  <2>2. Cardinality(S) <= Cardinality(S) + 0
    BY <1>4
  <2>3. /\ Stays(q) \subseteq S /\ q.late = {} /\ q.left = {} /\ q.total = Cardinality(S)
    BY <1>2 DEF Stays
  <2>4. Cardinality(Skipped(q, S)) <= Cardinality(q.left)
    BY <1>6, <2>1, <2>3
  <2>5. Cardinality(S) <= q.total + Cardinality(q.late)
    BY <2>1, <2>2, <2>3
  <2> QED BY <2>3, <2>4, <2>5 DEF ListTrue
<1>8. Matching(reader.filter)' = S /\ Gone(reader)'
  <2>1. reader'.filter = f /\ reader'.left = {}
    BY <1>2, <1>3
  <2>2. UNCHANGED sold
    BY DEF OpenList, rows, sales
  <2> QED BY <1>1, <2>1, <2>2 DEF Matching, Made, With, Gone
<1> QED BY <1>3, <1>5, <1>7, <1>8 DEF ListRead

------------------------------------------------------------------------------
(* One who looks at the earnings page.                                     *)

\* Max cuts off what is below zero.
LEMMA MaxOfTwo == ASSUME NEW x \in Int PROVE Max({0, x}) = IF x >= 0 THEN x ELSE 0
<1>1. CASE x >= 0
  <2>1. \A m \in {0, x} : (\A y \in {0, x} : m >= y) <=> m = x
    BY <1>1
  <2> QED BY <1>1, <2>1 DEF Max
<1>2. CASE ~(x >= 0)
  <2>1. \A m \in {0, x} : (\A y \in {0, x} : m >= y) <=> m = 0
    BY <1>2
  <2> QED BY <1>2, <2>1 DEF Max
<1> QED BY <1>1, <1>2

\* Purchases are finitely many, and each one's charge splits to the cent.
LEMMA PurchasesFinite ==
    /\ IsFiniteSet(Purchases) /\ IsFiniteSet(Payouts) /\ IsFiniteSet(Payers)
    /\ \A S \in SUBSET Purchases : IsFiniteSet(S)
    /\ \A b \in Purchases :
          /\ AmountOf[b] = ChargeOf[b].amount /\ AmountOf[b] \in Nat
          /\ FeeOf[b] = ChargeOf[b].fee /\ FeeOf[b] \in Nat
          /\ NetOf[b] = ChargeOf[b].net /\ NetOf[b] \in Nat
          /\ AmountOf[b] = FeeOf[b] + NetOf[b]
<1>1. IsFiniteSet(Sales) /\ IsFiniteSet(Coverage) /\ IsFiniteSet(Payouts) /\ IsFiniteSet(Payers)
  BY StatementsAssumption
<1>2. IsFiniteSet(Purchases)
  BY <1>1, FS_Union DEF Purchases
<1>3. \A S \in SUBSET Purchases : IsFiniteSet(S)
  BY <1>2, FS_Subset
<1>4. \A b \in Purchases :
          /\ {ChargeOf[b].amount, ChargeOf[b].fee, ChargeOf[b].net} \subseteq Nat
          /\ ChargeOf[b].amount = ChargeOf[b].fee + ChargeOf[b].net
  BY StatementsAssumption
<1> QED BY <1>1, <1>2, <1>3, <1>4 DEF AmountOf, FeeOf, NetOf

\* What some purchases come to is an amount.
LEMMA SumTypes ==
    ASSUME NEW S \in SUBSET Purchases
    PROVE  Amount(S) \in Nat /\ Fee(S) \in Nat /\ Net(S) \in Nat
<1>1. IsFiniteSet(S) /\ \A b \in S : AmountOf[b] \in Nat /\ FeeOf[b] \in Nat /\ NetOf[b] \in Nat
  BY PurchasesFinite
<1> QED BY <1>1, SumNat DEF Amount, Fee, Net

\* So is what some withdrawals come to.
LEMMA PaidType == ASSUME NEW S \in SUBSET Payouts PROVE Paid(S) \in Nat
<1>1. IsFiniteSet(S) /\ \A w \in S : PayoutCents[w] \in Nat
  BY StatementsAssumption, PurchasesFinite, FS_Subset
<1> QED BY <1>1, SumNat DEF Paid

\* And so are the figures of a host's earnings, before and after a step.
LEMMA BreakdownType ==
    /\ \A h : Breakdown(h) \in [total : Nat, passed : Nat, upcoming : Nat] /\ InTransit(h) \in Nat
    /\ \A h : Breakdown(h)' \in [total : Nat, passed : Nat, upcoming : Nat] /\ InTransit(h)' \in Nat
<1>1. ASSUME NEW h
      PROVE  Breakdown(h) \in [total : Nat, passed : Nat, upcoming : Nat] /\ InTransit(h) \in Nat
  <2>1. /\ OfHost(Confirmed, h) \in SUBSET Purchases
        /\ OfHost(Confirmed, h) \cap past \in SUBSET Purchases
        /\ OfHost(Confirmed, h) \ past \in SUBSET Purchases
    BY DEF OfHost, Confirmed, With, Purchases
  <2>2. {w \in Payouts : PayeeOf[w] = h /\ payoutRow[w] \in Counted} \in SUBSET Payouts
    OBVIOUS
  <2> QED BY <2>1, <2>2, SumTypes, PaidType DEF Breakdown, InTransit
<1>2. ASSUME NEW h
      PROVE  Breakdown(h)' \in [total : Nat, passed : Nat, upcoming : Nat] /\ InTransit(h)' \in Nat
  <2>1. /\ OfHost(Confirmed, h)' \in SUBSET Purchases
        /\ (OfHost(Confirmed, h) \cap past)' \in SUBSET Purchases
        /\ (OfHost(Confirmed, h) \ past)' \in SUBSET Purchases
    BY DEF OfHost, Confirmed, With, Purchases
  <2>2. {w \in Payouts : PayeeOf[w] = h /\ payoutRow'[w] \in Counted} \in SUBSET Payouts
    OBVIOUS
  <2> QED BY <2>1, <2>2, SumTypes, PaidType DEF Breakdown, InTransit
<1> QED BY <1>1, <1>2

HalfRead == [page : {"earnings"}, pc : {"half"}, host : HostSet, fell : BOOLEAN,
             breakdown : [total : Nat, passed : Nat, upcoming : Nat]]
Offered  == [page : {"earnings"}, pc : {"done"}, fell : BOOLEAN,
             shown : [total : Int, pending : Int, current : Int, available : Int], granted : Int]

\* What was earned by the first read is still there, unless it fell.
EarningsRead == reader \in HalfRead
                /\ (~reader.fell => reader.breakdown.passed <= Breakdown(reader.host).passed)
EarningsDone == reader \in Offered /\ (reader.shown.available <= reader.granted \/ reader.fell)

\* The first read of the earnings page.
LEMMA EarningsOpens ==
    ASSUME NEW h \in HostSet, OpenEarnings(h)
    PROVE  EarningsRead'
<1>1. PICK b \in [total : Nat, passed : Nat, upcoming : Nat] : b = Breakdown(h)
  BY BreakdownType
<1>2. reader' = [page |-> "earnings", pc |-> "half", host |-> h, fell |-> FALSE, breakdown |-> b]
  BY <1>1 DEF OpenEarnings
<1>3. reader' \in HalfRead
  BY <1>1, <1>2 DEF HalfRead
<1>4. UNCHANGED <<sold, past>>
  BY DEF OpenEarnings, rows, sales
<1>5. reader'.host = h /\ reader'.breakdown = b
  BY <1>2
<1>6. Breakdown(reader.host)' = b
  BY <1>1, <1>4, <1>5 DEF Breakdown, OfHost, Confirmed, With
<1>7. b.passed \in Nat
  BY <1>1
<1> QED BY <1>3, <1>5, <1>6, <1>7 DEF EarningsRead

\* A write that lowers what was earned is remembered.
LEMMA WatchedEarnings ==
    ASSUME EarningsRead, Watched
    PROVE  EarningsRead'
<1>1. PICK r \in HalfRead : r = reader
  BY DEF EarningsRead
<1>2. PICK h \in HostSet : h = r.host
  BY DEF HalfRead
<1>3. PICK m \in Nat : m = Breakdown(h).passed
  BY BreakdownType
<1>4. PICK n \in Nat : n = Breakdown(h).passed'
  BY BreakdownType
<1>5. r.pc = "half" /\ r.fell \in BOOLEAN /\ r.breakdown.passed \in Nat
  BY DEF HalfRead
<1>6. reader' = [r EXCEPT !.fell = @ \/ n < m]
  BY <1>1, <1>2, <1>3, <1>4, <1>5 DEF Watched
<1>7. reader' \in HalfRead
  BY <1>6 DEF HalfRead
<1>8. reader'.fell = (r.fell \/ n < m) /\ reader'.host = h /\ reader'.breakdown = r.breakdown
  BY <1>2, <1>6 DEF HalfRead
<1>9. Breakdown(reader.host)'.passed = n
  BY <1>4, <1>8 DEF Breakdown, OfHost, Confirmed, With
<1>10. ~r.fell => r.breakdown.passed <= m
  BY <1>1, <1>2, <1>3 DEF EarningsRead
<1>11. ~(r.fell \/ n < m) => r.breakdown.passed <= n
  BY <1>3, <1>4, <1>5, <1>10
<1> QED BY <1>7, <1>8, <1>9, <1>11 DEF EarningsRead

\* The second read: both figures lack the same withdrawals.
LEMMA EarningsShow ==
    ASSUME EarningsRead, ShowEarnings
    PROVE  EarningsDone'
<1>1. PICK r \in HalfRead : r = reader
  BY DEF EarningsRead
<1>2. PICK h \in HostSet : h = r.host
  BY DEF HalfRead
<1>3. PICK b \in [total : Nat, passed : Nat, upcoming : Nat] : b = r.breakdown
  BY DEF HalfRead
<1>4. PICK c \in [total : Nat, passed : Nat, upcoming : Nat] : c = Breakdown(h)
  BY BreakdownType
<1>5. PICK t \in Nat : t = InTransit(h)
  BY BreakdownType
<1>6. r.fell \in BOOLEAN /\ (~r.fell => b.passed <= c.passed)
  BY <1>1, <1>2, <1>3, <1>4 DEF EarningsRead, HalfRead
<1>7. reader' = [page |-> "earnings", pc |-> "done", fell |-> r.fell,
                 shown |-> EarningsOf(b, t), granted |-> EarningsOf(c, t).available]
  BY <1>1, <1>2, <1>3, <1>4, <1>5 DEF ShowEarnings
<1>8. ASSUME NEW x \in [total : Nat, passed : Nat, upcoming : Nat]
      PROVE  /\ EarningsOf(x, t) \in [total : Int, pending : Int, current : Int, available : Int]
             /\ EarningsOf(x, t).available = IF x.passed - t >= 0 THEN x.passed - t ELSE 0
  <2>1. x.passed - t \in Int /\ x.total - t \in Int /\ x.total \in Int /\ x.upcoming \in Int
    OBVIOUS
  <2>2. /\ Max({0, x.passed - t}) = (IF x.passed - t >= 0 THEN x.passed - t ELSE 0)
        /\ Max({0, x.total - t}) \in Int
    BY <2>1, MaxOfTwo
  <2> QED BY <2>1, <2>2 DEF EarningsOf
<1>9. EarningsOf(b, t).available \in Int /\ EarningsOf(c, t).available \in Int
  BY <1>8
<1>10. reader' \in Offered
  BY <1>6, <1>7, <1>8, <1>9 DEF Offered
<1>11. EarningsOf(b, t).available <= EarningsOf(c, t).available \/ r.fell
  <2>1. b.passed \in Nat /\ c.passed \in Nat
    OBVIOUS
  <2>2. b.passed <= c.passed =>
          (IF b.passed - t >= 0 THEN b.passed - t ELSE 0) <= (IF c.passed - t >= 0 THEN c.passed - t ELSE 0)
    BY <2>1
  <2> QED BY <1>6, <1>8, <2>2
<1>12. /\ reader'.fell = r.fell /\ reader'.granted = EarningsOf(c, t).available
       /\ reader'.shown.available = EarningsOf(b, t).available
  BY <1>7
<1> QED BY <1>10, <1>11, <1>12 DEF EarningsDone

------------------------------------------------------------------------------
(* The rows.                                                               *)

\* Only what had cost something is refunded.
StatusTrue ==
    \A b \in Sales : /\ sold[b] = "cancelled" => ChargeOf[b].amount = 0
                     /\ sold[b] = "refunded" => ChargeOf[b].amount > 0

\* What a withdrawal's lines take from the ledger.
OwedOf(lines, c) == (IF "debit" \in lines THEN c ELSE 0)
                    - ((IF "start" \in lines THEN c ELSE 0)
                       + ((IF "failed" \in lines THEN c ELSE 0)
                          + (IF "reversed" \in lines THEN c ELSE 0)))
Owed     == [w \in Payouts |-> OwedOf(entries[w], PayoutCents[w])]
Of(h)    == {w \in Payouts : PayeeOf[w] = h}
Owing(h) == SumFunctionOnSet(Owed, Of(h))

\* A guest's wallet and ledger lack what the guest's bookings and passes cost; a
\* host's total is their net, and the ledger that net without what its withdrawals
\* took.
MoneyTrue ==
    /\ \A g \in Payers : stored[g] = TopUps - Amount(OfPayer(Live, g)) /\ ledger[g] = stored[g]
    /\ \A h \in HostSet : /\ aggregate[h] = Net(OfHost(Live, h))
                          /\ ledger[h] = Net(OfHost(Live, h)) - Owing(h)

MoneyTypes == stored \in [Payers -> Int] /\ ledger \in [Accounts -> Int] /\ aggregate \in [HostSet -> Int]

\* One more purchase adds its amount to its payer's and its net to its host's.
LEMMA OneMorePurchase ==
    ASSUME NEW S \in SUBSET Purchases, NEW b \in Purchases \ S
    PROVE  /\ \A g : Amount(OfPayer(S \cup {b}, g))
                      = Amount(OfPayer(S, g)) + IF PayerOf[b] = g THEN ChargeOf[b].amount ELSE 0
           /\ \A h : Net(OfHost(S \cup {b}, h))
                      = Net(OfHost(S, h)) + IF HostsOf[b] = h THEN ChargeOf[b].net ELSE 0
<1>1. ASSUME NEW g
      PROVE  Amount(OfPayer(S \cup {b}, g))
                = Amount(OfPayer(S, g)) + IF PayerOf[b] = g THEN ChargeOf[b].amount ELSE 0
  <2> DEFINE T == OfPayer(S, g)
  <2>1. T \in SUBSET Purchases /\ b \notin T
    BY DEF OfPayer
  <2>2. OfPayer(S \cup {b}, g) = IF PayerOf[b] = g THEN T \cup {b} ELSE T
    BY DEF OfPayer
  <2>3. Amount(T) \in Nat
    BY <2>1, SumTypes
  <2> HIDE DEF T
  <2>4. IsFiniteSet(T) /\ AmountOf[b] \in Int /\ \A c \in T : AmountOf[c] \in Int
    BY <2>1, PurchasesFinite
  <2>5. Amount(T \cup {b}) = Amount(T) + ChargeOf[b].amount
    BY <2>1, <2>4, SumAdd, PurchasesFinite DEF Amount
  <2> QED BY <2>2, <2>3, <2>5 DEF T
<1>2. ASSUME NEW h
      PROVE  Net(OfHost(S \cup {b}, h)) = Net(OfHost(S, h)) + IF HostsOf[b] = h THEN ChargeOf[b].net ELSE 0
  <2> DEFINE T == OfHost(S, h)
  <2>1. T \in SUBSET Purchases /\ b \notin T
    BY DEF OfHost
  <2>2. OfHost(S \cup {b}, h) = IF HostsOf[b] = h THEN T \cup {b} ELSE T
    BY DEF OfHost
  <2>3. Net(T) \in Nat
    BY <2>1, SumTypes
  <2> HIDE DEF T
  <2>4. IsFiniteSet(T) /\ NetOf[b] \in Int /\ \A c \in T : NetOf[c] \in Int
    BY <2>1, PurchasesFinite
  <2>5. Net(T \cup {b}) = Net(T) + ChargeOf[b].net
    BY <2>1, <2>4, SumAdd, PurchasesFinite DEF Net
  <2> QED BY <2>2, <2>3, <2>5 DEF T
<1> QED BY <1>1, <1>2

\* A purchase's parts.
LEMMA PurchaseParts ==
    ASSUME NEW b \in Purchases
    PROVE  /\ ChargeOf[b].amount \in Nat /\ ChargeOf[b].net \in Nat /\ ChargeOf[b].fee \in Nat
           /\ PayerOf[b] \in Payers /\ HostsOf[b] \in HostSet
<1>1. PayerOf[b] \in Payers
  BY StatementsAssumption
<1> QED BY <1>1, PurchasesFinite DEF HostSet

\* No account is two parties'.
LEMMA AccountsApart ==
    /\ Payers \subseteq Accounts /\ HostSet \subseteq Accounts /\ Platform \in Accounts
    /\ Payers \cap HostSet = {} /\ Platform \notin Payers /\ Platform \notin HostSet
  BY StatementsAssumption DEF Accounts

\* The three accounts a purchase changes.
ThreeEntries(L, g, a, h, n, f) == [L EXCEPT ![g] = @ - a, ![h] = @ + n, ![Platform] = @ + f]

\* A purchase's money is taken from its payer and given to its host and the
\* platform; a refund is the same with the signs reversed.
Moves(b, a, n) ==
    /\ stored' = [stored EXCEPT ![PayerOf[b]] = @ - a]
    /\ \E f \in Int : ledger' = ThreeEntries(ledger, PayerOf[b], a, HostsOf[b], n, f)
    /\ aggregate' = [aggregate EXCEPT ![HostsOf[b]] = Max({0, @ + n})]

\* Move, with either sign.
LEMMA MoveIsMoves ==
    ASSUME NEW b \in Purchases
    PROVE  /\ Move(b, 1) => Moves(b, ChargeOf[b].amount, ChargeOf[b].net)
           /\ Move(b, -1) => Moves(b, -ChargeOf[b].amount, -ChargeOf[b].net)
<1>1. PICK a \in Nat : a = ChargeOf[b].amount
  BY PurchaseParts
<1>2. PICK n \in Nat : n = ChargeOf[b].net
  BY PurchaseParts
<1>3. PICK f \in Nat : f = ChargeOf[b].fee
  BY PurchaseParts
<1>4. ASSUME Move(b, 1) PROVE Moves(b, a, n)
  <2>1. 1 * a = a /\ 1 * n = n /\ 1 * f = f /\ f \in Int
    OBVIOUS
  <2>2. /\ stored' = [stored EXCEPT ![PayerOf[b]] = @ - a]
        /\ ledger' = ThreeEntries(ledger, PayerOf[b], a, HostsOf[b], n, f)
        /\ aggregate' = [aggregate EXCEPT ![HostsOf[b]] = Max({0, @ + n})]
    BY <1>1, <1>2, <1>3, <1>4, <2>1 DEF Move, ThreeEntries
  <2> QED BY <2>1, <2>2 DEF Moves
<1>5. ASSUME Move(b, -1) PROVE Moves(b, -a, -n)
  <2>0. PICK s \in Int : s = -1
    OBVIOUS
  <2>1. s * a = -a /\ s * n = -n /\ s * f = -f /\ -f \in Int
    BY <2>0
  <2>3. Move(b, s)
    BY <1>5, <2>0
  <2>2. /\ stored' = [stored EXCEPT ![PayerOf[b]] = @ - (-a)]
        /\ ledger' = ThreeEntries(ledger, PayerOf[b], -a, HostsOf[b], -n, -f)
        /\ aggregate' = [aggregate EXCEPT ![HostsOf[b]] = Max({0, @ + (-n)})]
    BY <1>1, <1>2, <1>3, <2>1, <2>3 DEF Move, ThreeEntries
  <2> QED BY <2>1, <2>2 DEF Moves
<1> QED BY <1>1, <1>2, <1>4, <1>5

\* Three accounts that differ change apart.
LEMMA ThreeEntriesChange ==
    ASSUME NEW L \in [Accounts -> Int], NEW g \in Accounts, NEW h \in Accounts,
           g # h, g # Platform, h # Platform, NEW a \in Int, NEW n \in Int, NEW f \in Int
    PROVE  /\ ThreeEntries(L, g, a, h, n, f) \in [Accounts -> Int]
           /\ ThreeEntries(L, g, a, h, n, f)[g] = L[g] - a
           /\ ThreeEntries(L, g, a, h, n, f)[h] = L[h] + n
           /\ \A x \in Accounts \ {g, h, Platform} : ThreeEntries(L, g, a, h, n, f)[x] = L[x]
<1> DEFINE p == Platform
           D == Accounts
<1>0. p \in D /\ L \in [D -> Int] /\ g \in D /\ h \in D /\ g # p /\ h # p
  BY AccountsApart
<1>m. PICK M : M = ThreeEntries(L, g, a, h, n, f)
  OBVIOUS
<1>n. M = [L EXCEPT ![g] = @ - a, ![h] = @ + n, ![p] = @ + f]
  BY <1>m DEF ThreeEntries
<1> HIDE DEF p, D
<1>1. L[g] \in Int /\ L[h] \in Int /\ L[p] \in Int
  BY <1>0
<1>2. L[g] - a \in Int /\ L[h] + n \in Int /\ L[p] + f \in Int
  BY <1>1
<1>3. PICK K : K = [L EXCEPT ![g] = L[g] - a]
  OBVIOUS
<1>4. K \in [D -> Int] /\ \A x \in D : K[x] = IF x = g THEN L[g] - a ELSE L[x]
  BY <1>0, <1>2, <1>3
<1>5. PICK N : N = [K EXCEPT ![h] = L[h] + n]
  OBVIOUS
<1>6. N \in [D -> Int] /\ \A x \in D : N[x] = IF x = h THEN L[h] + n ELSE K[x]
  BY <1>0, <1>2, <1>4, <1>5
<1>7. M = [N EXCEPT ![p] = L[p] + f]
  BY <1>0, <1>n, <1>3, <1>4, <1>5, <1>6
<1>8. M \in [D -> Int] /\ \A x \in D : M[x] = IF x = p THEN L[p] + f ELSE N[x]
  BY <1>0, <1>2, <1>6, <1>7
<1> QED BY <1>0, <1>m, <1>4, <1>6, <1>8 DEF p, D

\* What that changes.
LEMMA MoveMoves ==
    ASSUME MoneyTypes, NEW b \in Purchases, NEW a \in Int, NEW n \in Int, Moves(b, a, n),
           aggregate[HostsOf[b]] + n >= 0
    PROVE  /\ MoneyTypes'
           /\ stored'[PayerOf[b]] = stored[PayerOf[b]] - a
           /\ ledger'[PayerOf[b]] = ledger[PayerOf[b]] - a
           /\ aggregate'[HostsOf[b]] = aggregate[HostsOf[b]] + n
           /\ ledger'[HostsOf[b]] = ledger[HostsOf[b]] + n
           /\ \A x \in Payers \ {PayerOf[b]} : stored'[x] = stored[x] /\ ledger'[x] = ledger[x]
           /\ \A x \in HostSet \ {HostsOf[b]} : aggregate'[x] = aggregate[x] /\ ledger'[x] = ledger[x]
<1>1. PICK f \in Int : ledger' = ThreeEntries(ledger, PayerOf[b], a, HostsOf[b], n, f)
  BY DEF Moves
<1>2. PICK g \in Payers : g = PayerOf[b]
  BY PurchaseParts
<1>3. PICK h \in HostSet : h = HostsOf[b]
  BY PurchaseParts
<1>4. /\ stored' = [stored EXCEPT ![g] = @ - a]
      /\ ledger' = ThreeEntries(ledger, g, a, h, n, f)
      /\ aggregate' = [aggregate EXCEPT ![h] = Max({0, @ + n})]
  BY <1>1, <1>2, <1>3 DEF Moves
<1>5. /\ g \in Accounts /\ h \in Accounts /\ Platform \in Accounts
      /\ g # h /\ g # Platform /\ h # Platform
      /\ g \notin HostSet /\ h \notin Payers /\ Platform \notin Payers \cup HostSet
  BY AccountsApart
<1>6. /\ ledger' \in [Accounts -> Int]
      /\ ledger'[g] = ledger[g] - a /\ ledger'[h] = ledger[h] + n
      /\ \A x \in Accounts \ {g, h, Platform} : ledger'[x] = ledger[x]
  <2>1. ledger \in [Accounts -> Int]
    BY DEF MoneyTypes
  <2>2. PICK N : N = ThreeEntries(ledger, g, a, h, n, f)
    OBVIOUS
  <2>3. /\ N \in [Accounts -> Int] /\ N[g] = ledger[g] - a /\ N[h] = ledger[h] + n
        /\ \A x \in Accounts \ {g, h, Platform} : N[x] = ledger[x]
    BY <1>5, <2>1, <2>2, ThreeEntriesChange
  <2>4. ledger' = N
    BY <1>4, <2>2
  <2> QED BY <2>3, <2>4
<1>7. aggregate' \in [HostSet -> Int] /\ aggregate'[h] = aggregate[h] + n
      /\ \A x \in HostSet \ {h} : aggregate'[x] = aggregate[x]
  <2>1. aggregate \in [HostSet -> Int] /\ aggregate[h] + n \in Int
    BY DEF MoneyTypes
  <2>2. Max({0, aggregate[h] + n}) = aggregate[h] + n
    BY <1>3, <2>1, MaxOfTwo
  <2> QED BY <1>4, <2>1, <2>2
<1>8. stored' \in [Payers -> Int] /\ stored'[g] = stored[g] - a
      /\ \A x \in Payers \ {g} : stored'[x] = stored[x]
  <2>1. stored \in [Payers -> Int] /\ stored[g] - a \in Int
    BY DEF MoneyTypes
  <2> QED BY <1>4, <2>1
<1>9. /\ \A x \in Payers \ {g} : ledger'[x] = ledger[x]
      /\ \A x \in HostSet \ {h} : ledger'[x] = ledger[x]
  BY <1>5, <1>6 DEF Accounts
<1> QED BY <1>2, <1>3, <1>6, <1>7, <1>8, <1>9 DEF MoneyTypes

\* What is live is a set of purchases, before and after a step.
LEMMA LivePurchases == Live \in SUBSET Purchases /\ Live' \in SUBSET Purchases
  BY DEF Live, Confirmed, With, ActivePasses, Purchases

\* So it comes to an amount, for each payer and each host.
LEMMA LiveSums ==
    /\ \A g : Amount(OfPayer(Live, g)) \in Nat /\ Amount(OfPayer(Live, g))' \in Nat
    /\ \A h : Net(OfHost(Live, h)) \in Nat /\ Net(OfHost(Live, h))' \in Nat
<1>1. \A S \in SUBSET Purchases : \A x : OfPayer(S, x) \in SUBSET Purchases /\ OfHost(S, x) \in SUBSET Purchases
  BY DEF OfPayer, OfHost
<1>2. PICK S \in SUBSET Purchases : S = Live
  BY LivePurchases
<1>3. PICK T \in SUBSET Purchases : T = Live'
  BY LivePurchases
<1>4. \A x : /\ Amount(OfPayer(S, x)) \in Nat /\ Amount(OfPayer(T, x)) \in Nat
             /\ Net(OfHost(S, x)) \in Nat /\ Net(OfHost(T, x)) \in Nat
  BY <1>1, SumTypes
<1>5. \A x : /\ Amount(OfPayer(Live, x))' = Amount(OfPayer(T, x))
             /\ Net(OfHost(Live, x))' = Net(OfHost(T, x))
  BY <1>3 DEF Amount, Net, OfPayer, OfHost
<1> QED BY <1>2, <1>4, <1>5

\* What a withdrawal's lines take is an amount,
LEMMA OwedType ==
    ASSUME NEW lines, NEW c \in Nat
    PROVE  OwedOf(lines, c) \in Int
  BY DEF OwedOf

\* and so is what a host's withdrawals took.
LEMMA OwingType == \A h : IsFiniteSet(Of(h)) /\ Owing(h) \in Int
<1> TAKE h
<1>1. IsFiniteSet(Of(h))
  BY PurchasesFinite, FS_Subset DEF Of
<1>2. \A w \in Of(h) : Owed[w] \in Int
  BY StatementsAssumption, OwedType DEF Of, Owed
<1> QED BY <1>1, <1>2, SumInt DEF Owing

\* What a purchase, or its end, does to the rows that are still paid for is what
\* Move does to the money.
LEMMA MoneyFollows ==
    ASSUME MoneyTypes, MoneyTrue, NEW b \in Purchases, NEW a \in Int, NEW n \in Int, Moves(b, a, n),
           Amount(OfPayer(Live, PayerOf[b]))' = Amount(OfPayer(Live, PayerOf[b])) + a,
           Net(OfHost(Live, HostsOf[b]))' = Net(OfHost(Live, HostsOf[b])) + n,
           \A g \in Payers \ {PayerOf[b]} : Amount(OfPayer(Live, g))' = Amount(OfPayer(Live, g)),
           \A h \in HostSet \ {HostsOf[b]} : Net(OfHost(Live, h))' = Net(OfHost(Live, h)),
           entries' = entries
    PROVE  MoneyTypes' /\ MoneyTrue'
<1>1. PICK g \in Payers : g = PayerOf[b]
  BY PurchaseParts
<1>2. PICK h \in HostSet : h = HostsOf[b]
  BY PurchaseParts
<1>3. aggregate[h] + n >= 0
  <2>1. aggregate[h] = Net(OfHost(Live, h)) /\ Net(OfHost(Live, h))' = Net(OfHost(Live, h)) + n
    BY <1>2 DEF MoneyTrue
  <2>2. Net(OfHost(Live, h))' \in Nat
    BY LiveSums
  <2> QED BY <2>1, <2>2
<1>4. /\ MoneyTypes'
      /\ stored'[g] = stored[g] - a /\ ledger'[g] = ledger[g] - a
      /\ aggregate'[h] = aggregate[h] + n /\ ledger'[h] = ledger[h] + n
      /\ \A x \in Payers \ {g} : stored'[x] = stored[x] /\ ledger'[x] = ledger[x]
      /\ \A x \in HostSet \ {h} : aggregate'[x] = aggregate[x] /\ ledger'[x] = ledger[x]
  BY <1>1, <1>2, <1>3, MoveMoves
<1>5. \A x : Owing(x)' = Owing(x) /\ Owing(x) \in Int
  BY OwingType DEF Owing, Owed, Of
<1>6. stored'[g] = TopUps - Amount(OfPayer(Live, g))' /\ ledger'[g] = stored'[g]
  <2>1. stored[g] = TopUps - Amount(OfPayer(Live, g)) /\ ledger[g] = stored[g]
    BY DEF MoneyTrue
  <2>2. TopUps \in Int /\ Amount(OfPayer(Live, g)) \in Int /\ Amount(OfPayer(Live, g))' \in Int
    BY StatementsAssumption, LiveSums
  <2>3. Amount(OfPayer(Live, g))' = Amount(OfPayer(Live, g)) + a
    BY <1>1
  <2> QED BY <1>4, <2>1, <2>2, <2>3
<1>7. /\ aggregate'[h] = Net(OfHost(Live, h))'
      /\ ledger'[h] = Net(OfHost(Live, h))' - Owing(h)'
  <2>1. aggregate[h] = Net(OfHost(Live, h)) /\ ledger[h] = Net(OfHost(Live, h)) - Owing(h)
    BY DEF MoneyTrue
  <2>2. Net(OfHost(Live, h)) \in Int /\ Net(OfHost(Live, h))' \in Int
        /\ Owing(h) \in Int /\ Owing(h)' = Owing(h)
    BY <1>5, LiveSums
  <2>3. Net(OfHost(Live, h))' = Net(OfHost(Live, h)) + n
    BY <1>2
  <2> QED BY <1>4, <2>1, <2>2, <2>3
<1>8. ASSUME NEW x \in Payers
      PROVE  stored'[x] = TopUps - Amount(OfPayer(Live, x))' /\ ledger'[x] = stored'[x]
  <2>1. CASE x = g
    BY <1>6, <2>1
  <2>2. CASE x # g
    BY <1>1, <1>4, <2>2 DEF MoneyTrue
  <2> QED BY <2>1, <2>2
<1>9. ASSUME NEW x \in HostSet
      PROVE  /\ aggregate'[x] = Net(OfHost(Live, x))'
             /\ ledger'[x] = Net(OfHost(Live, x))' - Owing(x)'
  <2>1. CASE x = h
    BY <1>7, <2>1
  <2>2. CASE x # h
    BY <1>2, <1>4, <1>5, <2>2 DEF MoneyTrue
  <2> QED BY <2>1, <2>2
<1> QED BY <1>4, <1>8, <1>9 DEF MoneyTrue

\* A purchase keeps the money true.
LEMMA PurchaseBooked ==
    ASSUME MoneyTypes, MoneyTrue, NEW b \in Purchases \ Live, Move(b, 1),
           Live' = Live \cup {b}, entries' = entries
    PROVE  MoneyTypes' /\ MoneyTrue'
<1>1. PICK a \in Nat : a = ChargeOf[b].amount
  BY PurchaseParts
<1>2. PICK n \in Nat : n = ChargeOf[b].net
  BY PurchaseParts
<1>3. PICK S \in SUBSET Purchases : S = Live
  BY LivePurchases
<1>4. \A x : /\ Amount(OfPayer(Live, x))' = Amount(OfPayer(S \cup {b}, x))
             /\ Net(OfHost(Live, x))' = Net(OfHost(S \cup {b}, x))
  BY <1>3 DEF Amount, Net, OfPayer, OfHost
<1>5. /\ \A g : Amount(OfPayer(S \cup {b}, g)) = Amount(OfPayer(S, g)) + IF PayerOf[b] = g THEN a ELSE 0
      /\ \A h : Net(OfHost(S \cup {b}, h)) = Net(OfHost(S, h)) + IF HostsOf[b] = h THEN n ELSE 0
  <2>1. b \in Purchases \ S
    BY <1>3
  <2>2. /\ \A g : Amount(OfPayer(S \cup {b}, g))
                    = Amount(OfPayer(S, g)) + IF PayerOf[b] = g THEN ChargeOf[b].amount ELSE 0
        /\ \A h : Net(OfHost(S \cup {b}, h))
                    = Net(OfHost(S, h)) + IF HostsOf[b] = h THEN ChargeOf[b].net ELSE 0
    BY <2>1, OneMorePurchase
  <2> QED BY <1>1, <1>2, <2>2, Zenon
<1>6. /\ Amount(OfPayer(Live, PayerOf[b]))' = Amount(OfPayer(Live, PayerOf[b])) + a
      /\ Net(OfHost(Live, HostsOf[b]))' = Net(OfHost(Live, HostsOf[b])) + n
  BY <1>3, <1>4, <1>5
<1>7. \A g : Amount(OfPayer(S, g)) \in Int /\ Net(OfHost(S, g)) \in Int
  BY <1>3, LiveSums
<1>8. \A g \in Payers \ {PayerOf[b]} : Amount(OfPayer(Live, g))' = Amount(OfPayer(Live, g))
  <2> TAKE g \in Payers \ {PayerOf[b]}
  <2>1. Amount(OfPayer(S \cup {b}, g)) = Amount(OfPayer(S, g)) + 0
    BY <1>5
  <2> QED BY <1>3, <1>4, <1>7, <2>1
<1>9. \A h \in HostSet \ {HostsOf[b]} : Net(OfHost(Live, h))' = Net(OfHost(Live, h))
  <2> TAKE h \in HostSet \ {HostsOf[b]}
  <2>1. Net(OfHost(S \cup {b}, h)) = Net(OfHost(S, h)) + 0
    BY <1>5
  <2> QED BY <1>3, <1>4, <1>7, <2>1
<1>10. Moves(b, a, n)
  BY <1>1, <1>2, MoveIsMoves
<1>11. b \in Purchases /\ a \in Int /\ n \in Int
  OBVIOUS
<1> QED BY <1>6, <1>8, <1>9, <1>10, <1>11, MoneyFollows

\* So does its refund; the total never has to be cut off at zero.
LEMMA PurchaseEnded ==
    ASSUME MoneyTypes, MoneyTrue, NEW b \in Live, Move(b, -1),
           Live' = Live \ {b}, entries' = entries
    PROVE  MoneyTypes' /\ MoneyTrue'
<1>0. b \in Purchases
  BY LivePurchases
<1>1. PICK a \in Int : a = -ChargeOf[b].amount /\ a + ChargeOf[b].amount = 0
  <2>1. PICK c \in Nat : c = ChargeOf[b].amount
    BY <1>0, PurchaseParts
  <2>2. -c \in Int /\ -c + c = 0
    OBVIOUS
  <2> QED BY <2>1, <2>2
<1>2. PICK n \in Int : n = -ChargeOf[b].net /\ n + ChargeOf[b].net = 0
  <2>1. PICK c \in Nat : c = ChargeOf[b].net
    BY <1>0, PurchaseParts
  <2>2. -c \in Int /\ -c + c = 0
    OBVIOUS
  <2> QED BY <2>1, <2>2
<1>3. PICK S \in SUBSET Purchases : S = Live \ {b} /\ b \in Purchases \ S /\ S \cup {b} = Live
  BY LivePurchases
<1>4. \A x : /\ Amount(OfPayer(Live, x))' = Amount(OfPayer(S, x))
             /\ Net(OfHost(Live, x))' = Net(OfHost(S, x))
  BY <1>3 DEF Amount, Net, OfPayer, OfHost
<1>5. /\ \A g : Amount(OfPayer(Live, g))
                  = Amount(OfPayer(S, g)) + IF PayerOf[b] = g THEN ChargeOf[b].amount ELSE 0
      /\ \A h : Net(OfHost(Live, h))
                  = Net(OfHost(S, h)) + IF HostsOf[b] = h THEN ChargeOf[b].net ELSE 0
  <2>1. /\ \A g : Amount(OfPayer(S \cup {b}, g))
                    = Amount(OfPayer(S, g)) + IF PayerOf[b] = g THEN ChargeOf[b].amount ELSE 0
        /\ \A h : Net(OfHost(S \cup {b}, h))
                    = Net(OfHost(S, h)) + IF HostsOf[b] = h THEN ChargeOf[b].net ELSE 0
    BY <1>3, OneMorePurchase
  <2> QED BY <1>3, <2>1
<1>6. \A g : Amount(OfPayer(S, g)) \in Int /\ Net(OfHost(S, g)) \in Int
  <2>1. \A g : /\ OfPayer(S, g) \in SUBSET Purchases /\ OfHost(S, g) \in SUBSET Purchases
    BY DEF OfPayer, OfHost
  <2> QED BY <2>1, SumTypes
<1>7. ChargeOf[b].amount \in Nat /\ ChargeOf[b].net \in Nat
  BY <1>0, PurchaseParts
<1>8. /\ Amount(OfPayer(Live, PayerOf[b])) = Amount(OfPayer(S, PayerOf[b])) + ChargeOf[b].amount
      /\ Net(OfHost(Live, HostsOf[b])) = Net(OfHost(S, HostsOf[b])) + ChargeOf[b].net
  BY <1>5
<1>9. /\ Amount(OfPayer(Live, PayerOf[b]))' = Amount(OfPayer(Live, PayerOf[b])) + a
      /\ Net(OfHost(Live, HostsOf[b]))' = Net(OfHost(Live, HostsOf[b])) + n
  <2>1. /\ Amount(OfPayer(S, PayerOf[b])) = Amount(OfPayer(Live, PayerOf[b])) + a
        /\ Net(OfHost(S, HostsOf[b])) = Net(OfHost(Live, HostsOf[b])) + n
    BY <1>1, <1>2, <1>6, <1>7, <1>8
  <2> QED BY <1>4, <2>1
<1>10. \A g \in Payers \ {PayerOf[b]} : Amount(OfPayer(Live, g))' = Amount(OfPayer(Live, g))
  <2> TAKE g \in Payers \ {PayerOf[b]}
  <2>1. Amount(OfPayer(Live, g)) = Amount(OfPayer(S, g)) + 0
    BY <1>5
  <2>2. Amount(OfPayer(S, g)) \in Int
    BY <1>6
  <2>3. Amount(OfPayer(Live, g)) = Amount(OfPayer(S, g))
    BY <2>1, <2>2
  <2> QED BY <1>4, <2>3
<1>11. \A h \in HostSet \ {HostsOf[b]} : Net(OfHost(Live, h))' = Net(OfHost(Live, h))
  <2> TAKE h \in HostSet \ {HostsOf[b]}
  <2>1. Net(OfHost(Live, h)) = Net(OfHost(S, h)) + 0
    BY <1>5
  <2>2. Net(OfHost(S, h)) \in Int
    BY <1>6
  <2>3. Net(OfHost(Live, h)) = Net(OfHost(S, h))
    BY <2>1, <2>2
  <2> QED BY <1>4, <2>3
<1>12. Moves(b, a, n)
  BY <1>0, <1>1, <1>2, MoveIsMoves
<1> QED BY <1>0, <1>9, <1>10, <1>11, <1>12, MoneyFollows

------------------------------------------------------------------------------
(* A withdrawal, between its request, the provider and the webhooks.       *)

Before == {"new", "checking", "debiting"}

\* Debited, and nothing more.
Fresh(lines, way, marks, said) ==
    lines = {"debit"} /\ way = "none" /\ marks = {} /\ said = "nothing"

\* Where a withdrawal may stand of which every write went through and whose answers
\* came in the provider's order: the row says what was last written of it, a
\* failure or a reversal was credited before it was written, and only once.
SoundAs(stage, row, lines, way, marks, said) ==
    /\ stage \in Before => lines = {} /\ way = "none" /\ marks = {} /\ said = "nothing" /\ row = "none"
    /\ stage \notin Before => "debit" \in lines
    /\ stage = "opening" => Fresh(lines, way, marks, said) /\ row = "none"
    /\ stage = "starting" => Fresh(lines, way, marks, said) /\ row = "pending"
    /\ stage = "sending" => Fresh(lines, way, marks, said) /\ row \in {"pending", "processing"}
    /\ stage = "completing" => way \in {"completed", "reversed"}
    /\ stage \in {"completing", "failing", "reversing"} => "start" \notin lines
    /\ stage \in {"completing", "failing"} => row # "none"
    /\ stage = "reversing" => said = "failed" \/ (Fresh(lines, way, marks, said) /\ row = "none")
    /\ marks \subseteq lines
    /\ "failed" \in lines => way = "failed"
    /\ "reversed" \in lines => way = "reversed"
    /\ "start" \in lines => said = "failed" \/ (said = "nothing" /\ row = "none")
    /\ row = "none" => way = "none"
    /\ said = "nothing" =>
          /\ row \in {"none", "pending", "processing"}
          /\ lines \cap Credits \subseteq marks
          /\ row = "none" /\ stage = "over" => "start" \in lines
    /\ said # "nothing" => row = said
    /\ said = "completed" => lines \cap Credits \subseteq marks
    /\ said = "failed" =>
          /\ "reversed" \in lines => "reversed" \in marks
          /\ \/ "start" \in lines \/ stage = "reversing"
             \/ "failed" \in lines /\ "failed" \notin marks
          /\ "start" \in lines \/ stage = "reversing" => ("failed" \in lines => "failed" \in marks)
    /\ said = "reversed" => "reversed" \in lines /\ "failed" \notin lines /\ "start" \notin lines

\* Of the others nothing is claimed: nobody settles them again.
SoundUnless(w, stage, row, lines, way, marks, said) ==
    w \in cut \/ said = "more" \/ SoundAs(stage, row, lines, way, marks, said)
Sound(w) ==
    SoundUnless(w, withdrawal[w], payoutRow[w], entries[w], provider[w], marking[w], heard[w])
PayoutTrue == \A w \in Payouts : Sound(w)

------------------------------------------------------------------------------
(* What the writes keep.                                                   *)

RowsTrue == StTypeOK /\ StatusTrue /\ MoneyTrue /\ PayoutTrue

\* No booking is a pass.
LEMMA SalesApart == Sales \cap Coverage = {} /\ Sales \subseteq Purchases /\ Coverage \subseteq Purchases
  BY StatementsAssumption DEF Purchases

\* Money that nobody moves.
LEMMA MoneyStays ==
    ASSUME MoneyTrue, UNCHANGED <<sold, passStatus, entries, stored, ledger, aggregate>>
    PROVE  MoneyTrue'
<1>1. \A x : /\ Amount(OfPayer(Live, x))' = Amount(OfPayer(Live, x))
             /\ Net(OfHost(Live, x))' = Net(OfHost(Live, x))
             /\ Owing(x)' = Owing(x)
  BY DEF Amount, Net, OfPayer, OfHost, Live, Confirmed, With, ActivePasses, Owing, Owed, Of
<1>2. ASSUME NEW g \in Payers
      PROVE  stored'[g] = TopUps - Amount(OfPayer(Live, g))' /\ ledger'[g] = stored'[g]
  <2>1. stored[g] = TopUps - Amount(OfPayer(Live, g)) /\ ledger[g] = stored[g]
    BY DEF MoneyTrue
  <2> QED BY <1>1, <2>1
<1>3. ASSUME NEW h \in HostSet
      PROVE  aggregate'[h] = Net(OfHost(Live, h))' /\ ledger'[h] = Net(OfHost(Live, h))' - Owing(h)'
  <2>1. aggregate[h] = Net(OfHost(Live, h)) /\ ledger[h] = Net(OfHost(Live, h)) - Owing(h)
    BY DEF MoneyTrue
  <2> QED BY <1>1, <2>1
<1> QED BY <1>2, <1>3 DEF MoneyTrue

\* Withdrawals that nobody moves.
LEMMA PayoutsStay ==
    ASSUME UNCHANGED payouts
    PROVE  (PayoutTypes => PayoutTypes') /\ (PayoutTrue => PayoutTrue') /\ UNCHANGED <<entries, payoutRow>>
<1>1. UNCHANGED <<payoutRow, entries, withdrawal, provider, marking, heard, cut>>
  BY DEF payouts
<1> QED BY <1>1 DEF PayoutTypes, PayoutTrue, Sound, SoundUnless

\* A booking.
LEMMA BookKeeps ==
    ASSUME RowsTrue, NEW b \in Sales, Book(b)
    PROVE  RowsTrue'
<1>1. /\ sold[b] = "none" /\ sold' = [sold EXCEPT ![b] = "confirmed"] /\ Move(b, 1)
      /\ UNCHANGED <<past, passStatus, reviewed, payouts>>
  BY DEF Book
<1>2. sold \in [Sales -> {"none", "confirmed"} \cup Ended]
  BY DEF RowsTrue, StTypeOK
<1>3. Live' = Live \cup {b} /\ b \in Purchases \ Live
  <2>1. Confirmed' = Confirmed \cup {b} /\ b \notin Confirmed
    BY <1>1, <1>2 DEF Confirmed, With
  <2>2. ActivePasses' = ActivePasses /\ b \notin ActivePasses
    BY <1>1, SalesApart DEF ActivePasses
  <2> QED BY <2>1, <2>2, SalesApart DEF Live
<1>4. MoneyTypes' /\ MoneyTrue'
  BY <1>1, <1>3, PayoutsStay, PurchaseBooked DEF RowsTrue, StTypeOK, MoneyTypes
<1>5. PayoutTypes' /\ PayoutTrue'
  BY <1>1, PayoutsStay DEF RowsTrue, StTypeOK
<1>6. StTypeOK'
  BY <1>1, <1>2, <1>4, <1>5 DEF RowsTrue, StTypeOK, MoneyTypes
<1>7. StatusTrue'
  BY <1>1, <1>2 DEF RowsTrue, StatusTrue
<1> QED BY <1>4, <1>5, <1>6, <1>7 DEF RowsTrue

\* Its cancellation.
LEMMA CancelKeeps ==
    ASSUME RowsTrue, NEW b \in Sales, Cancel(b)
    PROVE  RowsTrue'
<1>1. PICK x \in Ended : x = IF ChargeOf[b].amount > 0 THEN "refunded" ELSE "cancelled"
  BY DEF Ended
<1>2. /\ sold[b] = "confirmed" /\ sold' = [sold EXCEPT ![b] = x] /\ Move(b, -1)
      /\ UNCHANGED <<past, passStatus, reviewed, payouts>>
  BY <1>1 DEF Cancel
<1>3. sold \in [Sales -> {"none", "confirmed"} \cup Ended]
  BY DEF RowsTrue, StTypeOK
<1>4. Live' = Live \ {b} /\ b \in Live
  <2>1. Confirmed' = Confirmed \ {b} /\ b \in Confirmed
    BY <1>2, <1>3 DEF Confirmed, With, Ended
  <2>2. ActivePasses' = ActivePasses /\ b \notin ActivePasses
    BY <1>2, SalesApart DEF ActivePasses
  <2> QED BY <2>1, <2>2 DEF Live
<1>5. MoneyTypes' /\ MoneyTrue'
  BY <1>2, <1>4, PayoutsStay, PurchaseEnded DEF RowsTrue, StTypeOK, MoneyTypes
<1>p. PayoutTypes' /\ PayoutTrue'
  BY <1>2, PayoutsStay DEF RowsTrue, StTypeOK
<1>6. StTypeOK'
  BY <1>2, <1>3, <1>5, <1>p DEF RowsTrue, StTypeOK, MoneyTypes
<1>7. StatusTrue'
  <2>1. ChargeOf[b].amount \in Nat
    BY SalesApart, PurchaseParts
  <2>2. /\ x = "cancelled" => ChargeOf[b].amount = 0
        /\ x = "refunded" => ChargeOf[b].amount > 0
    BY <1>1, <2>1
  <2> QED BY <1>2, <1>3, <2>2 DEF RowsTrue, StatusTrue
<1> QED BY <1>5, <1>p, <1>6, <1>7 DEF RowsTrue

\* A pass, sold or refunded.
LEMMA PassesKeep ==
    ASSUME RowsTrue, NEW p \in Coverage, SellPass(p) \/ RefundPass(p)
    PROVE  RowsTrue'
<1>1. passStatus \in [Coverage -> {"none", "active", "cancelled"}] /\ p \in Purchases
  BY SalesApart DEF RowsTrue, StTypeOK
<1>2. p \notin Confirmed /\ (UNCHANGED sold => Confirmed' = Confirmed)
  BY SalesApart DEF Confirmed, With
<1>3. CASE SellPass(p)
  <2>1. /\ passStatus[p] = "none" /\ passStatus' = [passStatus EXCEPT ![p] = "active"] /\ Move(p, 1)
        /\ UNCHANGED <<sold, past, reviewed, payouts>>
    BY <1>3 DEF SellPass
  <2>2. Live' = Live \cup {p} /\ p \in Purchases \ Live
    <3>1. ActivePasses' = ActivePasses \cup {p} /\ p \notin ActivePasses
      BY <1>1, <2>1 DEF ActivePasses
    <3> QED BY <1>1, <1>2, <2>1, <3>1 DEF Live
  <2>3. MoneyTypes' /\ MoneyTrue'
    BY <2>1, <2>2, PayoutsStay, PurchaseBooked DEF RowsTrue, StTypeOK, MoneyTypes
  <2>4. PayoutTypes' /\ PayoutTrue'
    BY <2>1, PayoutsStay DEF RowsTrue, StTypeOK
  <2>5. StTypeOK' /\ StatusTrue'
    BY <1>1, <2>1, <2>3, <2>4 DEF RowsTrue, StTypeOK, MoneyTypes, StatusTrue
  <2> QED BY <2>3, <2>4, <2>5 DEF RowsTrue
<1>4. CASE RefundPass(p)
  <2>1. /\ passStatus[p] = "active" /\ passStatus' = [passStatus EXCEPT ![p] = "cancelled"] /\ Move(p, -1)
        /\ UNCHANGED <<sold, past, reviewed, payouts>>
    BY <1>4 DEF RefundPass
  <2>2. Live' = Live \ {p} /\ p \in Live
    <3>1. ActivePasses' = ActivePasses \ {p} /\ p \in ActivePasses
      BY <1>1, <2>1 DEF ActivePasses
    <3> QED BY <1>1, <1>2, <2>1, <3>1 DEF Live
  <2>3. MoneyTypes' /\ MoneyTrue'
    BY <2>1, <2>2, PayoutsStay, PurchaseEnded DEF RowsTrue, StTypeOK, MoneyTypes
  <2>4. PayoutTypes' /\ PayoutTrue'
    BY <2>1, PayoutsStay DEF RowsTrue, StTypeOK
  <2>5. StTypeOK' /\ StatusTrue'
    BY <1>1, <2>1, <2>3, <2>4 DEF RowsTrue, StTypeOK, MoneyTypes, StatusTrue
  <2> QED BY <2>3, <2>4, <2>5 DEF RowsTrue
<1> QED BY <1>3, <1>4

\* An occurrence that is over.
LEMMA TakePlaceKeeps ==
    ASSUME RowsTrue, NEW b \in Sales, TakePlace(b)
    PROVE  RowsTrue'
<1>1. /\ past' = past \cup {b}
      /\ UNCHANGED <<sold, passStatus, reviewed, payouts, stored, ledger, aggregate>>
  BY DEF TakePlace, wallets
<1>2. PayoutTypes' /\ PayoutTrue' /\ UNCHANGED entries
  BY <1>1, PayoutsStay DEF RowsTrue, StTypeOK
<1>3. StTypeOK' /\ StatusTrue'
  BY <1>1, <1>2 DEF RowsTrue, StTypeOK, StatusTrue
<1>4. MoneyTrue'
  BY <1>1, <1>2, MoneyStays DEF RowsTrue
<1> QED BY <1>2, <1>3, <1>4 DEF RowsTrue

\* A review.
LEMMA WriteReviewKeeps ==
    ASSUME RowsTrue, NEW h \in HostSet, WriteReview(h)
    PROVE  RowsTrue'
<1>1. /\ reviewed' = [reviewed EXCEPT ![h] = @ + 1]
      /\ UNCHANGED <<sold, past, passStatus, payouts, stored, ledger, aggregate>>
  BY DEF WriteReview, wallets
<1>2. PayoutTypes' /\ PayoutTrue' /\ UNCHANGED entries
  BY <1>1, PayoutsStay DEF RowsTrue, StTypeOK
<1>3. StTypeOK' /\ StatusTrue'
  BY <1>1, <1>2 DEF RowsTrue, StTypeOK, StatusTrue
<1>4. MoneyTrue'
  BY <1>1, <1>2, MoneyStays DEF RowsTrue
<1> QED BY <1>2, <1>3, <1>4 DEF RowsTrue

------------------------------------------------------------------------------
(* Withdrawals.                                                            *)

\* What one line more takes from the ledger.
LEMMA OneMoreLine ==
    ASSUME NEW lines, NEW line \in Lines, line \notin lines, NEW c \in Nat
    PROVE  OwedOf(lines \cup {line}, c) = OwedOf(lines, c) + IF line = "debit" THEN c ELSE -c
<1>1. \A x : x \in lines \cup {line} <=> x \in lines \/ x = line
  OBVIOUS
<1>2. CASE line = "debit"
  BY <1>1, <1>2 DEF OwedOf
<1>3. CASE line = "start"
  BY <1>1, <1>3 DEF OwedOf
<1>4. CASE line = "failed"
  BY <1>1, <1>4 DEF OwedOf
<1>5. CASE line = "reversed"
  BY <1>1, <1>5 DEF OwedOf
<1> QED BY <1>2, <1>3, <1>4, <1>5 DEF Lines

\* A line takes as much from its host's ledger as it adds to what the host's
\* withdrawals took, and nothing from another's.
LEMMA EnterMoves ==
    ASSUME RowsTrue, NEW w \in Payouts, NEW line \in Lines, Enter(line, w)
    PROVE  \E d \in Int :
              /\ ledger' = [ledger EXCEPT ![PayeeOf[w]] = @ - d]
              /\ Owing(PayeeOf[w])' = Owing(PayeeOf[w]) + d
              /\ \A h \in HostSet \ {PayeeOf[w]} : Owing(h)' = Owing(h)
<1>1. PICK c \in Nat : c = PayoutCents[w]
  BY StatementsAssumption
<1>2. PICK d \in Int : d = IF line = "debit" THEN c ELSE -c
  OBVIOUS
<1>3. PICK k \in HostSet : k = PayeeOf[w]
  BY StatementsAssumption
<1>4. ledger' = [ledger EXCEPT ![k] = @ - d]
  <2>1. ledger[k] \in Int
    BY AccountsApart DEF RowsTrue, StTypeOK
  <2>2. PICK l \in Int : l = ledger[k]
    BY <2>1
  <2>3. ledger' = [ledger EXCEPT ![k] = IF line = "debit" THEN l - c ELSE l + c]
    BY <1>1, <1>3, <2>2 DEF Enter
  <2>4. (IF line = "debit" THEN l - c ELSE l + c) = l - d
    BY <1>2
  <2> QED BY <2>2, <2>3, <2>4
<1>5. PICK f : f = Owed
  OBVIOUS
<1>6. PICK g : g = Owed'
  OBVIOUS
<1>7. \A v \in Payouts : f[v] \in Int /\ g[v] \in Int
  BY <1>5, <1>6, OwedType, StatementsAssumption DEF Owed
<1>8. \A v \in Payouts \ {w} : g[v] = f[v]
  <2>1. \A v \in Payouts \ {w} : entries'[v] = entries[v]
    BY DEF Enter, RowsTrue, StTypeOK, PayoutTypes
  <2> QED BY <1>5, <1>6, <2>1 DEF Owed
<1>9. g[w] = f[w] + d
  <2>1. entries'[w] = entries[w] \cup {line} /\ line \notin entries[w]
    BY DEF Enter, RowsTrue, StTypeOK, PayoutTypes
  <2>2. OwedOf(entries[w] \cup {line}, c) = OwedOf(entries[w], c) + d
    BY <1>2, <2>1, OneMoreLine
  <2>3. f[w] = OwedOf(entries[w], c) /\ g[w] = OwedOf(entries'[w], c)
    BY <1>1, <1>5, <1>6 DEF Owed
  <2> QED BY <2>1, <2>2, <2>3
<1>10. \A h : Owing(h) = SumFunctionOnSet(f, Of(h)) /\ Owing(h)' = SumFunctionOnSet(g, Of(h))
  BY <1>5, <1>6 DEF Owing, Of
<1>11. Owing(k)' = Owing(k) + d
  <2>1. IsFiniteSet(Of(k)) /\ w \in Of(k) /\ Of(k) \subseteq Payouts
    BY <1>3, OwingType DEF Of
  <2>2. SumFunctionOnSet(g, Of(k)) = SumFunctionOnSet(f, Of(k)) + (g[w] - f[w])
    BY <1>7, <1>8, <2>1, SumChange
  <2>3. g[w] - f[w] = d
    BY <1>7, <1>9
  <2> QED BY <1>10, <2>2, <2>3
<1>12. ASSUME NEW h \in HostSet \ {k} PROVE Owing(h)' = Owing(h)
  <2>1. IsFiniteSet(Of(h)) /\ \A v \in Of(h) : v \in Payouts \ {w}
    BY <1>3, OwingType DEF Of
  <2>2. SumFunctionOnSet(f, Of(h)) = SumFunctionOnSet(g, Of(h))
    BY <1>8, <2>1, SumSame
  <2> QED BY <1>10, <2>2
<1> QED BY <1>3, <1>4, <1>11, <1>12

\* So the money stays true.
LEMMA EnterKeepsMoney ==
    ASSUME RowsTrue, NEW w \in Payouts, NEW line \in Lines, Enter(line, w),
           UNCHANGED <<sales, wallets>>
    PROVE  ledger' \in [Accounts -> Int] /\ MoneyTrue'
<1>0. PICK d \in Int :
        /\ ledger' = [ledger EXCEPT ![PayeeOf[w]] = @ - d]
        /\ Owing(PayeeOf[w])' = Owing(PayeeOf[w]) + d
        /\ \A h \in HostSet \ {PayeeOf[w]} : Owing(h)' = Owing(h)
  BY EnterMoves
<1>u. UNCHANGED <<sold, passStatus, stored, aggregate>>
  BY DEF sales, wallets
<1>1. PICK k \in HostSet : k = PayeeOf[w]
  BY StatementsAssumption
<1>2. ledger \in [Accounts -> Int] /\ k \in Accounts /\ k \notin Payers
  BY AccountsApart DEF RowsTrue, StTypeOK
<1>3. /\ ledger' \in [Accounts -> Int] /\ ledger'[k] = ledger[k] - d
      /\ \A x \in Accounts \ {k} : ledger'[x] = ledger[x]
  <2>1. ledger[k] - d \in Int
    BY <1>2
  <2>2. ledger' = [ledger EXCEPT ![k] = ledger[k] - d]
    BY <1>0, <1>1
  <2> QED BY <1>2, <2>1, <2>2
<1>4. \A x : /\ Amount(OfPayer(Live, x))' = Amount(OfPayer(Live, x))
             /\ Net(OfHost(Live, x))' = Net(OfHost(Live, x))
  BY <1>u DEF Amount, Net, OfPayer, OfHost, Live, Confirmed, With, ActivePasses
<1>5. ASSUME NEW g \in Payers
      PROVE  stored'[g] = TopUps - Amount(OfPayer(Live, g))' /\ ledger'[g] = stored'[g]
  BY <1>u, <1>2, <1>3, <1>4, AccountsApart DEF RowsTrue, MoneyTrue
<1>6. ASSUME NEW h \in HostSet
      PROVE  aggregate'[h] = Net(OfHost(Live, h))' /\ ledger'[h] = Net(OfHost(Live, h))' - Owing(h)'
  <2>1. aggregate[h] = Net(OfHost(Live, h)) /\ ledger[h] = Net(OfHost(Live, h)) - Owing(h)
    BY DEF RowsTrue, MoneyTrue
  <2>2. CASE h # k
    <3>1. ledger'[h] = ledger[h] /\ Owing(h)' = Owing(h)
      BY <1>0, <1>1, <1>3, <2>2, AccountsApart
    <3> QED BY <1>u, <1>4, <2>1, <3>1
  <2>3. CASE h = k
    <3>1. ledger'[h] = ledger[h] - d /\ Owing(h)' = Owing(h) + d
      BY <1>0, <1>1, <1>3, <2>3
    <3>2. Net(OfHost(Live, h)) \in Int /\ Owing(h) \in Int
      BY LiveSums, OwingType
    <3>3. ledger'[h] = Net(OfHost(Live, h)) - (Owing(h) + d)
      BY <2>1, <3>1, <3>2
    <3> QED BY <1>u, <1>4, <2>1, <3>1, <3>3
  <2> QED BY <2>2, <2>3
<1> QED BY <1>3, <1>5, <1>6 DEF MoneyTrue

\* A function that is given back one of its values.
LEMMA SameFunction ==
    ASSUME NEW D, NEW T, NEW f \in [D -> T], NEW x \in D
    PROVE  f = [f EXCEPT ![x] = f[x]]
  OBVIOUS

\* A step of one withdrawal, and how it leaves it.
Leaves(w, stage, row, lines, way, marks, said, failed) ==
    /\ withdrawal' = [withdrawal EXCEPT ![w] = stage]
    /\ payoutRow' = [payoutRow EXCEPT ![w] = row]
    /\ entries' = [entries EXCEPT ![w] = lines]
    /\ provider' = [provider EXCEPT ![w] = way]
    /\ marking' = [marking EXCEPT ![w] = marks]
    /\ heard' = [heard EXCEPT ![w] = said]
    /\ cut' = cut \cup failed

\* A step leaves the other withdrawals where they stand.
LEMMA OthersStay ==
    ASSUME StTypeOK, PayoutTrue, NEW w \in Payouts, NEW stage \in Stages, NEW row \in Rows,
           NEW lines \in SUBSET Lines, NEW way \in Ways, NEW marks \in SUBSET Credits,
           NEW said \in Heard, NEW failed, Leaves(w, stage, row, lines, way, marks, said, failed),
           w \in failed \/ SoundUnless(w, stage, row, lines, way, marks, said)
    PROVE  PayoutTypes' /\ PayoutTrue'
<1>1. PayoutTypes
  BY DEF StTypeOK
<1>2. PayoutTypes'
  BY <1>1 DEF PayoutTypes, Leaves
<1>3. Sound(w)'
  <2>1. /\ withdrawal'[w] = stage /\ payoutRow'[w] = row /\ entries'[w] = lines
        /\ provider'[w] = way /\ marking'[w] = marks /\ heard'[w] = said
    BY <1>1 DEF PayoutTypes, Leaves
  <2>2. w \in cut' \/ said = "more" \/ SoundAs(stage, row, lines, way, marks, said)
    BY DEF Leaves, SoundUnless
  <2> QED BY <2>1, <2>2 DEF Sound, SoundUnless
<1>4. ASSUME NEW v \in Payouts \ {w} PROVE Sound(v)'
  <2>1. /\ withdrawal'[v] = withdrawal[v] /\ payoutRow'[v] = payoutRow[v]
        /\ entries'[v] = entries[v] /\ provider'[v] = provider[v]
        /\ marking'[v] = marking[v] /\ heard'[v] = heard[v]
        /\ (v \in cut => v \in cut')
    BY <1>1 DEF PayoutTypes, Leaves
  <2>2. Sound(v)
    BY DEF PayoutTrue
  <2> QED BY <2>1, <2>2 DEF Sound, SoundUnless
<1> QED BY <1>2, <1>3, <1>4 DEF PayoutTrue

\* A withdrawal as it stands.
Stands(w, stage, row, lines, way, marks, said) ==
    /\ withdrawal[w] = stage /\ payoutRow[w] = row /\ entries[w] = lines
    /\ provider[w] = way /\ marking[w] = marks /\ heard[w] = said

\* Once too much was heard, more is too much.
LEMMA HearTypes ==
    ASSUME NEW was \in Heard, NEW answer \in {"completed", "failed", "reversed"}
    PROVE  Hear(was, answer) \in Heard /\ (was = "more" => Hear(was, answer) = "more")
  BY DEF Hear, Heard

\* A step that writes no line keeps the rows true, if it leaves its own withdrawal
\* as one may stand.
LEMMA NoLineKeeps ==
    ASSUME RowsTrue, NEW w \in Payouts, UNCHANGED <<sales, wallets, ledger, entries>>,
           PayoutTypes', PayoutTrue'
    PROVE  RowsTrue'
<1>1. UNCHANGED <<sold, past, passStatus, reviewed, stored, aggregate, ledger, entries>>
  BY DEF sales, wallets
<1>2. StTypeOK' /\ StatusTrue'
  BY <1>1 DEF RowsTrue, StTypeOK, StatusTrue
<1>3. MoneyTrue'
  BY <1>1, MoneyStays DEF RowsTrue
<1> QED BY <1>2, <1>3 DEF RowsTrue

\* And so does one that writes a line.
LEMMA LineKeeps ==
    ASSUME RowsTrue, NEW w \in Payouts, UNCHANGED <<sales, wallets>>,
           NEW line \in Lines, Enter(line, w), PayoutTypes', PayoutTrue'
    PROVE  RowsTrue'
<1>1. UNCHANGED <<sold, past, passStatus, reviewed, stored, aggregate>>
  BY DEF sales, wallets
<1>2. ledger' \in [Accounts -> Int] /\ MoneyTrue'
  BY EnterKeepsMoney
<1>3. StTypeOK' /\ StatusTrue'
  BY <1>1, <1>2 DEF RowsTrue, StTypeOK, StatusTrue
<1> QED BY <1>2, <1>3 DEF RowsTrue

\* Every withdrawal stands somewhere.
LEMMA Standing ==
    ASSUME RowsTrue, NEW w \in Payouts
    PROVE  \E stage \in Stages, row \in Rows, lines \in SUBSET Lines, way \in Ways,
              marks \in SUBSET Credits, said \in Heard :
                 Stands(w, stage, row, lines, way, marks, said)
                 /\ SoundUnless(w, stage, row, lines, way, marks, said)
  BY DEF RowsTrue, StTypeOK, PayoutTypes, PayoutTrue, Sound, Stands

\* Where it stands.
At(w, stage, row, lines, way, marks, said) ==
    /\ stage \in Stages /\ row \in Rows /\ lines \in SUBSET Lines /\ way \in Ways
    /\ marks \in SUBSET Credits /\ said \in Heard
    /\ Stands(w, stage, row, lines, way, marks, said)
    /\ SoundUnless(w, stage, row, lines, way, marks, said)

\* A request that has read what was earned.
LEMMA AskStands ==
    ASSUME RowsTrue, NEW w \in Payouts, AskPayout(w),
           NEW stage, NEW row, NEW lines, NEW way, NEW marks, NEW said,
           At(w, stage, row, lines, way, marks, said)
    PROVE  PayoutTypes' /\ PayoutTrue'
<1>l. Leaves(w, "checking", row, lines, way, marks, said, {})
  BY SameFunction DEF AskPayout, Proceeds, Stands, At, RowsTrue, StTypeOK, PayoutTypes, Leaves
<1>t. /\ "checking" \in Stages /\ row \in Rows /\ lines \in SUBSET Lines
     /\ way \in Ways /\ marks \in SUBSET Credits /\ said \in Heard
  BY HearTypes DEF At, Stages, Rows, Lines, Ways, Credits, Heard
<1>s. w \in {} \/ SoundUnless(w, "checking", row, lines, way, marks, said)
  BY HearTypes DEF AskPayout, Proceeds, At, SoundUnless, SoundAs, Fresh, Before, Credits, Stands
<1> QED BY <1>l, <1>t, <1>s, OthersStay DEF RowsTrue

\* One that has found it enough.
LEMMA CheckStands ==
    ASSUME RowsTrue, NEW w \in Payouts, CheckPayout(w),
           NEW stage, NEW row, NEW lines, NEW way, NEW marks, NEW said,
           At(w, stage, row, lines, way, marks, said)
    PROVE  PayoutTypes' /\ PayoutTrue'
<1>l. Leaves(w, "debiting", row, lines, way, marks, said, {})
  BY SameFunction DEF CheckPayout, Proceeds, Stands, At, RowsTrue, StTypeOK, PayoutTypes, Leaves
<1>t. /\ "debiting" \in Stages /\ row \in Rows /\ lines \in SUBSET Lines
     /\ way \in Ways /\ marks \in SUBSET Credits /\ said \in Heard
  BY HearTypes DEF At, Stages, Rows, Lines, Ways, Credits, Heard
<1>s. w \in {} \/ SoundUnless(w, "debiting", row, lines, way, marks, said)
  BY HearTypes DEF CheckPayout, Proceeds, At, SoundUnless, SoundAs, Fresh, Before, Credits, Stands
<1> QED BY <1>l, <1>t, <1>s, OthersStay DEF RowsTrue

\* One that is given up.
LEMMA GiveUpStands ==
    ASSUME RowsTrue, NEW w \in Payouts, GiveUpPayout(w),
           NEW stage, NEW row, NEW lines, NEW way, NEW marks, NEW said,
           At(w, stage, row, lines, way, marks, said)
    PROVE  PayoutTypes' /\ PayoutTrue'
<1>l. Leaves(w, "new", row, lines, way, marks, said, {})
  BY SameFunction DEF GiveUpPayout, Proceeds, Stands, At, RowsTrue, StTypeOK, PayoutTypes, Leaves
<1>t. /\ "new" \in Stages /\ row \in Rows /\ lines \in SUBSET Lines
     /\ way \in Ways /\ marks \in SUBSET Credits /\ said \in Heard
  BY HearTypes DEF At, Stages, Rows, Lines, Ways, Credits, Heard
<1>s. w \in {} \/ SoundUnless(w, "new", row, lines, way, marks, said)
  BY HearTypes DEF GiveUpPayout, Proceeds, At, SoundUnless, SoundAs, Fresh, Before, Credits, Stands
<1> QED BY <1>l, <1>t, <1>s, OthersStay DEF RowsTrue

\* The debit.
LEMMA DebitStands ==
    ASSUME RowsTrue, NEW w \in Payouts, DebitPayout(w),
           NEW stage, NEW row, NEW lines, NEW way, NEW marks, NEW said,
           At(w, stage, row, lines, way, marks, said)
    PROVE  PayoutTypes' /\ PayoutTrue'
<1>l. Leaves(w, "opening", row, lines \cup {"debit"}, way, marks, said, {})
  BY SameFunction DEF DebitPayout, Proceeds, Enter, Stands, At, RowsTrue, StTypeOK, PayoutTypes, Leaves
<1>t. /\ "opening" \in Stages /\ row \in Rows /\ lines \cup {"debit"} \in SUBSET Lines
     /\ way \in Ways /\ marks \in SUBSET Credits /\ said \in Heard
  BY HearTypes DEF At, Stages, Rows, Lines, Ways, Credits, Heard
<1>s. w \in {} \/ SoundUnless(w, "opening", row, lines \cup {"debit"}, way, marks, said)
  BY HearTypes DEF DebitPayout, Proceeds, Enter, At, SoundUnless, SoundAs, Fresh, Before, Credits, Stands
<1> QED BY <1>l, <1>t, <1>s, OthersStay DEF RowsTrue

\* The row, or its error path.
LEMMA OpenStands ==
    ASSUME RowsTrue, NEW w \in Payouts, OpenPayout(w),
           NEW stage, NEW row, NEW lines, NEW way, NEW marks, NEW said,
           At(w, stage, row, lines, way, marks, said)
    PROVE  PayoutTypes' /\ PayoutTrue'
<1>1. CASE withdrawal' = [withdrawal EXCEPT ![w] = "starting"] /\ payoutRow' = [payoutRow EXCEPT ![w] = "pending"]
  <2>l. Leaves(w, "starting", "pending", lines, way, marks, said, {})
    BY <1>1, SameFunction DEF OpenPayout, Proceeds, Stands, At, RowsTrue, StTypeOK, PayoutTypes, Leaves
  <2>t. /\ "starting" \in Stages /\ "pending" \in Rows /\ lines \in SUBSET Lines
       /\ way \in Ways /\ marks \in SUBSET Credits /\ said \in Heard
    BY <1>1, HearTypes DEF At, Stages, Rows, Lines, Ways, Credits, Heard
  <2>s. w \in {} \/ SoundUnless(w, "starting", "pending", lines, way, marks, said)
    BY <1>1, HearTypes DEF OpenPayout, Proceeds, At, SoundUnless, SoundAs, Fresh, Before, Credits, Stands
  <2> QED BY <2>l, <2>t, <2>s, OthersStay DEF RowsTrue
<1>2. CASE withdrawal' = [withdrawal EXCEPT ![w] = "reversing"] /\ UNCHANGED payoutRow
  <2>l. Leaves(w, "reversing", row, lines, way, marks, said, {})
    BY <1>2, SameFunction DEF OpenPayout, Proceeds, Stands, At, RowsTrue, StTypeOK, PayoutTypes, Leaves
  <2>t. /\ "reversing" \in Stages /\ row \in Rows /\ lines \in SUBSET Lines
       /\ way \in Ways /\ marks \in SUBSET Credits /\ said \in Heard
    BY <1>2, HearTypes DEF At, Stages, Rows, Lines, Ways, Credits, Heard
  <2>s. w \in {} \/ SoundUnless(w, "reversing", row, lines, way, marks, said)
    BY <1>2, HearTypes DEF OpenPayout, Proceeds, At, SoundUnless, SoundAs, Fresh, Before, Credits, Stands
  <2> QED BY <2>l, <2>t, <2>s, OthersStay DEF RowsTrue
<1> QED BY <1>1, <1>2 DEF OpenPayout, Proceeds

\* Its next status, or none.
LEMMA StartStands ==
    ASSUME RowsTrue, NEW w \in Payouts, StartPayout(w),
           NEW stage, NEW row, NEW lines, NEW way, NEW marks, NEW said,
           At(w, stage, row, lines, way, marks, said)
    PROVE  PayoutTypes' /\ PayoutTrue'
<1>1. CASE payoutRow' = [payoutRow EXCEPT ![w] = "processing"]
  <2>l. Leaves(w, "sending", "processing", lines, way, marks, said, {})
    BY <1>1, SameFunction DEF StartPayout, Proceeds, Stands, At, RowsTrue, StTypeOK, PayoutTypes, Leaves
  <2>t. /\ "sending" \in Stages /\ "processing" \in Rows /\ lines \in SUBSET Lines
       /\ way \in Ways /\ marks \in SUBSET Credits /\ said \in Heard
    BY <1>1, HearTypes DEF At, Stages, Rows, Lines, Ways, Credits, Heard
  <2>s. w \in {} \/ SoundUnless(w, "sending", "processing", lines, way, marks, said)
    BY <1>1, HearTypes DEF StartPayout, Proceeds, At, SoundUnless, SoundAs, Fresh, Before, Credits, Stands
  <2> QED BY <2>l, <2>t, <2>s, OthersStay DEF RowsTrue
<1>2. CASE UNCHANGED payoutRow
  <2>l. Leaves(w, "sending", row, lines, way, marks, said, {})
    BY <1>2, SameFunction DEF StartPayout, Proceeds, Stands, At, RowsTrue, StTypeOK, PayoutTypes, Leaves
  <2>t. /\ "sending" \in Stages /\ row \in Rows /\ lines \in SUBSET Lines
       /\ way \in Ways /\ marks \in SUBSET Credits /\ said \in Heard
    BY <1>2, HearTypes DEF At, Stages, Rows, Lines, Ways, Credits, Heard
  <2>s. w \in {} \/ SoundUnless(w, "sending", row, lines, way, marks, said)
    BY <1>2, HearTypes DEF StartPayout, Proceeds, At, SoundUnless, SoundAs, Fresh, Before, Credits, Stands
  <2> QED BY <2>l, <2>t, <2>s, OthersStay DEF RowsTrue
<1> QED BY <1>1, <1>2 DEF StartPayout

\* The transfer, and what came back.
LEMMA SendStands ==
    ASSUME RowsTrue, NEW w \in Payouts, SendPayout(w),
           NEW stage, NEW row, NEW lines, NEW way, NEW marks, NEW said,
           At(w, stage, row, lines, way, marks, said)
    PROVE  PayoutTypes' /\ PayoutTrue'
<1>1. PICK reply \in {"accepted", "paid", "declined", "refused", "lost"} :
        /\ Proceeds(w, "sending", AfterReply(reply))
        /\ provider' = [provider EXCEPT ![w] = LeftBehind(reply)]
  BY DEF SendPayout
<1>2. PICK to \in Stages : to = AfterReply(reply)
  BY DEF AfterReply, Stages
<1>3. PICK left \in Ways : left = LeftBehind(reply)
  BY DEF LeftBehind, Ways
<1>4. \/ to = "over" /\ left = "inflight"
      \/ to = "completing" /\ left = "completed"
      \/ to = "failing" /\ left \in {"inflight", "failed", "none"}
  BY <1>2, <1>3 DEF AfterReply, LeftBehind
<1>l. Leaves(w, to, row, lines, left, marks, said, {})
  BY <1>1, <1>2, <1>3, <1>4, SameFunction DEF SendPayout, Proceeds, Stands, At, RowsTrue, StTypeOK, PayoutTypes, Leaves
<1>t. /\ to \in Stages /\ row \in Rows /\ lines \in SUBSET Lines
     /\ left \in Ways /\ marks \in SUBSET Credits /\ said \in Heard
  BY <1>1, <1>2, <1>3, <1>4, HearTypes DEF At, Stages, Rows, Lines, Ways, Credits, Heard
<1>s. w \in {} \/ SoundUnless(w, to, row, lines, left, marks, said)
  BY <1>1, <1>2, <1>3, <1>4, HearTypes DEF Proceeds, At, SoundUnless, SoundAs, Fresh, Before, Credits, Stands
<1> QED BY <1>l, <1>t, <1>s, OthersStay DEF RowsTrue

\* A transfer that was paid at once.
LEMMA CompleteStands ==
    ASSUME RowsTrue, NEW w \in Payouts, CompletePayout(w),
           NEW stage, NEW row, NEW lines, NEW way, NEW marks, NEW said,
           At(w, stage, row, lines, way, marks, said)
    PROVE  PayoutTypes' /\ PayoutTrue'
<1>1. PICK now \in Heard : now = Hear(said, "completed")
  BY HearTypes DEF At
<1>2. said = "more" => now = "more"
  BY <1>1, HearTypes DEF At
<1>3. said = "nothing" => now = "completed"
  BY <1>1 DEF Hear
<1>4. said \in {"failed", "reversed"} => now = "more"
  BY <1>1 DEF Hear
<1>5. said = "completed" => now = "completed"
  BY <1>1 DEF Hear
<1>l. Leaves(w, "over", "completed", lines, way, marks, now, {})
  BY <1>1, <1>2, <1>3, <1>4, <1>5, SameFunction DEF CompletePayout, Proceeds, SetStatus, Stands, At, RowsTrue, StTypeOK, PayoutTypes, Leaves
<1>t. /\ "over" \in Stages /\ "completed" \in Rows /\ lines \in SUBSET Lines
     /\ way \in Ways /\ marks \in SUBSET Credits /\ now \in Heard
  BY <1>1, <1>2, <1>3, <1>4, <1>5, HearTypes DEF At, Stages, Rows, Lines, Ways, Credits, Heard
<1>s. w \in {} \/ SoundUnless(w, "over", "completed", lines, way, marks, now)
  BY <1>1, <1>2, <1>3, <1>4, <1>5, HearTypes DEF CompletePayout, Proceeds, Heard, At, SoundUnless, SoundAs, Fresh, Before, Credits, Stands
<1> QED BY <1>l, <1>t, <1>s, OthersStay DEF RowsTrue

\* A transfer that failed at once.
LEMMA FailStands ==
    ASSUME RowsTrue, NEW w \in Payouts, FailPayout(w),
           NEW stage, NEW row, NEW lines, NEW way, NEW marks, NEW said,
           At(w, stage, row, lines, way, marks, said)
    PROVE  PayoutTypes' /\ PayoutTrue'
<1>1. CASE SetStatus(w, "failed") /\ UNCHANGED cut
  <2>1. PICK now \in Heard : now = Hear(said, "failed")
    BY HearTypes DEF At
  <2>2. /\ said = "more" => now = "more"
        /\ said = "nothing" => now = "failed"
        /\ said \in {"completed", "failed", "reversed"} => now = "more"
    BY <2>1 DEF Hear
  <2>l. Leaves(w, "reversing", "failed", lines, way, marks, now, {})
    BY <1>1, <2>1, <2>2, SameFunction DEF FailPayout, Proceeds, SetStatus, Stands, At, RowsTrue, StTypeOK, PayoutTypes, Leaves
  <2>t. /\ "reversing" \in Stages /\ "failed" \in Rows /\ lines \in SUBSET Lines
       /\ way \in Ways /\ marks \in SUBSET Credits /\ now \in Heard
    BY <1>1, <2>1, <2>2, HearTypes DEF At, Stages, Rows, Lines, Ways, Credits, Heard
  <2>s. w \in {} \/ SoundUnless(w, "reversing", "failed", lines, way, marks, now)
    BY <1>1, <2>1, <2>2, HearTypes DEF FailPayout, Proceeds, Heard, At, SoundUnless, SoundAs, Fresh, Before, Credits, Stands
  <2> QED BY <2>l, <2>t, <2>s, OthersStay DEF RowsTrue
<1>2. CASE cut' = cut \cup {w} /\ UNCHANGED <<payoutRow, heard>>
  <2>l. Leaves(w, "reversing", row, lines, way, marks, said, {w})
    BY <1>2, SameFunction DEF FailPayout, Proceeds, Stands, At, RowsTrue, StTypeOK, PayoutTypes, Leaves
  <2>t. /\ "reversing" \in Stages /\ row \in Rows /\ lines \in SUBSET Lines
       /\ way \in Ways /\ marks \in SUBSET Credits /\ said \in Heard
    BY <1>2, HearTypes DEF At, Stages, Rows, Lines, Ways, Credits, Heard
  <2>s. w \in {w} \/ SoundUnless(w, "reversing", row, lines, way, marks, said)
    OBVIOUS
  <2> QED BY <2>l, <2>t, <2>s, OthersStay DEF RowsTrue
<1> QED BY <1>1, <1>2 DEF FailPayout

\* Its reversal.
LEMMA ReverseStands ==
    ASSUME RowsTrue, NEW w \in Payouts, ReversePayout(w),
           NEW stage, NEW row, NEW lines, NEW way, NEW marks, NEW said,
           At(w, stage, row, lines, way, marks, said)
    PROVE  PayoutTypes' /\ PayoutTrue'
<1>l. Leaves(w, "over", row, lines \cup {"start"}, way, marks, said, {})
  BY SameFunction DEF ReversePayout, Proceeds, Enter, Stands, At, RowsTrue, StTypeOK, PayoutTypes, Leaves
<1>t. /\ "over" \in Stages /\ row \in Rows /\ lines \cup {"start"} \in SUBSET Lines
     /\ way \in Ways /\ marks \in SUBSET Credits /\ said \in Heard
  BY HearTypes DEF At, Stages, Rows, Lines, Ways, Credits, Heard
<1>s. w \in {} \/ SoundUnless(w, "over", row, lines \cup {"start"}, way, marks, said)
  BY HearTypes DEF ReversePayout, Proceeds, Enter, At, SoundUnless, SoundAs, Fresh, Before, Credits, Stands
<1> QED BY <1>l, <1>t, <1>s, OthersStay DEF RowsTrue

\* A request that is cut off.
LEMMA CutOffStands ==
    ASSUME RowsTrue, NEW w \in Payouts, CutOffPayout(w),
           NEW stage, NEW row, NEW lines, NEW way, NEW marks, NEW said,
           At(w, stage, row, lines, way, marks, said)
    PROVE  PayoutTypes' /\ PayoutTrue'
<1>l. Leaves(w, "over", row, lines, way, marks, said, {w})
  BY SameFunction DEF CutOffPayout, Stands, At, RowsTrue, StTypeOK, PayoutTypes, Leaves
<1>t. /\ "over" \in Stages /\ row \in Rows /\ lines \in SUBSET Lines
     /\ way \in Ways /\ marks \in SUBSET Credits /\ said \in Heard
  BY HearTypes DEF At, Stages, Rows, Lines, Ways, Credits, Heard
<1>s. w \in {w} \/ SoundUnless(w, "over", row, lines, way, marks, said)
  OBVIOUS
<1> QED BY <1>l, <1>t, <1>s, OthersStay DEF RowsTrue

\* The provider.
LEMMA SettlesStands ==
    ASSUME RowsTrue, NEW w \in Payouts, ProviderSettles(w),
           NEW stage, NEW row, NEW lines, NEW way, NEW marks, NEW said,
           At(w, stage, row, lines, way, marks, said)
    PROVE  PayoutTypes' /\ PayoutTrue'
<1>1. PICK left \in {"completed", "failed", "reversed"} :
        /\ provider' = [provider EXCEPT ![w] = left]
        /\ \/ way = "inflight" /\ left \in {"completed", "failed"}
           \/ way = "completed" /\ left = "reversed"
  BY DEF ProviderSettles, At, Stands
<1>l. Leaves(w, stage, row, lines, left, marks, said, {})
  BY <1>1, SameFunction DEF ProviderSettles, Stands, At, RowsTrue, StTypeOK, PayoutTypes, Leaves
<1>t. /\ stage \in Stages /\ row \in Rows /\ lines \in SUBSET Lines
     /\ left \in Ways /\ marks \in SUBSET Credits /\ said \in Heard
  BY <1>1, HearTypes DEF At, Stages, Rows, Lines, Ways, Credits, Heard
<1>s. w \in {} \/ SoundUnless(w, stage, row, lines, left, marks, said)
  BY <1>1, HearTypes DEF Lines, At, SoundUnless, SoundAs, Fresh, Before, Credits, Stands
<1> QED BY <1>l, <1>t, <1>s, OthersStay DEF RowsTrue

\* A webhook that says it was paid.
LEMMA HearCompletedStands ==
    ASSUME RowsTrue, NEW w \in Payouts, HearCompleted(w),
           NEW stage, NEW row, NEW lines, NEW way, NEW marks, NEW said,
           At(w, stage, row, lines, way, marks, said)
    PROVE  PayoutTypes' /\ PayoutTrue'
<1>1. PICK now \in Heard : now = Hear(said, "completed")
  BY HearTypes DEF At
<1>2. /\ said = "more" => now = "more"
      /\ said \in {"nothing", "completed"} => now = "completed"
      /\ said \in {"failed", "reversed"} => now = "more"
  BY <1>1 DEF Hear
<1>l. Leaves(w, stage, "completed", lines, way, marks, now, {})
  BY <1>1, <1>2, SameFunction DEF HearCompleted, SetStatus, Stands, At, RowsTrue, StTypeOK, PayoutTypes, Leaves
<1>t. /\ stage \in Stages /\ "completed" \in Rows /\ lines \in SUBSET Lines
     /\ way \in Ways /\ marks \in SUBSET Credits /\ now \in Heard
  BY <1>1, <1>2, HearTypes DEF At, Stages, Rows, Lines, Ways, Credits, Heard
<1>s. w \in {} \/ SoundUnless(w, stage, "completed", lines, way, marks, now)
  BY <1>1, <1>2, HearTypes DEF HearCompleted, Heard, At, SoundUnless, SoundAs, Fresh, Before, Credits, Stands
<1> QED BY <1>l, <1>t, <1>s, OthersStay DEF RowsTrue

\* A webhook that credits it.
LEMMA CreditStands ==
    ASSUME RowsTrue, NEW w \in Payouts, CreditPayout(w),
           NEW stage, NEW row, NEW lines, NEW way, NEW marks, NEW said,
           At(w, stage, row, lines, way, marks, said)
    PROVE  PayoutTypes' /\ PayoutTrue'
<1>1. PICK answer \in Credits :
        answer = way /\ Enter(answer, w) /\ marking' = [marking EXCEPT ![w] = @ \cup {answer}]
  BY DEF CreditPayout, Credits, At, Stands
<1>l. Leaves(w, stage, row, lines \cup {answer}, way, marks \cup {answer}, said, {})
  BY <1>1, SameFunction DEF CreditPayout, Enter, Stands, At, RowsTrue, StTypeOK, PayoutTypes, Leaves
<1>t. /\ stage \in Stages /\ row \in Rows /\ lines \cup {answer} \in SUBSET Lines
     /\ way \in Ways /\ marks \cup {answer} \in SUBSET Credits /\ said \in Heard
  BY <1>1, HearTypes DEF At, Stages, Rows, Lines, Ways, Credits, Heard
<1>s. w \in {} \/ SoundUnless(w, stage, row, lines \cup {answer}, way, marks \cup {answer}, said)
  BY <1>1, HearTypes DEF Enter, At, SoundUnless, SoundAs, Fresh, Before, Credits, Stands
<1> QED BY <1>l, <1>t, <1>s, OthersStay DEF RowsTrue

\* And says so in its row.
LEMMA MarkStands ==
    ASSUME RowsTrue, NEW w \in Payouts, MarkPayout(w),
           NEW stage, NEW row, NEW lines, NEW way, NEW marks, NEW said,
           At(w, stage, row, lines, way, marks, said)
    PROVE  PayoutTypes' /\ PayoutTrue'
<1>1. PICK answer \in Credits :
        /\ answer \in marks /\ marking' = [marking EXCEPT ![w] = @ \ {answer}]
        /\ \/ SetStatus(w, answer) /\ UNCHANGED cut
           \/ cut' = cut \cup {w} /\ UNCHANGED <<payoutRow, heard>>
  BY DEF MarkPayout, At, Stands
<1>2. CASE SetStatus(w, answer) /\ UNCHANGED cut
  <2>1. PICK now \in Heard : now = Hear(said, answer)
    BY <1>1, HearTypes DEF At, Credits
  <2>2. /\ said \in {"more", "failed", "reversed"} => now = "more"
        /\ said = "nothing" => now = answer
        /\ said = "completed" => now = IF answer = "reversed" THEN "reversed" ELSE "more"
    BY <1>1, <2>1 DEF Hear, Credits
  <2>l. Leaves(w, stage, answer, lines, way, marks \ {answer}, now, {})
    BY <1>1, <1>2, <2>1, <2>2, SameFunction DEF MarkPayout, SetStatus, Stands, At, RowsTrue, StTypeOK, PayoutTypes, Leaves
  <2>t. /\ stage \in Stages /\ answer \in Rows /\ lines \in SUBSET Lines
       /\ way \in Ways /\ marks \ {answer} \in SUBSET Credits /\ now \in Heard
    BY <1>1, <1>2, <2>1, <2>2, HearTypes DEF At, Stages, Rows, Lines, Ways, Credits, Heard
  <2>s. w \in {} \/ SoundUnless(w, stage, answer, lines, way, marks \ {answer}, now)
    <3>1. CASE now = "more" \/ w \in cut
      BY <3>1 DEF SoundUnless
    <3>2. CASE now # "more" /\ w \notin cut
      <4>1. /\ SoundAs(stage, row, lines, way, marks, said) /\ now = answer
            /\ \/ answer = "failed" /\ said = "nothing"
               \/ answer = "reversed" /\ said \in {"nothing", "completed"}
        BY <1>1, <2>1, <2>2, <3>2 DEF At, SoundUnless, Heard, Credits
      <4>2. PICK rest \in SUBSET Credits : rest = marks \ {answer}
        BY DEF At
      <4>3. /\ answer \in lines /\ answer \notin rest /\ rest \subseteq lines /\ way = answer
            /\ lines \cap Credits \subseteq rest \cup {answer}
        BY <1>1, <4>1, <4>2 DEF SoundAs
      <4>4. "start" \notin lines /\ "debit" \in lines
        BY <4>1, <4>3 DEF SoundAs, Before, Fresh
      <4>5. stage \notin {"new", "checking", "debiting", "opening", "starting", "sending", "reversing"}
        BY <1>1, <4>1 DEF SoundAs, Fresh, Before
      <4>6. stage = "completing" => way \in {"completed", "reversed"}
        BY <4>1 DEF SoundAs
      <4>7. /\ "failed" \in lines => way = "failed"
            /\ "reversed" \in lines => way = "reversed"
        BY <4>1 DEF SoundAs
      <4>8. ASSUME answer = "failed" PROVE SoundAs(stage, answer, lines, way, rest, answer)
        <5>1. /\ "failed" \in lines /\ "failed" \notin rest /\ "reversed" \notin lines /\ way = "failed"
          BY <4>3, <4>7, <4>8
        <5> QED BY <4>3, <4>4, <4>5, <4>6, <4>8, <5>1 DEF SoundAs, Before
      <4>9. ASSUME answer = "reversed" PROVE SoundAs(stage, answer, lines, way, rest, answer)
        <5>1. "reversed" \in lines /\ "failed" \notin lines /\ way = "reversed"
          BY <4>3, <4>7, <4>9
        <5> QED BY <4>3, <4>4, <4>5, <4>6, <4>9, <5>1 DEF SoundAs, Before
      <4>10. SoundAs(stage, answer, lines, way, rest, answer)
        BY <1>1, <4>8, <4>9 DEF Credits
      <4> QED BY <4>1, <4>2, <4>10 DEF SoundUnless
    <3> QED BY <3>1, <3>2
  <2> QED BY <2>l, <2>t, <2>s, OthersStay DEF RowsTrue
<1>3. CASE cut' = cut \cup {w} /\ UNCHANGED <<payoutRow, heard>>
  <2>1. marking' = [marking EXCEPT ![w] = marks \ {answer}]
    BY <1>1 DEF Stands, At
  <2>2. /\ withdrawal = [withdrawal EXCEPT ![w] = stage] /\ payoutRow = [payoutRow EXCEPT ![w] = row]
        /\ entries = [entries EXCEPT ![w] = lines] /\ provider = [provider EXCEPT ![w] = way]
        /\ heard = [heard EXCEPT ![w] = said]
    BY SameFunction DEF Stands, At, RowsTrue, StTypeOK, PayoutTypes
  <2>3. UNCHANGED <<withdrawal, payoutRow, entries, provider, heard>>
    BY <1>3 DEF MarkPayout
  <2>l. Leaves(w, stage, row, lines, way, marks \ {answer}, said, {w})
    BY <1>3, <2>1, <2>2, <2>3 DEF Leaves
  <2>t. /\ stage \in Stages /\ row \in Rows /\ lines \in SUBSET Lines
       /\ way \in Ways /\ marks \ {answer} \in SUBSET Credits /\ said \in Heard
    BY <1>1, <1>3, HearTypes DEF At, Stages, Rows, Lines, Ways, Credits, Heard
  <2>s. w \in {w} \/ SoundUnless(w, stage, row, lines, way, marks \ {answer}, said)
    OBVIOUS
  <2> QED BY <2>l, <2>t, <2>s, OthersStay DEF RowsTrue
<1> QED BY <1>1, <1>2, <1>3

\* Every step of a withdrawal keeps the rows true.
LEMMA PayoutKeeps == ASSUME RowsTrue, PayoutWrites PROVE RowsTrue'
<1>1. UNCHANGED <<sales, wallets>>
  BY PayoutsMoveNoSales
<1>2. PICK w \in Payouts :
        \/ AskPayout(w) \/ CheckPayout(w) \/ GiveUpPayout(w) \/ DebitPayout(w)
        \/ OpenPayout(w) \/ StartPayout(w) \/ SendPayout(w) \/ CompletePayout(w)
        \/ FailPayout(w) \/ ReversePayout(w) \/ CutOffPayout(w)
        \/ ProviderSettles(w) \/ HearCompleted(w) \/ CreditPayout(w) \/ MarkPayout(w)
  BY DEF PayoutWrites
<1>3. PICK stage, row, lines, way, marks, said : At(w, stage, row, lines, way, marks, said)
  BY Standing DEF At
<1>4. CASE AskPayout(w)
  <2>1. UNCHANGED <<ledger, entries>>
    BY <1>4 DEF AskPayout
  <2> QED BY <1>1, <1>3, <1>4, <2>1, AskStands, NoLineKeeps
<1>5. CASE CheckPayout(w)
  <2>1. UNCHANGED <<ledger, entries>>
    BY <1>5 DEF CheckPayout
  <2> QED BY <1>1, <1>3, <1>5, <2>1, CheckStands, NoLineKeeps
<1>6. CASE GiveUpPayout(w)
  <2>1. UNCHANGED <<ledger, entries>>
    BY <1>6 DEF GiveUpPayout
  <2> QED BY <1>1, <1>3, <1>6, <2>1, GiveUpStands, NoLineKeeps
<1>7. CASE OpenPayout(w)
  <2>1. UNCHANGED <<ledger, entries>>
    BY <1>7 DEF OpenPayout
  <2> QED BY <1>1, <1>3, <1>7, <2>1, OpenStands, NoLineKeeps
<1>8. CASE StartPayout(w)
  <2>1. UNCHANGED <<ledger, entries>>
    BY <1>8 DEF StartPayout
  <2> QED BY <1>1, <1>3, <1>8, <2>1, StartStands, NoLineKeeps
<1>9. CASE SendPayout(w)
  <2>1. UNCHANGED <<ledger, entries>>
    BY <1>9 DEF SendPayout
  <2> QED BY <1>1, <1>3, <1>9, <2>1, SendStands, NoLineKeeps
<1>10. CASE CompletePayout(w)
  <2>1. UNCHANGED <<ledger, entries>>
    BY <1>10 DEF CompletePayout
  <2> QED BY <1>1, <1>3, <1>10, <2>1, CompleteStands, NoLineKeeps
<1>11. CASE FailPayout(w)
  <2>1. UNCHANGED <<ledger, entries>>
    BY <1>11 DEF FailPayout
  <2> QED BY <1>1, <1>3, <1>11, <2>1, FailStands, NoLineKeeps
<1>12. CASE CutOffPayout(w)
  <2>1. UNCHANGED <<ledger, entries>>
    BY <1>12 DEF CutOffPayout
  <2> QED BY <1>1, <1>3, <1>12, <2>1, CutOffStands, NoLineKeeps
<1>13. CASE ProviderSettles(w)
  <2>1. UNCHANGED <<ledger, entries>>
    BY <1>13 DEF ProviderSettles
  <2> QED BY <1>1, <1>3, <1>13, <2>1, SettlesStands, NoLineKeeps
<1>14. CASE HearCompleted(w)
  <2>1. UNCHANGED <<ledger, entries>>
    BY <1>14 DEF HearCompleted
  <2> QED BY <1>1, <1>3, <1>14, <2>1, HearCompletedStands, NoLineKeeps
<1>15. CASE MarkPayout(w)
  <2>1. UNCHANGED <<ledger, entries>>
    BY <1>15 DEF MarkPayout
  <2> QED BY <1>1, <1>3, <1>15, <2>1, MarkStands, NoLineKeeps
<1>16. CASE DebitPayout(w)
  <2>1. Enter("debit", w) /\ "debit" \in Lines
    BY <1>16 DEF DebitPayout, Lines
  <2> QED BY <1>1, <1>3, <1>16, <2>1, DebitStands, LineKeeps
<1>17. CASE ReversePayout(w)
  <2>1. Enter("start", w) /\ "start" \in Lines
    BY <1>17 DEF ReversePayout, Lines
  <2> QED BY <1>1, <1>3, <1>17, <2>1, ReverseStands, LineKeeps
<1>18. CASE CreditPayout(w)
  <2>1. PICK line \in Lines : Enter(line, w)
    BY <1>18 DEF CreditPayout, Lines
  <2> QED BY <1>1, <1>3, <1>18, <2>1, CreditStands, LineKeeps
<1> QED BY <1>2, <1>4, <1>5, <1>6, <1>7, <1>8, <1>9, <1>10, <1>11,
           <1>12, <1>13, <1>14, <1>15, <1>16, <1>17, <1>18

\* Every write keeps the rows true.
LEMMA WritesKeep == ASSUME RowsTrue, Writes PROVE RowsTrue'
  BY BookKeeps, CancelKeeps, PassesKeep, TakePlaceKeeps, WriteReviewKeeps, PayoutKeeps DEF Writes, SaleWrites


------------------------------------------------------------------------------
(* The reader.                                                             *)

ReaderTrue == reader = Nothing \/ EarningsRead \/ EarningsDone \/ ListRead \/ ListDone

\* Which page is read, and how far, tells what its reader has.
LEMMA ReaderStages ==
    /\ reader = Nothing => reader.pc = "none" /\ reader.page = "none"
    /\ EarningsRead => reader.pc = "half" /\ reader.page = "earnings"
    /\ EarningsDone => reader.pc = "done" /\ reader.page = "earnings"
    /\ ListRead => reader.pc \in {"rows", "count"} /\ reader.page = "bookings"
    /\ ListDone => reader.pc = "done" /\ reader.page = "bookings"
  BY DEF Nothing, EarningsRead, HalfRead, EarningsDone, Offered, ListRead, Turning, ListDone, Turned

\* A write keeps what any reader has.
LEMMA WatchedReader ==
    ASSUME RowsTrue, ReaderTrue, Writes, Watched
    PROVE  ReaderTrue'
<1>1. CASE EarningsRead
  BY <1>1, WatchedEarnings DEF ReaderTrue
<1>2. CASE ListRead
  BY <1>2, WatchedList DEF ReaderTrue, RowsTrue
<1>3. CASE reader = Nothing \/ EarningsDone \/ ListDone
  <2>1. UNCHANGED reader
    BY <1>3, ReaderStages DEF Watched
  <2> QED BY <1>3, <2>1 DEF ReaderTrue, EarningsDone, ListDone
<1> QED BY <1>1, <1>2, <1>3 DEF ReaderTrue

\* So does every step.
LEMMA ReaderSteps ==
    ASSUME RowsTrue, ReaderTrue, StatementsNext
    PROVE  ReaderTrue'
<1>1. ASSUME Writes, Watched PROVE ReaderTrue'
  BY <1>1, WatchedReader
<1>2. ASSUME NEW h \in HostSet, OpenEarnings(h) PROVE ReaderTrue'
  BY <1>2, EarningsOpens DEF ReaderTrue
<1>3. ASSUME NEW f \in {"", "confirmed", "refunded"}, OpenList(f) PROVE ReaderTrue'
  BY <1>3, ListOpens DEF ReaderTrue, RowsTrue, Filters
<1>4. ASSUME ShowEarnings PROVE ReaderTrue'
  <2>1. EarningsRead
    BY <1>4, ReaderStages DEF ReaderTrue, ShowEarnings
  <2> QED BY <1>4, <2>1, EarningsShow DEF ReaderTrue
<1>5. ASSUME ReadPage PROVE ReaderTrue'
  <2>1. ListRead
    BY <1>5, ReaderStages DEF ReaderTrue, ReadPage
  <2> QED BY <1>5, <2>1, PageReads DEF ReaderTrue, RowsTrue
<1>6. ASSUME TurnPage PROVE ReaderTrue'
  <2>1. ListRead
    BY <1>6, ReaderStages DEF ReaderTrue, TurnPage
  <2> QED BY <1>6, <2>1, PageTurns DEF ReaderTrue, RowsTrue
<1>7. ASSUME ClosePage PROVE ReaderTrue'
  BY <1>7 DEF ClosePage, ReaderTrue
<1> QED BY <1>1, <1>2, <1>3, <1>4, <1>5, <1>6, <1>7 DEF StatementsNext, EarningsReads, ListReads

\* Reading changes no row.
LEMMA ReadingKeeps ==
    ASSUME RowsTrue, UNCHANGED rows
    PROVE  RowsTrue'
<1>1. UNCHANGED <<sold, past, passStatus, reviewed, payouts, stored, ledger, aggregate>>
  BY DEF rows, sales, wallets
<1>2. PayoutTypes' /\ PayoutTrue' /\ UNCHANGED entries
  BY <1>1, PayoutsStay DEF RowsTrue, StTypeOK
<1>3. StTypeOK' /\ StatusTrue'
  BY <1>1, <1>2 DEF RowsTrue, StTypeOK, StatusTrue
<1>4. MoneyTrue'
  BY <1>1, <1>2, MoneyStays DEF RowsTrue
<1> QED BY <1>2, <1>3, <1>4 DEF RowsTrue

\* Every step keeps the rows true.
LEMMA RowsSteps ==
    ASSUME RowsTrue, StatementsNext
    PROVE  RowsTrue'
<1>1. ASSUME UNCHANGED rows PROVE RowsTrue'
  BY <1>1, ReadingKeeps
<1>2. Writes \/ UNCHANGED rows
  BY DEF StatementsNext, EarningsReads, ListReads, OpenEarnings, OpenList, ShowEarnings, ReadPage,
         TurnPage, ClosePage
<1> QED BY <1>1, <1>2, WritesKeep

\* A reader that nothing happens to.
LEMMA ReaderStutters ==
    ASSUME ReaderTrue, UNCHANGED stVars
    PROVE  ReaderTrue'
<1>1. UNCHANGED <<sold, past, reader>>
  BY DEF stVars, rows, sales
<1>2. EarningsRead => EarningsRead'
  BY <1>1 DEF EarningsRead, Breakdown, OfHost, Confirmed, With
<1>3. ListRead => ListRead'
  BY <1>1 DEF ListRead, Matching, Made, With, Gone
<1>4. (EarningsDone => EarningsDone') /\ (ListDone => ListDone')
  BY <1>1 DEF EarningsDone, ListDone
<1> QED BY <1>1, <1>2, <1>3, <1>4 DEF ReaderTrue

StInv == RowsTrue /\ ReaderTrue

\* The invariant holds at first,
LEMMA StInvInit == StatementsInit => StInv
<1> SUFFICES ASSUME StatementsInit PROVE StInv
  OBVIOUS
<1>p. PayoutTypes /\ PayoutTrue
  BY DEF StatementsInit, PayoutTypes, PayoutTrue, Sound, SoundUnless, SoundAs, Before, Credits,
         Stages, Rows, Lines, Ways, Heard
<1>1. StTypeOK
  BY <1>p, StatementsAssumption, AccountsApart DEF StatementsInit, StTypeOK
<1>2. StatusTrue
  BY DEF StatementsInit, StatusTrue
<1>3. MoneyTrue
  <2>1. Live = {}
    BY DEF StatementsInit, Live, Confirmed, With, ActivePasses
  <2>2. \A x : OfPayer(Live, x) = {} /\ OfHost(Live, x) = {}
    BY <2>1 DEF OfPayer, OfHost
  <2>7. \A x : Owing(x) = 0
    <3> TAKE x
    <3>1. \A w \in Of(x) : Owed[w] = 0
      BY DEF StatementsInit, Of, Owed, OwedOf
    <3> QED BY <3>1, OwingType, SumZeros DEF Owing
  <2>3. \A x : Amount(OfPayer(Live, x)) = 0 /\ Net(OfHost(Live, x)) = 0 /\ Owing(x) = 0
    BY <2>2, <2>7, SumEmpty DEF Amount, Net
  <2>4. TopUps \in Int /\ TopUps = TopUps - 0 /\ 0 = 0 - 0
    BY StatementsAssumption
  <2>5. \A g \in Payers : stored[g] = TopUps /\ ledger[g] = TopUps
    BY AccountsApart DEF StatementsInit
  <2>6. \A h \in HostSet : aggregate[h] = 0 /\ ledger[h] = 0
    BY AccountsApart DEF StatementsInit
  <2> QED BY <2>3, <2>4, <2>5, <2>6 DEF MoneyTrue
<1>4. ReaderTrue
  BY DEF StatementsInit, ReaderTrue
<1> QED BY <1>p, <1>1, <1>2, <1>3, <1>4 DEF StInv, RowsTrue

\* every step keeps it,
LEMMA StInvNext == StInv /\ [StatementsNext]_stVars => StInv'
<1> SUFFICES ASSUME StInv, [StatementsNext]_stVars PROVE StInv'
  OBVIOUS
<1>1. CASE StatementsNext
  BY <1>1, RowsSteps, ReaderSteps DEF StInv
<1>2. CASE UNCHANGED stVars
  <2>1. UNCHANGED rows
    BY <1>2 DEF stVars
  <2> QED BY <1>2, <2>1, ReadingKeeps, ReaderStutters DEF StInv
<1> QED BY <1>1, <1>2

\* and so it always holds.
LEMMA StInvAlways == StatementsSpec => []StInv
  BY StInvInit, StInvNext, PTL DEF StatementsSpec

\* A page of several statements is wrong only by what was written meanwhile: the
\* earnings page and the paged lists of bookings.
THEOREM PagesTearing == StatementsSpec => []PagesTearOnlyByWrites
<1>1. StInv => PagesTearOnlyByWrites
  <2> SUFFICES ASSUME StInv PROVE PagesTearOnlyByWrites
    OBVIOUS
  <2>1. OffersOnlyWhatIsThere
    <3>1. ASSUME reader.page = "earnings", reader.pc = "done"
          PROVE  reader.shown.available <= reader.granted \/ reader.fell
      <4>1. EarningsDone
        BY <3>1, ReaderStages DEF StInv, ReaderTrue
      <4> QED BY <4>1 DEF EarningsDone
    <3> QED BY <3>1 DEF OffersOnlyWhatIsThere
  <2>2. PagingMissesOnlyLeavers
    <3>1. ASSUME reader.page = "bookings", reader.pc = "done"
          PROVE  Cardinality((reader.start \ reader.left) \ reader.seen)
                   <= Cardinality(reader.left) + Cardinality(reader.late)
      <4>1. ListDone
        BY <3>1, ReaderStages DEF StInv, ReaderTrue
      <4> QED BY <4>1 DEF ListDone, Missed, Stays
    <3> QED BY <3>1 DEF PagingMissesOnlyLeavers
  <2> QED BY <2>1, <2>2 DEF PagesTearOnlyByWrites
<1> QED BY <1>1, StInvAlways, PTL


------------------------------------------------------------------------------
(* The pages agree.                                                        *)

\* Hosts and accounts are finitely many.
LEMMA HostsFinite == IsFiniteSet(HostSet) /\ IsFiniteSet(Accounts)
<1>1. PICK f : f = [b \in Purchases |-> HostsOf[b]]
  OBVIOUS
<1>2. f \in Surjection(Purchases, HostSet)
  BY <1>1 DEF Surjection, HostSet
<1>3. IsFiniteSet(HostSet)
  BY <1>2, PurchasesFinite, FS_Surjection
<1>4. IsFiniteSet({Platform})
  BY FS_Singleton
<1>5. IsFiniteSet(Payers \cup HostSet)
  BY <1>3, PurchasesFinite, FS_Union
<1> QED BY <1>3, <1>4, <1>5, FS_Union DEF Accounts

\* What is live is a confirmed booking or an active pass, and never both.
LEMMA LiveParts ==
    /\ Confirmed \in SUBSET Purchases /\ ActivePasses \in SUBSET Purchases
    /\ Live = Confirmed \cup ActivePasses /\ Confirmed \cap ActivePasses = {}
  BY SalesApart DEF Live, Confirmed, With, ActivePasses, Purchases

\* What bookings and passes come to together.
LEMMA TogetherSums ==
    ASSUME NEW S \in SUBSET Purchases, NEW T \in SUBSET Purchases, S \cap T = {}
    PROVE  Amount(S \cup T) = Amount(S) + Amount(T) /\ Net(S \cup T) = Net(S) + Net(T)
<1>1. PICK U \in SUBSET Purchases : U = S \cup T
  OBVIOUS
<1>2. S \in SUBSET U /\ U \ S = T /\ IsFiniteSet(U)
  BY <1>1, PurchasesFinite
<1>3. \A b \in U : AmountOf[b] \in Int /\ NetOf[b] \in Int
  BY PurchasesFinite
<1>4. /\ SumFunctionOnSet(AmountOf, U) = SumFunctionOnSet(AmountOf, S) + SumFunctionOnSet(AmountOf, U \ S)
      /\ SumFunctionOnSet(NetOf, U) = SumFunctionOnSet(NetOf, S) + SumFunctionOnSet(NetOf, U \ S)
  BY <1>2, <1>3, SumDisjoint
<1> QED BY <1>1, <1>2, <1>4 DEF Amount, Net

\* A host's live purchases are the host's bookings and passes.
LEMMA HostLive ==
    ASSUME NEW h
    PROVE  Net(OfHost(Live, h)) = Net(OfHost(Confirmed, h)) + Net(OfHost(ActivePasses, h))
<1>1. PICK S \in SUBSET Purchases : S = OfHost(Confirmed, h)
  BY LiveParts DEF OfHost
<1>2. PICK T \in SUBSET Purchases : T = OfHost(ActivePasses, h)
  BY LiveParts DEF OfHost
<1>3. S \cap T = {} /\ OfHost(Live, h) = S \cup T
  BY <1>1, <1>2, LiveParts DEF OfHost
<1> QED BY <1>1, <1>2, <1>3, TogetherSums

\* A withdrawal that stands still takes its amount once, or nothing, as its row says.
LEMMA QuietOwes ==
    ASSUME RowsTrue, NEW w \in Payouts, Quiet(w)
    PROVE  Owed[w] = IF payoutRow[w] \in Counted THEN PayoutCents[w] ELSE 0
<1>1. PICK stage, row, lines, way, marks, said : At(w, stage, row, lines, way, marks, said)
  BY Standing DEF At
<1>2. PICK c \in Nat : c = PayoutCents[w]
  BY StatementsAssumption
<1>3. /\ stage \in {"new", "checking", "debiting", "over"} /\ marks = {}
      /\ SoundAs(stage, row, lines, way, marks, said) /\ said # "more"
  BY <1>1 DEF At, Stands, SoundUnless, Quiet
<1>4. said \in Heard /\ row \in Rows /\ Owed[w] = OwedOf(lines, c) /\ payoutRow[w] = row
  BY <1>1, <1>2 DEF At, Stands, Owed
<1> DEFINE has(line) == line \in lines
<1>5. /\ row \in Counted => has("debit") /\ ~has("start") /\ ~has("failed") /\ ~has("reversed")
      /\ row \notin Counted =>
           \/ ~has("debit") /\ ~has("start") /\ ~has("failed") /\ ~has("reversed")
           \/ has("debit") /\ has("start") /\ ~has("failed") /\ ~has("reversed")
           \/ has("debit") /\ ~has("start") /\ has("failed") /\ ~has("reversed")
           \/ has("debit") /\ ~has("start") /\ ~has("failed") /\ has("reversed")
  <2>1. CASE stage \in Before
    BY <1>3, <2>1 DEF SoundAs, Counted
  <2>2. CASE stage = "over" /\ said = "nothing"
    BY <1>3, <1>4, <2>2 DEF SoundAs, Before, Counted, Credits
  <2>3. CASE stage = "over" /\ said = "completed"
    BY <1>3, <1>4, <2>3 DEF SoundAs, Before, Counted, Credits
  <2>4. CASE stage = "over" /\ said = "failed"
    BY <1>3, <1>4, <2>4 DEF SoundAs, Before, Counted, Credits
  <2>5. CASE stage = "over" /\ said = "reversed"
    BY <1>3, <1>4, <2>5 DEF SoundAs, Before, Counted, Credits
  <2> QED BY <1>3, <1>4, <2>1, <2>2, <2>3, <2>4, <2>5 DEF Before, Heard
<1>6. OwedOf(lines, c) = IF row \in Counted THEN c ELSE 0
  BY <1>5 DEF OwedOf
<1> QED BY <1>2, <1>4, <1>6

\* So what is in transit is what the withdrawals of a host took, once they all do.
LEMMA QuietTransit ==
    ASSUME RowsTrue, NEW h, \A w \in Payouts : PayeeOf[w] = h => Quiet(w)
    PROVE  Owing(h) = InTransit(h)
<1>1. PICK T \in SUBSET Of(h) : T = {w \in Payouts : PayeeOf[w] = h /\ payoutRow[w] \in Counted}
  BY DEF Of
<1>2. PICK f : f = Owed
  OBVIOUS
<1>3. \A w \in Of(h) : f[w] = (IF w \in T THEN PayoutCents[w] ELSE 0) /\ PayoutCents[w] \in Int
  BY <1>1, <1>2, QuietOwes, StatementsAssumption DEF Of
<1>4. IsFiniteSet(Of(h)) /\ IsFiniteSet(T)
  BY OwingType, FS_Subset
<1>5. SumFunctionOnSet(f, Of(h)) = SumFunctionOnSet(f, T)
  BY <1>3, <1>4, SumSupport
<1>6. SumFunctionOnSet(f, T) = SumFunctionOnSet(PayoutCents, T)
  BY <1>3, <1>4, SumSame
<1> QED BY <1>1, <1>2, <1>5, <1>6 DEF Owing, InTransit, Paid

\* A host's figures.
LEMMA HostFigures ==
    ASSUME RowsTrue, NEW h \in HostSet
    PROVE  /\ Breakdown(h).total = Net(OfHost(Confirmed, h))
           /\ Overview(h).earned = Breakdown(h).total
           /\ Aggregates(h).revenue = Breakdown(h).total
           /\ Revenue[h] = Breakdown(h).total
           /\ OldBreakdown(h).net = Breakdown(h).total
           /\ OldBreakdown(h).total = Breakdown(h).total + Net(OfHost(ActivePasses, h))
           /\ (\A w \in Payouts : PayeeOf[w] = h => Quiet(w))
                 => -Drift(h) = Breakdown(h).total + Net(OfHost(ActivePasses, h)) - InTransit(h)
<1>1. Breakdown(h).total = Net(OfHost(Confirmed, h))
  BY DEF Breakdown
<1>2. /\ Overview(h).earned = Breakdown(h).total
      /\ Aggregates(h).revenue = Breakdown(h).total
      /\ Revenue[h] = Breakdown(h).total
      /\ OldBreakdown(h).net = Breakdown(h).total
  BY <1>1 DEF Overview, Aggregates, Revenue, OldBreakdown
<1>3. /\ aggregate[h] = Net(OfHost(Live, h))
      /\ ledger[h] = Net(OfHost(Live, h)) - Owing(h)
  BY DEF RowsTrue, MoneyTrue
<1>4. OldBreakdown(h).total = aggregate[h]
  BY DEF OldBreakdown
<1>5. Balance(h) = 0
  BY AccountsApart DEF Balance
<1>6. Drift(h) = 0 - ledger[h] /\ ledger[h] \in Int
  BY <1>5, AccountsApart DEF Drift, RowsTrue, StTypeOK
<1>7. -Drift(h) = ledger[h]
  BY <1>6
<1>8. Net(OfHost(Live, h)) = Breakdown(h).total + Net(OfHost(ActivePasses, h))
  BY <1>1, HostLive
<1>9. OldBreakdown(h).total = Breakdown(h).total + Net(OfHost(ActivePasses, h))
  BY <1>3, <1>4, <1>8
<1>10. ASSUME \A w \in Payouts : PayeeOf[w] = h => Quiet(w)
       PROVE  -Drift(h) = Breakdown(h).total + Net(OfHost(ActivePasses, h)) - InTransit(h)
  <2>1. PICK t \in Nat : t = Breakdown(h).total
    BY BreakdownType
  <2>2. PICK p \in Nat : p = Net(OfHost(ActivePasses, h))
    <3>1. OfHost(ActivePasses, h) \in SUBSET Purchases
      BY LiveParts DEF OfHost
    <3> QED BY <3>1, SumTypes
  <2>3. PICK i \in Nat : i = InTransit(h)
    BY BreakdownType
  <2>4. ledger[h] = (t + p) - i
    BY <1>3, <1>8, <1>10, <2>1, <2>2, <2>3, QuietTransit
  <2>5. (t + p) - i = t + (p - i)
    OBVIOUS
  <2> QED BY <1>7, <2>1, <2>2, <2>3, <2>4, <2>5
<1> QED BY <1>1, <1>2, <1>9, <1>10

\* A host has finitely many bookings.
LEMMA HostFinite == ASSUME NEW h PROVE IsFiniteSet(OfHost(Confirmed, h))
<1>1. OfHost(Confirmed, h) \in SUBSET Purchases
  BY LiveParts DEF OfHost
<1> QED BY <1>1, PurchasesFinite

\* With five hosts or fewer nobody with a booking is left out.
LEMMA Leaderboard ==
    ASSUME NEW h \in HostSet, Cardinality(HostSet) <= 5
    PROVE  h \in TopHosts <=> Aggregates(h).bookings > 0
<1>1. PICK Ahead \in SUBSET HostSet : Ahead = {k \in HostSet : Revenue[k] > Revenue[h]}
  OBVIOUS
<1>2. h \notin Ahead
  <2>1. Revenue[h] \in Int
    <3>1. OfHost(Confirmed, h) \in SUBSET Purchases
      BY LiveParts DEF OfHost
    <3> QED BY <3>1, SumTypes DEF Revenue
  <2> QED BY <1>1, <2>1
<1>3. IsFiniteSet(HostSet \ {h}) /\ Cardinality(HostSet \ {h}) = Cardinality(HostSet) - 1
  BY HostsFinite, FS_RemoveElement
<1>4. Ahead \in SUBSET (HostSet \ {h})
  BY <1>2
<1>5. Cardinality(Ahead) <= Cardinality(HostSet \ {h}) /\ Cardinality(Ahead) \in Nat
  BY <1>3, <1>4, FS_Subset, FS_CardinalityType
<1>6. Cardinality(HostSet) \in Nat
  BY HostsFinite, FS_CardinalityType
<1>7. Cardinality(Ahead) < 5
  BY <1>3, <1>5, <1>6
<1>8. Aggregates(h).bookings > 0 <=> OfHost(Confirmed, h) # {}
  <2>1. Aggregates(h).bookings = Cardinality(OfHost(Confirmed, h))
    BY DEF Aggregates
  <2>2. Cardinality(OfHost(Confirmed, h)) \in Nat
    BY HostFinite, FS_CardinalityType
  <2>3. Cardinality(OfHost(Confirmed, h)) = 0 <=> OfHost(Confirmed, h) = {}
    BY HostFinite, FS_EmptySet
  <2> QED BY <2>1, <2>2, <2>3
<1>9. h \in TopHosts <=> OfHost(Confirmed, h) # {} /\ Cardinality(Ahead) < 5
  BY <1>1 DEF TopHosts
<1> QED BY <1>7, <1>8, <1>9

\* No more reviews are awaited than there are bookings.
LEMMA AwaitedReviews ==
    ASSUME RowsTrue, NEW h \in HostSet
    PROVE  Attention(h).reviews \in 0 .. Aggregates(h).bookings
<1>1. PICK n \in Nat : n = Cardinality(OfHost(Confirmed, h))
  BY HostFinite, FS_CardinalityType
<1>2. PICK k \in Nat : k = reviewed[h]
  BY DEF RowsTrue, StTypeOK
<1>3. Max({0, n - k}) \in 0 .. n
  <2>1. n - k \in Int
    OBVIOUS
  <2>2. Max({0, n - k}) = IF n - k >= 0 THEN n - k ELSE 0
    BY <2>1, MaxOfTwo
  <2> QED BY <2>2
<1>4. Attention(h).reviews = Max({0, n - k}) /\ Aggregates(h).bookings = n
  BY <1>1, <1>2 DEF Attention, Aggregates
<1> QED BY <1>3, <1>4

\* What is "cancelled", not "refunded", is what had cost nothing.
LEMMA CancelledWereFree ==
    ASSUME RowsTrue, NEW h
    PROVE  OfHost(With("cancelled"), h) = {b \in OfHost(Made \ Confirmed, h) : ChargeOf[b].amount = 0}
<1>1. sold \in [Sales -> {"none", "confirmed", "cancelled", "refunded"}]
  BY DEF RowsTrue, StTypeOK, Ended
<1>2. \A b \in Sales : /\ sold[b] = "cancelled" => ChargeOf[b].amount = 0
                       /\ sold[b] = "refunded" => ChargeOf[b].amount # 0
  <2>1. \A b \in Sales : ChargeOf[b].amount \in Nat
    BY SalesApart, PurchaseParts
  <2> QED BY <2>1 DEF RowsTrue, StatusTrue
<1>3. \A b \in Sales : sold[b] = "cancelled" <=> b \in Made \ Confirmed /\ ChargeOf[b].amount = 0
  BY <1>1, <1>2 DEF Made, Confirmed, With
<1> QED BY <1>3 DEF OfHost, With, Made

\* What guests spent, guest by guest, is what all the purchases cost.
LEMMA GuestsSpent ==
    ASSUME NEW S \in SUBSET Purchases, NEW F, \A g \in Payers : F[g] = Amount(OfPayer(S, g))
    PROVE  SumFunctionOnSet(F, Payers) = Amount(S)
<1>1. IsFiniteSet(S) /\ IsFiniteSet(Payers)
  BY PurchasesFinite
<1>2. \A b \in S : AmountOf[b] \in Int /\ PayerOf[b] \in Payers
  BY PurchasesFinite, PurchaseParts
<1>3. \A g \in Payers : F[g] = SumFunctionOnSet(AmountOf, Class(PayerOf, S, g))
  BY DEF Amount, OfPayer, Class
<1>4. SumFunctionOnSet(F, Payers) = SumFunctionOnSet(AmountOf, S)
  BY <1>1, <1>2, <1>3, SumByClass
<1> QED BY <1>4 DEF Amount

\* What hosts earned, host by host, is what all the purchases net.
LEMMA HostsEarned ==
    ASSUME NEW S \in SUBSET Purchases, NEW F, \A h \in HostSet : F[h] = Net(OfHost(S, h))
    PROVE  SumFunctionOnSet(F, HostSet) = Net(S)
<1>1. IsFiniteSet(S) /\ IsFiniteSet(HostSet)
  BY PurchasesFinite, HostsFinite
<1>2. \A b \in S : NetOf[b] \in Int /\ HostsOf[b] \in HostSet
  BY PurchasesFinite, PurchaseParts
<1>3. \A h \in HostSet : F[h] = SumFunctionOnSet(NetOf, Class(HostsOf, S, h))
  BY DEF Net, OfHost, Class
<1>4. SumFunctionOnSet(F, HostSet) = SumFunctionOnSet(NetOf, S)
  BY <1>1, <1>2, <1>3, SumByClass
<1> QED BY <1>4 DEF Net

\* The headline agrees with the guests' spending and the hosts' revenue.
LEMMA HeadlineAgrees ==
    /\ Headline.revenue = SumFunctionOnSet([g \in Payers |-> UserRow(g).spent], ListUsers(""))
    /\ Headline.revenue - Headline.income = SumFunctionOnSet(Revenue, HostSet)
    /\ Headline.revenue = Amount(Confirmed)
<1>1. PICK S \in SUBSET Purchases : S = Confirmed
  BY LiveParts
<1>2. Headline.revenue = Amount(S) /\ Headline.income = Fee(S)
  BY <1>1 DEF Headline
<1>3. ListUsers("") = Payers
  BY DEF ListUsers, InTier
<1>4. PICK F : F = [g \in Payers |-> UserRow(g).spent]
  OBVIOUS
<1>5. \A g \in Payers : F[g] = Amount(OfPayer(S, g))
  BY <1>1, <1>4 DEF UserRow
<1>6. SumFunctionOnSet(F, Payers) = Amount(S)
  BY <1>5, GuestsSpent
<1>7. SumFunctionOnSet(Revenue, HostSet) = Net(S)
  <2>1. PICK G : G = Revenue
    OBVIOUS
  <2>2. \A h \in HostSet : G[h] = Net(OfHost(S, h))
    BY <1>1, <2>1 DEF Revenue
  <2> QED BY <2>1, <2>2, HostsEarned
<1>8. Amount(S) = Fee(S) + Net(S)
  <2>1. IsFiniteSet(S) /\ \A b \in S : FeeOf[b] \in Int /\ NetOf[b] \in Int /\ AmountOf[b] = FeeOf[b] + NetOf[b]
    BY PurchasesFinite
  <2>2. SumFunctionOnSet(AmountOf, S) = SumFunctionOnSet(FeeOf, S) + SumFunctionOnSet(NetOf, S)
    BY <2>1, SumPlus
  <2> QED BY <2>2 DEF Amount, Fee, Net
<1>9. Amount(S) - Fee(S) = Net(S)
  BY <1>8, SumTypes
<1> QED BY <1>1, <1>2, <1>3, <1>4, <1>6, <1>7, <1>9

\* The payment of a live purchase.
PaymentOf(b) == [type |-> "booking", status |-> "completed", of |-> b]

\* The payments tab's volume is what the live purchases cost.
LEMMA VolumeIsLive == Summary.volume = Amount(Live)
<1>1. PICK S \in SUBSET Purchases : S = Live
  BY LivePurchases
<1>2. PICK at : at = [b \in S |-> PaymentOf(b)]
  OBVIOUS
<1>3. ListPayments("booking", "completed") = {at[b] : b \in S}
  <2>1. \A b \in S : at[b] = [type |-> "booking", status |-> "completed", of |-> b]
    BY <1>2 DEF PaymentOf
  <2>2. ASSUME NEW b \in S PROVE at[b] \in ListPayments("booking", "completed")
    <3>1. [type |-> "booking", status |-> "completed", of |-> b] \in Payments
      BY <1>1 DEF Payments
    <3>2. at[b] \in Payments /\ at[b].type = "booking" /\ at[b].status = "completed"
      BY <2>1, <3>1
    <3> QED BY <3>2 DEF ListPayments
  <2>3. ASSUME NEW p \in ListPayments("booking", "completed") PROVE \E b \in S : p = at[b]
    <3>1. p \in Payments /\ p.type = "booking" /\ p.status = "completed"
      BY DEF ListPayments
    <3>2. \/ \E b \in Live : p = [type |-> "booking", status |-> "completed", of |-> b]
          \/ \E b : p = [type |-> "booking", status |-> "reversed", of |-> b]
          \/ \E b : p = [type |-> "refund", status |-> "completed", of |-> b]
          \/ \E w : p = [type |-> "payout", status |-> payoutRow[w], of |-> w]
      BY <3>1 DEF Payments
    <3>3. \E b \in Live : p = [type |-> "booking", status |-> "completed", of |-> b]
      BY <3>1, <3>2
    <3> QED BY <1>1, <2>1, <3>3
  <2> QED BY <2>2, <2>3
<1>4. \A b \in S : CentsOf[at[b]] = AmountOf[b] /\ AmountOf[b] \in Int
  <2> TAKE b \in S
  <2>1. at[b] = [type |-> "booking", status |-> "completed", of |-> b]
    BY <1>2 DEF PaymentOf
  <2>2. at[b] \in Payments
    BY <1>1, <2>1 DEF Payments
  <2> QED BY <2>1, <2>2, PurchasesFinite DEF CentsOf
<1>5. \A b, c \in S : at[b] = at[c] => b = c
  <2> TAKE b \in S, c \in S
  <2>1. at[b].of = b /\ at[c].of = c
    BY <1>2 DEF PaymentOf
  <2> QED BY <2>1
<1>6. IsFiniteSet(S)
  BY PurchasesFinite
<1>7. SumFunctionOnSet(CentsOf, {at[b] : b \in S}) = SumFunctionOnSet(AmountOf, S)
  <2>1. PICK C : C = CentsOf
    OBVIOUS
  <2>2. \A b \in S : AmountOf[b] \in Int /\ C[at[b]] = AmountOf[b]
    BY <1>4, <2>1
  <2>3. SumFunctionOnSet(C, {at[b] : b \in S}) = SumFunctionOnSet(AmountOf, S)
    BY <1>5, <1>6, <2>2, SumRenamed
  <2> QED BY <2>1, <2>3
<1> QED BY <1>1, <1>3, <1>7 DEF Summary, CompletedCents, Amount

\* The guests' balances are the top-ups less what their purchases cost.
LEMMA BalancesAgree ==
    ASSUME RowsTrue
    PROVE  TopUps * Cardinality(Payers) - Amount(Live) = SumFunctionOnSet(stored, Payers)
<1>1. PICK S \in SUBSET Purchases : S = Live
  BY LivePurchases
<1>2. PICK F : F = [g \in Payers |-> Amount(OfPayer(S, g))]
  OBVIOUS
<1>3. PICK st \in [Payers -> Int] : st = stored
  BY DEF RowsTrue, StTypeOK
<1>4. PICK K : K = [g \in Payers |-> TopUps]
  OBVIOUS
<1>5. IsFiniteSet(Payers) /\ TopUps \in Int
  BY PurchasesFinite, StatementsAssumption
<1>6. \A g \in Payers : F[g] \in Int /\ st[g] \in Int /\ K[g] = st[g] + F[g] /\ K[g] = TopUps
  <2> TAKE g \in Payers
  <2>1. OfPayer(S, g) \in SUBSET Purchases
    BY DEF OfPayer
  <2>2. F[g] \in Int /\ F[g] = Amount(OfPayer(S, g))
    BY <1>2, <2>1, SumTypes
  <2>3. st[g] = TopUps - F[g]
    BY <1>1, <1>3, <2>2 DEF RowsTrue, MoneyTrue
  <2>4. K[g] = TopUps
    BY <1>4
  <2>5. TopUps = st[g] + F[g]
    BY <1>5, <2>2, <2>3
  <2> QED BY <2>2, <2>4, <2>5
<1>7. SumFunctionOnSet(K, Payers) = SumFunctionOnSet(st, Payers) + SumFunctionOnSet(F, Payers)
  BY <1>5, <1>6, SumPlus
<1>8. SumFunctionOnSet(K, Payers) = TopUps * Cardinality(Payers)
  BY <1>5, <1>6, SumConstant
<1>9. SumFunctionOnSet(F, Payers) = Amount(S)
  <2>1. \A g \in Payers : F[g] = Amount(OfPayer(S, g))
    BY <1>2
  <2> QED BY <2>1, GuestsSpent
<1>10. SumFunctionOnSet(st, Payers) \in Int /\ Amount(S) \in Int
  <2>1. SumFunctionOnSet(st, Payers) \in Int
    BY <1>5, <1>6, SumInt
  <2> QED BY <2>1, SumTypes
<1>11. SumFunctionOnSet(K, Payers) - Amount(S) = SumFunctionOnSet(st, Payers)
  BY <1>7, <1>9, <1>10
<1> QED BY <1>1, <1>3, <1>8, <1>11

\* Reconciliation and the payments tab find the same accounts at fault, none a guest's.
LEMMA DiscrepanciesAgree ==
    ASSUME RowsTrue
    PROVE  /\ Discrepancies \cap Payers = {}
           /\ Verdict = "success" <=> Summary.drifting = 0
<1>1. \A g \in Payers : Balance(g) = ledger[g]
  BY DEF Balance, RowsTrue, MoneyTrue
<1>2. \A a \in Accounts : Balance(a) \in Int /\ ledger[a] \in Int
  BY DEF Balance, RowsTrue, StTypeOK
<1>3. \A a \in Accounts : Drift(a) # 0 <=> Balance(a) # ledger[a]
  BY <1>2 DEF Drift
<1>4. Discrepancies = {a \in Accounts : Drift(a) # 0}
  BY <1>3 DEF Discrepancies
<1>5. Summary.drifting = Cardinality(Discrepancies)
  BY <1>4 DEF Summary
<1>6. IsFiniteSet(Discrepancies)
  BY HostsFinite, FS_Subset DEF Discrepancies
<1>7. Summary.drifting = 0 <=> Discrepancies = {}
  BY <1>5, <1>6, FS_EmptySet
<1>8. Verdict = "success" <=> Discrepancies = {}
  BY DEF Verdict
<1> QED BY <1>1, <1>7, <1>8 DEF Discrepancies

\* Written query by query, the pages agree: directory, dashboard, payments tab,
\* reconciliation, and the host's three.
THEOREM PagesAlwaysAgree == StatementsSpec => []PagesAgree
<1>1. StInv => PagesAgree
  <2> SUFFICES ASSUME RowsTrue PROVE PagesAgree
    BY DEF StInv
  <2>1. ASSUME NEW h \in HostSet
        PROVE  LET total == Breakdown(h).total
                   passes == Net(OfHost(ActivePasses, h))
               IN
               /\ {Overview(h).earned, Aggregates(h).revenue, Revenue[h], OldBreakdown(h).net} = {total}
               /\ OldBreakdown(h).total = total + passes
               /\ (\A w \in Payouts : PayeeOf[w] = h => Quiet(w))
                     => -Drift(h) = total + passes - InTransit(h)
               /\ Cardinality(HostSet) <= 5 => (h \in TopHosts <=> Aggregates(h).bookings > 0)
               /\ Attention(h).reviews \in 0 .. Aggregates(h).bookings
               /\ Attention(h).cancelled =
                    Min({10, Cardinality({b \in OfHost(Made \ Confirmed, h) : ChargeOf[b].amount = 0})})
    <3>1. {Overview(h).earned, Aggregates(h).revenue, Revenue[h], OldBreakdown(h).net}
             = {Breakdown(h).total}
      BY HostFigures
    <3>2. Attention(h).cancelled =
            Min({10, Cardinality({b \in OfHost(Made \ Confirmed, h) : ChargeOf[b].amount = 0})})
      BY CancelledWereFree DEF Attention
    <3> QED BY <3>1, <3>2, HostFigures, Leaderboard, AwaitedReviews
  <2>2. Summary.volume = Headline.revenue + Amount(ActivePasses)
    BY VolumeIsLive, HeadlineAgrees, LiveParts, TogetherSums
  <2>3. Summary.topups - Summary.volume = SumFunctionOnSet(stored, Payers)
    <3>1. Summary.topups = TopUps * Cardinality(Payers)
      BY DEF Summary
    <3> QED BY <3>1, VolumeIsLive, BalancesAgree
  <2> QED BY <2>1, <2>2, <2>3, HeadlineAgrees, DiscrepanciesAgree DEF PagesAgree
<1> QED BY <1>1, StInvAlways, PTL

==========================================================================
