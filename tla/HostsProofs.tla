------------------------------ MODULE HostsProofs ------------------------------
(***************************************************************************)
(* What TLAPS proves about the money and the page of a host.  CoHost: the  *)
(* claims on an event's earnings, for any co-hosts, requests, retries and  *)
(* keys.  HostProfile: the approval and the rating, for any requests that  *)
(* overlap and any reviews.  Treasury: one key moves the platform's money  *)
(* once, because whatever reaches the provider went through the ledger,    *)
(* where no two debits share a key; and a holder loses its last primary    *)
(* method only when two of its own requests overlap.                       *)
(***************************************************************************)
EXTENDS CoHost, HostProfile, Treasury, Sums

------------------------------------------------------------------------------
(* CoHost: what is claimed of an event's earnings.                         *)

CoHostTypeOK ==
    /\ share \in [CoHosts -> {"none", "pending", "accepted", "declined", "revoked"}]
    /\ answering \subseteq CoHosts
    /\ passed \in Nat
    /\ claim \in [Requests -> {"none", "reserved", "completed", "failed"}]
    /\ amount \in [Requests -> Nat]
    /\ linked \subseteq Requests
    /\ payment \in [Keys -> {"none", "processing"} \cup Verdicts]
    /\ cents \in [Keys -> Nat]
    /\ bank \in [Keys -> {"none", "inflight"} \cup Verdicts]
    /\ unanswered \subseteq Keys
    /\ credited \subseteq Keys \X Verdicts
    /\ returned \in [Requests -> {"none", "processing"} \cup Verdicts]
    /\ pc \in [Requests -> {"new", "claiming", "inserting", "requested", "sending", "linking",
                            "closing", "releasing", "done"}]

\* A key whose transfer has not come back, and was answered.
Sound(k) == k \notin unanswered /\ bank[k] \notin {"failed", "reversed"}

\* A request has no claim before it commits one, and has it while it is worked on.
ClaimsFollowRequests ==
    \A r \in Requests :
        /\ pc[r] \in {"new", "claiming", "inserting"} => claim[r] = "none"
        /\ pc[r] \in {"requested", "sending"} => claim[r] = "reserved"
        /\ r \in linked => pc[r] \in {"closing", "done"}

\* One request sends the transfer of a key, once.
KeyIsSentOnce ==
    /\ \A k \in Keys : payment[k] = "none" => bank[k] = "none" /\ k \notin unanswered
    /\ \A r \in Requests : pc[r] = "sending" =>
          /\ payment[KeyOf[r]] # "none" /\ bank[KeyOf[r]] = "none" /\ KeyOf[r] \notin unanswered
          /\ \A q \in Requests : pc[q] = "sending" /\ KeyOf[q] = KeyOf[r] => q = r

\* A payment is failed when the transfer is, or when its reply was lost.
FailuresAreTrue == \A k \in Keys : payment[k] \in {"failed", "reversed"} => ~Sound(k)

\* A claim whose transfer is sound is never released once it is on its way to
\* the payment.
ClaimsFollowTransfers ==
    \A r \in Requests : Sound(KeyOf[r]) =>
        /\ r \in linked => r \in Standing
        /\ pc[r] \in {"linking", "closing"} =>
              r \in Standing /\ returned[r] \in {"processing", "completed"}

\* The request that sent the money, or a retry of it, still holds its claim.
MoneyIsHeld ==
    \A k \in Keys : bank[k] \in {"inflight", "completed"} /\ k \notin unanswered =>
        \E r \in Standing : KeyOf[r] = k /\ pc[r] \in {"linking", "closing", "done"}

ClaimInv ==
    /\ ClaimsFollowRequests
    /\ KeyIsSentOnce
    /\ FailuresAreTrue
    /\ ClaimsFollowTransfers
    /\ MoneyIsHeld

\* The claims that count against the pool, and those about to be committed, each
\* of which was found to fit beside the former when it was last looked at.
Waiting == {r \in Requests : pc[r] = "inserting"}

BoundInv ==
    /\ Cardinality(InFlight) <= MaxInFlight
    /\ \A r \in Waiting : amount[r] <= passed
    /\ SumFunctionOnSet(amount, Kept) + SumFunctionOnSet(amount, Waiting) <= MaxInFlight * passed

CoHostInv == CoHostTypeOK /\ ClaimInv /\ BoundInv

LEMMA KeyOfRequest == \A r \in Requests : KeyOf[r] \in Keys
  BY DEF Keys

\* The sets that are summed over.
LEMMA RequestSets ==
    /\ Kept \in SUBSET Requests /\ Waiting \in SUBSET Requests /\ InFlight \in SUBSET Requests
    /\ Standing \in SUBSET Requests /\ Kept \subseteq Standing
    /\ IsFiniteSet(Kept) /\ IsFiniteSet(Waiting) /\ IsFiniteSet(InFlight) /\ IsFiniteSet(Standing)
<1>1. IsFiniteSet(Requests)
  BY CoHostAssumption DEF CoHostAssumption
<1>2. /\ Kept \subseteq Requests /\ Waiting \subseteq Requests /\ InFlight \subseteq Requests
      /\ Standing \subseteq Requests /\ Kept \subseteq Standing
  BY DEF Kept, Waiting, InFlight, Standing
<1> QED BY <1>1, <1>2, FS_Subset

LEMMA SumsNat ==
    ASSUME CoHostTypeOK
    PROVE  /\ SumFunctionOnSet(amount, Kept) \in Nat /\ SumFunctionOnSet(amount, Waiting) \in Nat
           /\ Claimed \in Nat /\ SumFunctionOnSet(amount, Kept) <= Claimed
<1>1. /\ \A r \in Standing : amount[r] \in Nat
      /\ \A r \in Kept : amount[r] \in Nat
      /\ \A r \in Waiting : amount[r] \in Nat
  BY RequestSets DEF CoHostTypeOK
<1>2. /\ SumFunctionOnSet(amount, Kept) \in Nat /\ SumFunctionOnSet(amount, Waiting) \in Nat
      /\ Claimed \in Nat
  BY <1>1, RequestSets, SumNat DEF Claimed
<1>3. SumFunctionOnSet(amount, Kept) <= SumFunctionOnSet(amount, Standing)
  BY <1>1, RequestSets, SumSubset
<1> QED BY <1>2, <1>3 DEF Claimed

LEMMA TimesGrows ==
    ASSUME NEW a \in Nat, NEW b \in Nat, NEW c \in Nat, b <= c
    PROVE  a * b \in Nat /\ a * c \in Nat /\ a * b <= a * c
<1>1. c = b + (c - b) /\ c - b \in Nat
  OBVIOUS
<1>2. a * c = a * b + a * (c - b) /\ a * (c - b) >= 0 /\ a * b \in Nat /\ a * c \in Nat
  BY <1>1
<1> QED BY <1>2

\* Terms bounded by c sum to at most c for each of them.
LEMMA SumAtMostEach ==
    ASSUME NEW f, NEW S, IsFiniteSet(S), NEW c \in Nat, \A x \in S : f[x] \in Nat /\ f[x] <= c
    PROVE  SumFunctionOnSet(f, S) <= Cardinality(S) * c
<1> DEFINE Good == {T \in SUBSET S : SumFunctionOnSet(f, T) <= Cardinality(T) * c}
<1>1. {} \in Good
  BY SumEmpty, FS_EmptySet
<1>2. ASSUME NEW T \in SUBSET S, T # {}, \A x \in T : T \ {x} \in Good PROVE T \in Good
  <2> DEFINE p == Pick(T)
             n == Cardinality(T \ {p})
  <2>1. p \in T /\ p \in S
    BY <1>2, PickMember
  <2>2. IsFiniteSet(T) /\ IsFiniteSet(T \ {p})
    BY FS_Subset
  <2>3. n \in Nat /\ Cardinality(T) = n + 1
    BY <2>1, RemovedIsSmaller, <2>2, FS_CardinalityType
  <2>4. SumFunctionOnSet(f, T \ {p}) <= n * c
    BY <1>2, <2>1
  <2>5. SumFunctionOnSet(f, T) = f[p] + SumFunctionOnSet(f, T \ {p})
    BY <1>2, <2>2, SumByPick
  <2>6. SumFunctionOnSet(f, T \ {p}) \in Nat
    <3>1. \A x \in T \ {p} : f[x] \in Nat
      OBVIOUS
    <3> QED BY <2>2, <3>1, SumNat
  <2>7. f[p] \in Nat /\ f[p] <= c
    BY <2>1
  <2> HIDE DEF n, p
  <2>8. (n + 1) * c = n * c + c /\ n * c \in Nat
    BY <2>3
  <2>9. SumFunctionOnSet(f, T) <= Cardinality(T) * c
    BY <2>3, <2>4, <2>5, <2>6, <2>7, <2>8
  <2> QED BY <2>9
<1> HIDE DEF Good
<1>3. \A T \in SUBSET S : T \in Good
  BY <1>1, <1>2, SubsetInduction
<1> QED BY <1>3 DEF Good

\* Steps that add nothing to the sums.
LEMMA BoundKept ==
    ASSUME CoHostTypeOK, CoHostTypeOK', BoundInv, passed <= passed',
           Kept' \subseteq Kept, Waiting' \subseteq Waiting, InFlight' \subseteq InFlight,
           \A r \in Kept \cup Waiting : amount'[r] = amount[r]
    PROVE  BoundInv'
<1> DEFINE K == Kept'
           W == Waiting'
           F == InFlight'
<1>1. /\ IsFiniteSet(Kept) /\ IsFiniteSet(Waiting) /\ IsFiniteSet(InFlight)
      /\ K \in SUBSET Kept /\ W \in SUBSET Waiting /\ F \in SUBSET InFlight
      /\ \A r \in Kept : amount[r] \in Nat
      /\ \A r \in Waiting : amount[r] \in Nat
  BY RequestSets DEF CoHostTypeOK
<1>2. IsFiniteSet(K) /\ IsFiniteSet(W)
  BY <1>1, FS_Subset
<1>3. (\A r \in K : amount[r] = amount'[r]) /\ (\A r \in W : amount[r] = amount'[r])
  BY <1>1
<1> HIDE DEF K, W, F
<1>4. SumFunctionOnSet(amount, K) <= SumFunctionOnSet(amount, Kept)
  BY <1>1, SumSubset
<1>5. SumFunctionOnSet(amount, W) <= SumFunctionOnSet(amount, Waiting)
  BY <1>1, SumSubset
<1>6. SumFunctionOnSet(amount', K) = SumFunctionOnSet(amount, K)
  BY <1>2, <1>3, SumSame
<1>7. SumFunctionOnSet(amount', W) = SumFunctionOnSet(amount, W)
  BY <1>2, <1>3, SumSame
<1>8. Cardinality(F) <= Cardinality(InFlight) /\ Cardinality(F) \in Nat /\ Cardinality(InFlight) \in Nat
  BY <1>1, FS_Subset, FS_CardinalityType
<1>9. /\ MaxInFlight \in Nat /\ MaxInFlight * passed \in Nat /\ MaxInFlight * passed' \in Nat
      /\ MaxInFlight * passed <= MaxInFlight * passed'
  <2>1. MaxInFlight \in Nat /\ passed \in Nat /\ passed' \in Nat
    BY CoHostAssumption DEF CoHostAssumption, CoHostTypeOK
  <2>2. /\ MaxInFlight * passed \in Nat /\ MaxInFlight * passed' \in Nat
        /\ MaxInFlight * passed <= MaxInFlight * passed'
    BY <2>1, TimesGrows
  <2> QED BY <2>1, <2>2
<1>10. /\ SumFunctionOnSet(amount, K) \in Nat /\ SumFunctionOnSet(amount, W) \in Nat
       /\ SumFunctionOnSet(amount, Kept) \in Nat /\ SumFunctionOnSet(amount, Waiting) \in Nat
  <2>1. (\A r \in K : amount[r] \in Nat) /\ (\A r \in W : amount[r] \in Nat)
    BY <1>1
  <2> QED BY <1>1, <1>2, <2>1, SumNat
<1>11. SumFunctionOnSet(amount', K) + SumFunctionOnSet(amount', W) <= MaxInFlight * passed'
  BY <1>4, <1>5, <1>6, <1>7, <1>9, <1>10 DEF BoundInv
<1>12. \A r \in W : amount'[r] <= passed'
  BY <1>1, <1>3 DEF BoundInv, CoHostTypeOK
<1>13. Cardinality(F) <= MaxInFlight
  BY <1>8, <1>9 DEF BoundInv
<1> QED BY <1>11, <1>12, <1>13 DEF BoundInv, K, W, F

LEMMA CoHostInitHolds == CoHostInit => CoHostInv
<1> SUFFICES ASSUME CoHostInit PROVE CoHostInv
  OBVIOUS
<1>1. CoHostTypeOK
  BY DEF CoHostInit, CoHostTypeOK
<1>2. ClaimInv
  BY KeyOfRequest DEF CoHostInit, ClaimInv, ClaimsFollowRequests, KeyIsSentOnce, FailuresAreTrue,
     ClaimsFollowTransfers, MoneyIsHeld
<1>3. Kept = {} /\ Waiting = {} /\ InFlight = {}
  BY DEF CoHostInit, Kept, Standing, Waiting, InFlight
<1>4. SumFunctionOnSet(amount, Kept) = 0 /\ SumFunctionOnSet(amount, Waiting) = 0
  <2>1. /\ SumFunctionOnSet(amount, Kept) = SumFunctionOnSet(amount, {})
        /\ SumFunctionOnSet(amount, Waiting) = SumFunctionOnSet(amount, {})
    BY <1>3, Zenon
  <2> QED BY <2>1, SumEmpty
<1>5. Cardinality(InFlight) = 0
  <2>1. Cardinality(InFlight) = Cardinality({})
    BY <1>3, Zenon
  <2> QED BY <2>1, FS_EmptySet
<1>6. MaxInFlight \in Nat /\ passed = 0
  BY CoHostAssumption DEF CoHostAssumption, CoHostInit
<1>7. MaxInFlight * passed = 0
  BY <1>6
<1>8. BoundInv
  BY <1>3, <1>4, <1>5, <1>6, <1>7 DEF BoundInv
<1> QED BY <1>1, <1>2, <1>8 DEF CoHostInv

\* What the invariant says nothing about.
LEMMA OtherStepsKeep ==
    ASSUME CoHostInv, CoHostTypeOK',
           UNCHANGED <<coClaims, payment, bank, unanswered, returned, pc>>, passed <= passed'
    PROVE  CoHostInv'
<1>1. ClaimInv'
  BY DEF CoHostInv, ClaimInv, ClaimsFollowRequests, KeyIsSentOnce, FailuresAreTrue,
     ClaimsFollowTransfers, MoneyIsHeld, Standing, Sound, coClaims
<1>2. BoundInv'
  BY BoundKept DEF CoHostInv, Kept, Waiting, InFlight, Standing, Sound, coClaims
<1> QED BY <1>1, <1>2 DEF CoHostInv

LEMMA SharesKeep ==
    ASSUME CoHostInv, NEW c \in CoHosts,
           \/ \E may \in BOOLEAN : InviteCoHost(c, may)
           \/ ReadInvite(c)
           \/ \E accept \in BOOLEAN : RespondToCoHostInvite(c, accept)
           \/ SetCoHostCanWithdraw(c) \/ RevokeCoHost(c)
    PROVE  CoHostInv'
<1>1. UNCHANGED <<passed, coClaims, coPayments, returned, pc>>
  BY DEF InviteCoHost, ReadInvite, RespondToCoHostInvite, SetCoHostCanWithdraw, RevokeCoHost
<1>2. /\ share' \in [CoHosts -> {"none", "pending", "accepted", "declined", "revoked"}]
      /\ answering' \subseteq CoHosts
  BY DEF CoHostInv, CoHostTypeOK, InviteCoHost, ReadInvite, RespondToCoHostInvite,
     SetCoHostCanWithdraw, RevokeCoHost
<1>3. CoHostTypeOK'
  BY <1>1, <1>2 DEF CoHostInv, CoHostTypeOK, coClaims, coPayments
<1> QED BY <1>1, <1>3, OtherStepsKeep DEF coPayments, CoHostInv, CoHostTypeOK

LEMMA PoolKeeps ==
    ASSUME CoHostInv, (\E sum \in Earnings : Occur(sum)) \/ OwnerWithdraws PROVE CoHostInv'
<1>1. UNCHANGED <<coShares, coClaims, payment, cents, bank, unanswered, credited, returned, pc>>
  BY DEF Occur, OwnerWithdraws, coPayments
<1>2. passed' \in Nat /\ passed <= passed'
  BY CoHostAssumption DEF Occur, OwnerWithdraws, CoHostInv, CoHostTypeOK, CoHostAssumption
<1>3. CoHostTypeOK'
  BY <1>1, <1>2 DEF CoHostInv, CoHostTypeOK, coShares, coClaims
<1> QED BY <1>1, <1>2, <1>3, OtherStepsKeep

\* A request that goes on with its work, keeping its place among those in flight.
LEMMA InFlightStays ==
    ASSUME NEW r \in Requests, pc[r] \notin {"new", "done"},
           \A q \in Requests : q # r => pc'[q] = pc[q]
    PROVE  InFlight' \subseteq InFlight
  BY DEF InFlight

LEMMA RequestKeeps ==
    ASSUME CoHostInv, NEW r \in Requests, RequestCoHostWithdrawal(r) PROVE CoHostInv'
<1>0. CoHostTypeOK /\ ClaimInv /\ BoundInv
  BY DEF CoHostInv
<1> DEFINE sum == IF Asked[r] = 0 THEN passed - Claimed ELSE Asked[r]
<1>1. sum \in Nat
  <2>1. Asked[r] \in Nat /\ passed \in Nat /\ Claimed \in Nat /\ sum > 0
    BY <1>0, SumsNat, CoHostAssumption
       DEF CoHostTypeOK, CoHostAssumption, RequestCoHostWithdrawal
  <2> QED BY <2>1
<1>2. /\ amount' = [amount EXCEPT ![r] = sum] /\ pc[r] = "new"
      /\ pc' = [pc EXCEPT ![r] = "claiming"] /\ Cardinality(InFlight) < MaxInFlight
      /\ UNCHANGED <<share, canWithdraw, answering, passed, claim, linked, payment, cents, bank,
                     unanswered, credited, returned>>
  BY DEF RequestCoHostWithdrawal, Goes, coShares, coPayments
<1> HIDE DEF sum
<1>3. CoHostTypeOK'
  BY <1>0, <1>1, <1>2 DEF CoHostTypeOK
<1>4. /\ pc'[r] = "claiming" /\ \A q \in Requests : q # r => pc'[q] = pc[q]
      /\ Standing' = Standing
  BY <1>0, <1>2 DEF CoHostTypeOK, Standing
<1>5. ClaimInv'
  BY <1>0, <1>2, <1>4, RequestSets
     DEF ClaimInv, ClaimsFollowRequests, KeyIsSentOnce, FailuresAreTrue, ClaimsFollowTransfers,
     MoneyIsHeld, Sound
<1>6. Kept' = Kept /\ Waiting' = Waiting /\ r \notin Kept /\ r \notin Waiting
  BY <1>0, <1>2, <1>4 DEF Kept, Waiting, Sound, ClaimInv, ClaimsFollowRequests, Standing
<1>7. InFlight' = InFlight \cup {r} /\ r \notin InFlight
  BY <1>2, <1>4 DEF InFlight
<1>8. Cardinality(InFlight') <= MaxInFlight
  <2>1. Cardinality(InFlight \cup {r}) = Cardinality(InFlight) + 1 /\ Cardinality(InFlight) \in Nat
    BY <1>7, RequestSets, FS_AddElement, FS_CardinalityType
  <2>2. Cardinality(InFlight') = Cardinality(InFlight \cup {r})
    BY <1>7, Zenon
  <2> QED BY <1>2, <2>1, <2>2, CoHostAssumption DEF CoHostAssumption
<1>9. \A q \in Kept \cup Waiting : amount'[q] = amount[q]
  BY <1>0, <1>2, <1>6, RequestSets DEF CoHostTypeOK
<1>10. /\ SumFunctionOnSet(amount', Kept) = SumFunctionOnSet(amount, Kept)
       /\ SumFunctionOnSet(amount', Waiting) = SumFunctionOnSet(amount, Waiting)
  BY <1>9, RequestSets, SumSame
<1>11. /\ SumFunctionOnSet(amount', Kept') = SumFunctionOnSet(amount, Kept)
       /\ SumFunctionOnSet(amount', Waiting') = SumFunctionOnSet(amount, Waiting)
  BY <1>6, <1>10, Zenon
<1>12. passed' = passed
  BY <1>2
<1>13. \A q \in Waiting' : amount'[q] <= passed'
  BY <1>0, <1>2, <1>6, <1>9 DEF BoundInv
<1>14. BoundInv'
  BY <1>0, <1>8, <1>11, <1>12, <1>13 DEF BoundInv
<1> QED BY <1>3, <1>5, <1>14 DEF CoHostInv

\* The statement that reserves the claim looks at the claims that stand.
LEMMA ReserveClaimKeeps ==
    ASSUME CoHostInv, NEW r \in Requests, ReserveClaim(r) PROVE CoHostInv'
<1>0. CoHostTypeOK /\ ClaimInv /\ BoundInv
  BY DEF CoHostInv
<1>1. /\ pc[r] = "claiming" /\ pc' = [pc EXCEPT ![r] = "inserting"]
      /\ amount[r] <= passed - Claimed
      /\ UNCHANGED <<share, canWithdraw, answering, passed, claim, amount, linked, payment, cents,
                     bank, unanswered, credited, returned>>
  BY DEF ReserveClaim, Goes, EventCovers, coShares, coPayments, coClaims
<1>2. CoHostTypeOK'
  BY <1>0, <1>1 DEF CoHostTypeOK
<1>3. /\ pc'[r] = "inserting" /\ \A q \in Requests : q # r => pc'[q] = pc[q]
      /\ Standing' = Standing
  BY <1>0, <1>1 DEF CoHostTypeOK, Standing
<1>4. ClaimInv'
  BY <1>0, <1>1, <1>3, RequestSets
     DEF ClaimInv, ClaimsFollowRequests, KeyIsSentOnce, FailuresAreTrue, ClaimsFollowTransfers,
     MoneyIsHeld, Sound
<1>5. /\ Kept' = Kept /\ Waiting' = Waiting \cup {r} /\ r \notin Waiting /\ InFlight' = InFlight
      /\ r \in InFlight /\ Waiting \cup {r} \subseteq InFlight
  BY <1>1, <1>3 DEF Kept, Waiting, Sound, InFlight
<1> DEFINE w == Cardinality(Waiting)
<1>6. w \in Nat /\ w + 1 <= MaxInFlight
  <2>1. Cardinality(Waiting \cup {r}) = w + 1 /\ w \in Nat
    BY <1>5, RequestSets, FS_AddElement, FS_CardinalityType
  <2>2. Cardinality(Waiting \cup {r}) <= Cardinality(InFlight) /\ Cardinality(InFlight) \in Nat
    BY <1>5, RequestSets, FS_Subset, FS_CardinalityType
  <2> QED BY <1>0, <2>1, <2>2, CoHostAssumption DEF BoundInv, CoHostAssumption
<1>7. /\ passed \in Nat /\ amount[r] \in Nat /\ \A q \in Waiting : amount[q] \in Nat /\ amount[q] <= passed
      /\ MaxInFlight \in Nat
  BY <1>0, RequestSets, CoHostAssumption DEF CoHostTypeOK, BoundInv, CoHostAssumption
<1>8. SumFunctionOnSet(amount, Waiting) <= w * passed
  BY <1>7, RequestSets, SumAtMostEach
<1>9. SumFunctionOnSet(amount, Waiting \cup {r}) = SumFunctionOnSet(amount, Waiting) + amount[r]
  <2>1. amount[r] \in Int /\ \A q \in Waiting : amount[q] \in Int
    BY <1>7
  <2> QED BY <1>5, <2>1, RequestSets, SumAdd
<1>10. /\ SumFunctionOnSet(amount, Kept) \in Nat /\ SumFunctionOnSet(amount, Waiting) \in Nat
       /\ Claimed \in Nat /\ SumFunctionOnSet(amount, Kept) <= Claimed
  BY <1>0, SumsNat
<1> HIDE DEF w
<1>11. w * passed + passed <= MaxInFlight * passed /\ w * passed \in Nat
  <2>1. (w + 1) * passed = w * passed + passed
    BY <1>6, <1>7
  <2>2. passed * (w + 1) <= passed * MaxInFlight
    BY <1>6, <1>7, TimesGrows
  <2>3. passed * (w + 1) = (w + 1) * passed /\ passed * MaxInFlight = MaxInFlight * passed
    BY <1>6, <1>7
  <2> QED BY <2>1, <2>2, <2>3, <1>6, <1>7
<1>12. SumFunctionOnSet(amount, Kept) + SumFunctionOnSet(amount, Waiting \cup {r}) <= MaxInFlight * passed
  BY <1>1, <1>7, <1>8, <1>9, <1>10, <1>11
<1>13. /\ SumFunctionOnSet(amount', Kept') = SumFunctionOnSet(amount, Kept)
       /\ SumFunctionOnSet(amount', Waiting') = SumFunctionOnSet(amount, Waiting \cup {r})
       /\ Cardinality(InFlight') = Cardinality(InFlight)
  BY <1>1, <1>5, Zenon
<1>14. \A q \in Waiting' : amount'[q] <= passed'
  BY <1>1, <1>5, <1>7, <1>10
<1>15. passed' = passed
  BY <1>1
<1>16. BoundInv'
  BY <1>0, <1>12, <1>13, <1>14, <1>15 DEF BoundInv
<1> QED BY <1>2, <1>4, <1>16 DEF CoHostInv

\* The claim is committed: it no longer waits, and counts.
LEMMA CommitClaimKeeps ==
    ASSUME CoHostInv, NEW r \in Requests, CommitClaim(r) PROVE CoHostInv'
<1>0. CoHostTypeOK /\ ClaimInv /\ BoundInv
  BY DEF CoHostInv
<1>1. /\ pc[r] = "inserting" /\ pc' = [pc EXCEPT ![r] = "requested"]
      /\ claim' = [claim EXCEPT ![r] = "reserved"]
      /\ UNCHANGED <<share, canWithdraw, answering, passed, amount, linked, payment, cents,
                     bank, unanswered, credited, returned>>
  BY DEF CommitClaim, Goes, coShares, coPayments
<1>2. CoHostTypeOK'
  BY <1>0, <1>1 DEF CoHostTypeOK
<1>3. /\ pc'[r] = "requested" /\ claim'[r] = "reserved"
      /\ \A q \in Requests : q # r => pc'[q] = pc[q] /\ claim'[q] = claim[q]
      /\ Standing' = Standing \cup {r} /\ r \notin Standing
  BY <1>0, <1>1 DEF CoHostTypeOK, Standing, ClaimInv, ClaimsFollowRequests
<1>4. ClaimInv'
  <2>1. ClaimsFollowRequests' /\ KeyIsSentOnce' /\ FailuresAreTrue'
    BY <1>0, <1>1, <1>3 DEF ClaimInv, ClaimsFollowRequests, KeyIsSentOnce, FailuresAreTrue, Sound
  <2>2. ClaimsFollowTransfers'
    BY <1>0, <1>1, <1>3 DEF ClaimInv, ClaimsFollowTransfers, Sound
  <2>3. MoneyIsHeld'
    BY <1>0, <1>1, <1>3, RequestSets DEF ClaimInv, MoneyIsHeld
  <2> QED BY <2>1, <2>2, <2>3 DEF ClaimInv
<1>5. /\ Kept' \subseteq Kept \cup {r} /\ Waiting' = Waiting \ {r} /\ r \in Waiting
      /\ InFlight' = InFlight /\ r \notin Kept
  BY <1>1, <1>3 DEF Kept, Waiting, Sound, InFlight
<1>6. \A q \in Requests : amount[q] \in Nat /\ amount[q] \in Int
  BY <1>0 DEF CoHostTypeOK
<1> DEFINE K == Kept'
<1>7. /\ SumFunctionOnSet(amount, K) <= SumFunctionOnSet(amount, Kept) + amount[r]
      /\ SumFunctionOnSet(amount, K) \in Nat
  <2>1. SumFunctionOnSet(amount, Kept \cup {r}) = SumFunctionOnSet(amount, Kept) + amount[r]
    <3>1. amount[r] \in Int /\ \A q \in Kept : amount[q] \in Int
      BY <1>6, RequestSets
    <3> QED BY <1>5, <3>1, RequestSets, SumAdd
  <2> DEFINE U == Kept \cup {r}
  <2>2. /\ K \in SUBSET U /\ IsFiniteSet(U)
        /\ \A q \in U : amount[q] \in Nat
    BY <1>5, <1>6, RequestSets, FS_AddElement
  <2> HIDE DEF U, K
  <2>3. SumFunctionOnSet(amount, K) <= SumFunctionOnSet(amount, U)
    BY <2>2, SumSubset
  <2>4. IsFiniteSet(K) /\ \A q \in K : amount[q] \in Nat
    BY <2>2, FS_Subset
  <2>5. SumFunctionOnSet(amount, K) \in Nat
    BY <2>4, SumNat
  <2> QED BY <2>1, <2>3, <2>5 DEF U
<1>8. SumFunctionOnSet(amount, Waiting) = amount[r] + SumFunctionOnSet(amount, Waiting \ {r})
  <2>1. \A q \in Waiting : amount[q] \in Int
    BY <1>6, RequestSets
  <2> QED BY <1>5, <2>1, RequestSets, SumRemove
<1>9. /\ SumFunctionOnSet(amount', Kept') = SumFunctionOnSet(amount, K)
      /\ SumFunctionOnSet(amount', Waiting') = SumFunctionOnSet(amount, Waiting \ {r})
      /\ Cardinality(InFlight') = Cardinality(InFlight)
  BY <1>1, <1>5, Zenon
<1>10. /\ SumFunctionOnSet(amount, Kept) \in Nat /\ SumFunctionOnSet(amount, Waiting) \in Nat
       /\ amount[r] \in Nat /\ MaxInFlight * passed \in Nat /\ passed' = passed
  BY <1>0, <1>1, <1>6, SumsNat, CoHostAssumption DEF CoHostTypeOK, CoHostAssumption
<1>11. \A q \in Waiting' : amount'[q] <= passed'
  BY <1>0, <1>1, <1>5 DEF BoundInv
<1> HIDE DEF K
<1>12. SumFunctionOnSet(amount, K) + SumFunctionOnSet(amount, Waiting \ {r}) <= MaxInFlight * passed
  <2>1. SumFunctionOnSet(amount, Waiting \ {r}) \in Int
    <3>1. IsFiniteSet(Waiting \ {r}) /\ \A q \in Waiting \ {r} : amount[q] \in Int
      BY <1>6, RequestSets, FS_Subset
    <3> QED BY <3>1, SumInt
  <2> QED BY <1>0, <1>7, <1>8, <1>10, <2>1 DEF BoundInv
<1>13. BoundInv'
  BY <1>0, <1>9, <1>10, <1>11, <1>12 DEF BoundInv
<1> QED BY <1>2, <1>4, <1>13 DEF CoHostInv

------------------------------------------------------------------------------
(* Once the claim is committed, a request and the webhook only take away    *)
(* from what counts.                                                        *)

\* A step that adds no claim that counts, and none that waits.
LEMMA AddsNothing ==
    ASSUME CoHostInv, CoHostTypeOK', ClaimInv', UNCHANGED <<passed, amount>>,
           InFlight' \subseteq InFlight, Kept' \subseteq Kept, Waiting' \subseteq Waiting
    PROVE  CoHostInv'
<1>1. BoundInv'
  <2>1. passed <= passed' /\ \A q \in Kept \cup Waiting : amount'[q] = amount[q]
    BY DEF CoHostInv, CoHostTypeOK
  <2> QED BY <2>1, BoundKept DEF CoHostInv
<1> QED BY <1>1 DEF CoHostInv

LEMMA ReplayKeeps ==
    ASSUME CoHostInv, NEW r \in Requests, Replay(r) PROVE CoHostInv'
<1> DEFINE k == KeyOf[r]
<1>0. CoHostTypeOK /\ ClaimInv /\ BoundInv /\ k \in Keys
  BY KeyOfRequest DEF CoHostInv
<1>1. /\ pc[r] = "requested" /\ pc' = [pc EXCEPT ![r] = "linking"]
      /\ payment[k] # "none" /\ returned' = [returned EXCEPT ![r] = payment[k]]
      /\ UNCHANGED <<share, canWithdraw, answering, passed, claim, amount, linked, payment, cents,
                     bank, unanswered, credited>>
  BY DEF Replay, Goes, coShares, coPayments, coClaims
<1>2. CoHostTypeOK'
  BY <1>0, <1>1 DEF CoHostTypeOK
<1>3. /\ pc'[r] = "linking" /\ returned'[r] = payment[k]
      /\ \A q \in Requests : q # r => pc'[q] = pc[q] /\ returned'[q] = returned[q]
      /\ Standing' = Standing
  BY <1>0, <1>1 DEF CoHostTypeOK, Standing
<1>4. r \in Standing /\ (Sound(k) => payment[k] \in {"processing", "completed"})
  BY <1>0, <1>1 DEF ClaimInv, ClaimsFollowRequests, FailuresAreTrue, Standing, CoHostTypeOK, Verdicts
<1>5. ClaimInv'
  <2>1. ClaimsFollowRequests' /\ KeyIsSentOnce' /\ FailuresAreTrue'
    BY <1>0, <1>1, <1>3 DEF ClaimInv, ClaimsFollowRequests, KeyIsSentOnce, FailuresAreTrue, Sound
  <2>2. ClaimsFollowTransfers'
    BY <1>0, <1>1, <1>3, <1>4 DEF ClaimInv, ClaimsFollowTransfers, Sound
  <2>3. MoneyIsHeld'
    BY <1>0, <1>1, <1>3, RequestSets DEF ClaimInv, MoneyIsHeld
  <2> QED BY <2>1, <2>2, <2>3 DEF ClaimInv
<1>6. InFlight' \subseteq InFlight /\ Kept' = Kept /\ Waiting' \subseteq Waiting
  BY <1>1, <1>3 DEF InFlight, Kept, Waiting, Sound
<1> QED BY <1>1, <1>2, <1>5, <1>6, AddsNothing

LEMMA OpenPaymentKeeps ==
    ASSUME CoHostInv, NEW r \in Requests, OpenPayment(r) PROVE CoHostInv'
<1> DEFINE k == KeyOf[r]
<1>0. CoHostTypeOK /\ ClaimInv /\ BoundInv /\ k \in Keys
  BY KeyOfRequest DEF CoHostInv
<1>1. /\ pc[r] = "requested" /\ pc' = [pc EXCEPT ![r] = "sending"]
      /\ payment[k] = "none" /\ payment' = [payment EXCEPT ![k] = "processing"]
      /\ cents' = [cents EXCEPT ![k] = amount[r]]
      /\ UNCHANGED <<share, canWithdraw, answering, passed, claim, amount, linked,
                     bank, unanswered, credited, returned>>
  BY DEF OpenPayment, Goes, coShares, coClaims
<1>2. CoHostTypeOK'
  BY <1>0, <1>1 DEF CoHostTypeOK
<1>3. /\ pc'[r] = "sending" /\ \A q \in Requests : q # r => pc'[q] = pc[q]
      /\ payment'[k] = "processing" /\ \A j \in Keys : j # k => payment'[j] = payment[j]
      /\ Standing' = Standing
  BY <1>0, <1>1 DEF CoHostTypeOK, Standing
<1>4. /\ bank[k] = "none" /\ k \notin unanswered
      /\ \A q \in Requests : pc[q] = "sending" => KeyOf[q] # k
  BY <1>0, <1>1 DEF ClaimInv, KeyIsSentOnce
<1>5. ClaimInv'
  <2>1. ClaimsFollowRequests' /\ FailuresAreTrue'
    BY <1>0, <1>1, <1>3, <1>4 DEF ClaimInv, ClaimsFollowRequests, FailuresAreTrue, Sound
  <2>2. KeyIsSentOnce'
    BY <1>0, <1>1, <1>3, <1>4, KeyOfRequest DEF ClaimInv, KeyIsSentOnce
  <2>3. ClaimsFollowTransfers'
    BY <1>0, <1>1, <1>3 DEF ClaimInv, ClaimsFollowTransfers, Sound
  <2>4. MoneyIsHeld'
    BY <1>0, <1>1, <1>3, RequestSets DEF ClaimInv, MoneyIsHeld
  <2> QED BY <2>1, <2>2, <2>3, <2>4 DEF ClaimInv
<1>6. InFlight' \subseteq InFlight /\ Kept' = Kept /\ Waiting' \subseteq Waiting
  BY <1>1, <1>3 DEF InFlight, Kept, Waiting, Sound
<1> QED BY <1>1, <1>2, <1>5, <1>6, AddsNothing

\* The provider's answer.
LEMMA TransferKeeps ==
    ASSUME CoHostInv, NEW r \in Requests, NEW reply \in Replies, Transfer(r, reply)
    PROVE  CoHostInv'
<1> DEFINE k == KeyOf[r]
           b == BankAfter(reply)
           s == PaymentAfter(reply)
<1>0. CoHostTypeOK /\ ClaimInv /\ BoundInv /\ k \in Keys
  BY KeyOfRequest DEF CoHostInv
<1>1. /\ pc[r] = "sending" /\ pc' = [pc EXCEPT ![r] = "linking"]
      /\ bank' = [bank EXCEPT ![k] = b] /\ payment' = [payment EXCEPT ![k] = s]
      /\ unanswered' = IF reply = "lost" THEN unanswered \cup {k} ELSE unanswered
      /\ returned' = [returned EXCEPT ![r] = s]
      /\ UNCHANGED <<share, canWithdraw, answering, passed, claim, amount, linked, cents, credited>>
  BY DEF Transfer, Goes, coShares, coClaims
<1>2. \/ reply = "lost" /\ b = "inflight" /\ s = "failed"
      \/ reply # "lost" /\ b = "failed" /\ s = "failed"
      \/ reply # "lost" /\ b = "inflight" /\ s = "processing"
      \/ reply # "lost" /\ b = "completed" /\ s = "completed"
  BY CoHostAssumption DEF CoHostAssumption, BankAfter, PaymentAfter
<1> HIDE DEF b, s
<1>3. CoHostTypeOK'
  BY <1>0, <1>1, <1>2 DEF CoHostTypeOK, Verdicts
<1>4. /\ pc'[r] = "linking" /\ returned'[r] = s
      /\ \A q \in Requests : q # r => pc'[q] = pc[q] /\ returned'[q] = returned[q]
      /\ payment'[k] = s /\ bank'[k] = b
      /\ \A j \in Keys : j # k => payment'[j] = payment[j] /\ bank'[j] = bank[j]
      /\ Standing' = Standing
      /\ unanswered \subseteq unanswered' /\ unanswered' \subseteq unanswered \cup {k}
      /\ reply = "lost" => k \in unanswered'
  BY <1>0, <1>1 DEF CoHostTypeOK, Standing
<1>5. /\ r \in Standing /\ bank[k] = "none" /\ k \notin unanswered
      /\ \A q \in Requests : pc[q] = "sending" /\ KeyOf[q] = k => q = r
      /\ \A q \in Requests : KeyOf[q] \in Keys
  BY <1>0, <1>1, KeyOfRequest DEF ClaimInv, ClaimsFollowRequests, KeyIsSentOnce, Standing
<1>6. \A j \in Keys : Sound(j)' => Sound(j)
  BY <1>4, <1>5 DEF Sound
<1>7. Sound(k)' => s \in {"processing", "completed"}
  BY <1>2, <1>4 DEF Sound
<1>8. \A j \in Keys : j # k => (Sound(j)' <=> Sound(j))
  BY <1>4 DEF Sound
<1>9. ClaimInv'
  <2>1. ClaimsFollowRequests'
    BY <1>0, <1>1, <1>4 DEF ClaimInv, ClaimsFollowRequests
  <2>2. KeyIsSentOnce'
    BY <1>0, <1>2, <1>4, <1>5 DEF ClaimInv, KeyIsSentOnce
  <2>3. FailuresAreTrue'
    BY <1>0, <1>4, <1>7, <1>8 DEF ClaimInv, FailuresAreTrue
  <2>4. ClaimsFollowTransfers'
    <3>1. ASSUME NEW q \in Requests, Sound(KeyOf[q])'
          PROVE  /\ q \in linked' => q \in Standing'
                 /\ pc'[q] \in {"linking", "closing"} =>
                       q \in Standing' /\ returned'[q] \in {"processing", "completed"}
      <4>1. Sound(KeyOf[q])
        BY <1>5, <1>6, <3>1
      <4>2. CASE q = r
        BY <1>1, <1>4, <1>5, <1>7, <3>1, <4>2
      <4>3. CASE q # r
        BY <1>0, <1>1, <1>4, <4>1, <4>3 DEF ClaimInv, ClaimsFollowTransfers
      <4> QED BY <4>2, <4>3
    <3> HIDE DEF k
    <3> QED BY <3>1 DEF ClaimsFollowTransfers, Sound
  <2>5. MoneyIsHeld'
    <3>1. ASSUME NEW j \in Keys, bank'[j] \in {"inflight", "completed"}, j \notin unanswered'
          PROVE  \E q \in Standing' : KeyOf[q] = j /\ pc'[q] \in {"linking", "closing", "done"}
      <4>1. CASE j = k
        BY <1>4, <1>5, <4>1
      <4>2. CASE j # k
        <5>1. PICK q \in Standing : KeyOf[q] = j /\ pc[q] \in {"linking", "closing", "done"}
          BY <1>0, <1>4, <3>1, <4>2 DEF ClaimInv, MoneyIsHeld
        <5>2. q \in Requests /\ q # r
          BY <5>1, <4>2, RequestSets
        <5> QED BY <1>4, <5>1, <5>2
      <4> QED BY <4>1, <4>2
    <3> QED BY <3>1 DEF MoneyIsHeld
  <2> QED BY <2>1, <2>2, <2>3, <2>4, <2>5 DEF ClaimInv
<1>10. InFlight' \subseteq InFlight /\ Waiting' \subseteq Waiting
  BY <1>1, <1>4 DEF InFlight, Waiting
<1>11. Kept' \subseteq Kept
  <2>1. \A q \in Requests : Sound(KeyOf[q])' => Sound(KeyOf[q])
    BY <1>5, <1>6
  <2>2. \A q \in Requests : Sound(KeyOf[q])' <=> (KeyOf[q] \notin unanswered' /\ bank'[KeyOf[q]] \notin {"failed", "reversed"})
    BY DEF Sound
  <2> HIDE DEF k
  <2> QED BY <1>4, <2>1, <2>2, RequestSets DEF Kept, Sound
<1> QED BY <1>1, <1>3, <1>9, <1>10, <1>11, AddsNothing

\* Where a request goes when it stores the payment's id, fails or dies.
LEMMA LeavesKeep ==
    ASSUME CoHostInv, NEW r \in Requests, AttachPayment(r) \/ Refuse(r) \/ Die(r)
    PROVE  CoHostInv'
<1>0. CoHostTypeOK /\ ClaimInv /\ BoundInv
  BY DEF CoHostInv
<1> DEFINE to == IF AttachPayment(r) THEN "closing" ELSE IF Refuse(r) THEN "releasing" ELSE "done"
<1>1. /\ pc[r] \notin {"new", "done"} /\ pc' = [pc EXCEPT ![r] = to]
      /\ to = "closing" => pc[r] = "linking" /\ linked' = linked \cup {r} /\ returned' = returned
      /\ to # "closing" => linked' = linked
      /\ returned' = returned \/ returned' = [returned EXCEPT ![r] = "none"]
      /\ UNCHANGED <<share, canWithdraw, answering, passed, claim, amount, payment, cents,
                     bank, unanswered, credited>>
      /\ to = "releasing" => pc[r] = "requested"
  BY DEF AttachPayment, Refuse, Die, Goes, InFlight, coShares, coClaims, coPayments
<1>2. to \in {"closing", "releasing", "done"}
  OBVIOUS
<1> HIDE DEF to
<1>3. CoHostTypeOK'
  BY <1>0, <1>1, <1>2 DEF CoHostTypeOK
<1>4. /\ pc'[r] = to /\ \A q \in Requests : q # r => pc'[q] = pc[q] /\ returned'[q] = returned[q]
      /\ Standing' = Standing
      /\ \A q \in Requests : q # r => (q \in linked' <=> q \in linked)
      /\ \A j : Sound(j)' <=> Sound(j)
  BY <1>0, <1>1 DEF CoHostTypeOK, Standing, Sound
<1>5. ClaimsFollowRequests'
  BY <1>0, <1>1, <1>2, <1>4 DEF ClaimInv, ClaimsFollowRequests
<1>6. KeyIsSentOnce' /\ FailuresAreTrue'
  BY <1>0, <1>1, <1>2, <1>4 DEF ClaimInv, KeyIsSentOnce, FailuresAreTrue, Sound
<1>7. ClaimsFollowTransfers'
  BY <1>0, <1>1, <1>2, <1>4 DEF ClaimInv, ClaimsFollowTransfers, Sound
<1>8. MoneyIsHeld'
  BY <1>0, <1>1, <1>2, <1>4, RequestSets DEF ClaimInv, MoneyIsHeld, ClaimsFollowRequests
<1>9. InFlight' \subseteq InFlight /\ Kept' = Kept /\ Waiting' \subseteq Waiting
  BY <1>1, <1>2, <1>4 DEF InFlight, Kept, Waiting, Sound
<1> QED BY <1>1, <1>3, <1>5, <1>6, <1>7, <1>8, <1>9, AddsNothing DEF ClaimInv

\* The claim follows the payment, or is released.
LEMMA ClosesKeep ==
    ASSUME CoHostInv, NEW r \in Requests, CloseClaim(r) \/ ReleaseClaim(r) PROVE CoHostInv'
<1>0. CoHostTypeOK /\ ClaimInv /\ BoundInv
  BY DEF CoHostInv
<1> DEFINE c == claim'[r]
<1>1. /\ pc[r] \in {"closing", "releasing"} /\ pc' = [pc EXCEPT ![r] = "done"]
      /\ returned' = returned \/ returned' = [returned EXCEPT ![r] = "none"]
      /\ UNCHANGED <<share, canWithdraw, answering, passed, amount, linked, payment, cents,
                     bank, unanswered, credited>>
  BY DEF CloseClaim, ReleaseClaim, Goes, coShares, coPayments
<1>2. /\ claim' = [claim EXCEPT ![r] = c] /\ c \in {"none", "reserved", "completed", "failed"}
      /\ pc[r] = "closing" /\ Sound(KeyOf[r]) => r \in Standing /\ c \in {"reserved", "completed"}
      /\ pc[r] = "releasing" => c = "failed" /\ r \notin linked
  <2>1. CASE CloseClaim(r)
    <3>1. pc[r] = "closing" /\ claim' = [claim EXCEPT ![r] = Follow(claim[r], returned[r])]
      BY <2>1 DEF CloseClaim, Goes
    <3>2. c = Follow(claim[r], returned[r])
      BY <1>0, <3>1 DEF CoHostTypeOK
    <3>3. c \in {"none", "reserved", "completed", "failed"}
      BY <1>0, <3>2 DEF CoHostTypeOK, Follow, Verdicts
    <3>4. Sound(KeyOf[r]) => r \in Standing /\ c \in {"reserved", "completed"}
      BY <1>0, <3>1, <3>2 DEF ClaimInv, ClaimsFollowTransfers, Standing, Follow
    <3> HIDE DEF c
    <3> QED BY <3>1, <3>2, <3>3, <3>4
  <2>2. CASE ReleaseClaim(r)
    <3>1. pc[r] = "releasing" /\ claim' = [claim EXCEPT ![r] = "failed"]
      BY <2>2 DEF ReleaseClaim, Goes
    <3>2. c = "failed"
      BY <1>0, <3>1 DEF CoHostTypeOK
    <3> QED BY <1>0, <3>1, <3>2 DEF ClaimInv, ClaimsFollowRequests
  <2> QED BY <2>1, <2>2
<1> HIDE DEF c
<1>3. CoHostTypeOK'
  BY <1>0, <1>1, <1>2 DEF CoHostTypeOK
<1>4. /\ pc'[r] = "done" /\ claim'[r] = c
      /\ \A q \in Requests : q # r =>
            pc'[q] = pc[q] /\ returned'[q] = returned[q] /\ claim'[q] = claim[q]
      /\ \A q \in Requests : q # r => (q \in Standing' <=> q \in Standing)
      /\ r \in Standing' <=> c \in {"reserved", "completed"}
      /\ \A j : Sound(j)' <=> Sound(j)
  BY <1>0, <1>1, <1>2 DEF CoHostTypeOK, Standing, Sound
<1>5. ClaimsFollowRequests'
  BY <1>0, <1>1, <1>4 DEF ClaimInv, ClaimsFollowRequests
<1>6. KeyIsSentOnce' /\ FailuresAreTrue'
  BY <1>0, <1>1, <1>4 DEF ClaimInv, KeyIsSentOnce, FailuresAreTrue, Sound
<1>7. ClaimsFollowTransfers'
  BY <1>0, <1>1, <1>2, <1>4 DEF ClaimInv, ClaimsFollowTransfers, Sound
<1>8. MoneyIsHeld'
  <2>1. ASSUME NEW k \in Keys, bank[k] \in {"inflight", "completed"}, k \notin unanswered
        PROVE  \E q \in Standing' : KeyOf[q] = k /\ pc'[q] \in {"linking", "closing", "done"}
    <3>1. PICK q \in Standing : KeyOf[q] = k /\ pc[q] \in {"linking", "closing", "done"}
      BY <1>0, <2>1 DEF ClaimInv, MoneyIsHeld
    <3>2. q \in Requests
      BY <3>1, RequestSets
    <3>3. Sound(k)
      BY <2>1 DEF Sound
    <3>4. CASE q = r
      BY <1>1, <1>2, <1>4, <3>1, <3>3, <3>4
    <3>5. CASE q # r
      BY <1>4, <3>1, <3>2, <3>5
    <3> QED BY <3>4, <3>5
  <2> QED BY <1>1, <2>1 DEF MoneyIsHeld
<1>9. InFlight' \subseteq InFlight /\ Waiting' \subseteq Waiting
  BY <1>1, <1>4 DEF InFlight, Waiting
<1>10. Kept' \subseteq Kept
  <2>1. ASSUME NEW q \in Standing', Sound(KeyOf[q]) PROVE q \in Standing
    BY <1>1, <1>2, <1>4, <2>1 DEF Standing
  <2>2. \A q : Sound(KeyOf[q])' <=> Sound(KeyOf[q])
    BY <1>1 DEF Sound
  <2> QED BY <2>1, <2>2 DEF Kept, Sound
<1> QED BY <1>1, <1>3, <1>5, <1>6, <1>7, <1>8, <1>9, <1>10, AddsNothing DEF ClaimInv

------------------------------------------------------------------------------
(* The provider and its webhook.                                           *)

LEMMA BankKeeps ==
    ASSUME CoHostInv, NEW k \in Keys, BankSettles(k) PROVE CoHostInv'
<1>0. CoHostTypeOK /\ ClaimInv /\ BoundInv
  BY DEF CoHostInv
<1> DEFINE b == bank'[k]
<1>1. UNCHANGED <<share, canWithdraw, answering, passed, claim, amount, linked, payment, cents,
                  unanswered, credited, returned, pc>>
  BY DEF BankSettles, coShares, coClaims
<1>2. /\ bank' = [bank EXCEPT ![k] = b] /\ b \in Verdicts
      /\ bank[k] \in {"inflight", "completed"}
  BY <1>0 DEF BankSettles, CoHostTypeOK, Verdicts
<1>3. CoHostTypeOK'
  BY <1>0, <1>1, <1>2 DEF CoHostTypeOK
<1>4. /\ \A j \in Keys : j # k => bank'[j] = bank[j]
      /\ \A j \in Keys : bank[j] = "none" => bank'[j] = "none"
      /\ \A j \in Keys : Sound(j)' => Sound(j)
      /\ \A j \in Keys : bank'[j] \in {"inflight", "completed"} => bank[j] \in {"inflight", "completed"}
      /\ Standing' = Standing
  BY <1>0, <1>1, <1>2 DEF CoHostTypeOK, Sound, Standing
<1>5. ClaimInv'
  <2>1. ClaimsFollowRequests'
    BY <1>0, <1>1 DEF ClaimInv, ClaimsFollowRequests
  <2>2. KeyIsSentOnce'
    BY <1>0, <1>1, <1>4, KeyOfRequest DEF ClaimInv, KeyIsSentOnce
  <2>3. FailuresAreTrue'
    BY <1>0, <1>1, <1>4 DEF ClaimInv, FailuresAreTrue
  <2>4. ClaimsFollowTransfers'
    <3>1. \A r \in Requests : Sound(KeyOf[r])' => Sound(KeyOf[r])
      BY <1>4, KeyOfRequest
    <3>2. \A r \in Requests : Sound(KeyOf[r])' <=>
              (KeyOf[r] \notin unanswered' /\ bank'[KeyOf[r]] \notin {"failed", "reversed"})
      BY DEF Sound
    <3> QED BY <1>0, <1>1, <1>4, <3>1, <3>2 DEF ClaimInv, ClaimsFollowTransfers, Sound
  <2>5. MoneyIsHeld'
    BY <1>0, <1>1, <1>4 DEF ClaimInv, MoneyIsHeld
  <2> QED BY <2>1, <2>2, <2>3, <2>4, <2>5 DEF ClaimInv
<1>6. InFlight' = InFlight /\ Waiting' = Waiting
  BY <1>1 DEF InFlight, Waiting
<1>7. Kept' \subseteq Kept
  <2>1. ASSUME NEW r \in Requests, KeyOf[r] \notin unanswered', bank'[KeyOf[r]] \notin {"failed", "reversed"}
        PROVE  Sound(KeyOf[r])
    BY <1>4, <2>1, KeyOfRequest DEF Sound
  <2> QED BY <1>4, <2>1, RequestSets DEF Kept, Sound
<1> QED BY <1>1, <1>3, <1>5, <1>6, <1>7, AddsNothing

LEMMA WebhookKeeps ==
    ASSUME CoHostInv, NEW k \in Keys, NEW v \in Verdicts, HandlePayoutWebhook(k, v)
    PROVE  CoHostInv'
<1>0. CoHostTypeOK /\ ClaimInv /\ BoundInv
  BY DEF CoHostInv
<1>1. /\ payment[k] # "none" /\ payment' = [payment EXCEPT ![k] = v]
      /\ UNCHANGED <<share, canWithdraw, answering, passed, amount, linked, cents, bank,
                     unanswered, returned, pc>>
      /\ credited' = credited \/ credited' = credited \cup {<<k, v>>}
  BY DEF HandlePayoutWebhook, coShares
<1>2. v \in {"failed", "reversed"} => ~Sound(k)
  BY DEF HandlePayoutWebhook, Announced, Sound, Verdicts
<1>3. \A r \in Requests : claim'[r] = claim[r] \/ (r \in linked /\ KeyOf[r] = k /\ claim'[r] = Follow(claim[r], v))
  BY DEF HandlePayoutWebhook
<1>4. claim' \in [Requests -> {"none", "reserved", "completed", "failed"}]
  <2>1. \A r \in Requests : Follow(claim[r], v) \in {"none", "reserved", "completed", "failed"}
    BY <1>0 DEF CoHostTypeOK, Follow
  <2>2. \/ claim' = [r \in Requests |->
                        IF r \in linked /\ KeyOf[r] = k THEN Follow(claim[r], v) ELSE claim[r]]
        \/ claim' = claim
    BY DEF HandlePayoutWebhook
  <2> QED BY <1>0, <2>1, <2>2 DEF CoHostTypeOK
<1>5. CoHostTypeOK'
  BY <1>0, <1>1, <1>4 DEF CoHostTypeOK
<1>6. /\ \A j : Sound(j)' <=> Sound(j)
      /\ InFlight' = InFlight /\ Waiting' = Waiting
  BY <1>1 DEF Sound, InFlight, Waiting
<1>7. \A r \in Requests : Sound(KeyOf[r]) => (r \in Standing' <=> r \in Standing)
  <2> SUFFICES ASSUME NEW r \in Requests, Sound(KeyOf[r]), claim'[r] # claim[r]
               PROVE  r \in Standing' <=> r \in Standing
    BY DEF Standing
  <2>1. r \in linked /\ KeyOf[r] = k /\ claim'[r] = Follow(claim[r], v)
    BY <1>3
  <2>2. v = "completed" /\ r \in Standing
    BY <1>0, <1>2, <2>1 DEF ClaimInv, ClaimsFollowTransfers, Verdicts
  <2> QED BY <2>1, <2>2 DEF Follow, Standing
<1>8. ClaimInv'
  <2>1. ClaimsFollowRequests'
    BY <1>0, <1>1, <1>3 DEF ClaimInv, ClaimsFollowRequests
  <2>2. KeyIsSentOnce'
    BY <1>0, <1>1, KeyOfRequest DEF ClaimInv, KeyIsSentOnce, CoHostTypeOK, Verdicts
  <2>3. FailuresAreTrue'
    BY <1>0, <1>1, <1>2, <1>6 DEF ClaimInv, FailuresAreTrue, CoHostTypeOK
  <2>4. ClaimsFollowTransfers'
    BY <1>0, <1>1, <1>6, <1>7 DEF ClaimInv, ClaimsFollowTransfers, Sound
  <2>5. MoneyIsHeld'
    <3>1. ASSUME NEW j \in Keys, bank[j] \in {"inflight", "completed"}, j \notin unanswered
          PROVE  \E q \in Standing' : KeyOf[q] = j /\ pc[q] \in {"linking", "closing", "done"}
      <4>1. PICK q \in Standing : KeyOf[q] = j /\ pc[q] \in {"linking", "closing", "done"}
        BY <1>0, <3>1 DEF ClaimInv, MoneyIsHeld
      <4>2. Sound(KeyOf[q]) /\ q \in Requests
        BY <3>1, <4>1, RequestSets DEF Sound
      <4> QED BY <1>7, <4>1, <4>2
    <3> QED BY <1>1, <3>1 DEF MoneyIsHeld
  <2> QED BY <2>1, <2>2, <2>3, <2>4, <2>5 DEF ClaimInv
<1>9. Kept' \subseteq Kept
  <2>1. ASSUME NEW r \in Standing', Sound(KeyOf[r]) PROVE r \in Standing
    BY <1>7, <2>1 DEF Standing
  <2>2. \A r : Sound(KeyOf[r])' <=> Sound(KeyOf[r])
    BY <1>1 DEF Sound
  <2> QED BY <2>1, <2>2 DEF Kept, Sound
<1> QED BY <1>1, <1>5, <1>6, <1>8, <1>9, AddsNothing

LEMMA CoHostInvInductive == CoHostInv /\ [CoHostNext]_coVars => CoHostInv'
<1> SUFFICES ASSUME CoHostInv, [CoHostNext]_coVars PROVE CoHostInv'
  OBVIOUS
<1>1. CASE UNCHANGED coVars
  <2>1. UNCHANGED <<coShares, passed, coClaims, coPayments, returned, pc>>
    BY <1>1 DEF coVars
  <2>2. CoHostTypeOK' /\ passed <= passed'
    BY <2>1 DEF CoHostInv, CoHostTypeOK, coShares, coClaims, coPayments
  <2> QED BY <2>1, <2>2, OtherStepsKeep DEF coPayments
<1>2. ASSUME NEW r \in Requests,
             \/ RequestCoHostWithdrawal(r) \/ ReserveClaim(r) \/ CommitClaim(r)
             \/ Replay(r) \/ OpenPayment(r) \/ Refuse(r)
             \/ \E reply \in Replies : Transfer(r, reply)
             \/ AttachPayment(r) \/ CloseClaim(r) \/ ReleaseClaim(r) \/ Die(r)
      PROVE  CoHostInv'
  BY <1>2, RequestKeeps, ReserveClaimKeeps, CommitClaimKeeps, ReplayKeeps, OpenPaymentKeeps,
     TransferKeeps, LeavesKeep, ClosesKeep
<1> QED BY <1>1, <1>2, SharesKeep, PoolKeeps, BankKeeps, WebhookKeeps DEF CoHostNext

\* Well typed, for any number of co-hosts, requests and keys.
THEOREM CoHostTypes == CoHostSpec => []CoHostTypeOK
<1>1. CoHostInv => CoHostTypeOK
  BY DEF CoHostInv
<1> QED BY CoHostInitHolds, CoHostInvInductive, <1>1, PTL DEF CoHostSpec

\* Money on its way to a co-host, or arrived, is held by a claim: retries, refusals,
\* deaths and webhooks in any order never release the claim of a sound transfer.
THEOREM PaidStaysClaimed == CoHostSpec => []PaidWasClaimed
<1>1. CoHostInv => PaidWasClaimed
  BY DEF CoHostInv, ClaimInv, MoneyIsHeld, PaidWasClaimed
<1> QED BY CoHostInitHolds, CoHostInvInductive, <1>1, PTL DEF CoHostSpec

\* The claims exceed the event's earnings by no more than the requests in flight at
\* one moment can add together.
Overclaimed == SumFunctionOnSet(amount, Kept) <= MaxInFlight * passed

\* Overlap is the only way to overclaim, and it adds at most the pool once for each
\* request in flight; no order of retries, refusals, deaths and webhooks adds to that.
THEOREM OverclaimBounded == CoHostSpec => []Overclaimed
<1>1. CoHostInv => Overclaimed
  <2> SUFFICES ASSUME CoHostInv PROVE Overclaimed
    OBVIOUS
  <2>1. /\ SumFunctionOnSet(amount, Kept) \in Nat /\ SumFunctionOnSet(amount, Waiting) \in Nat
        /\ SumFunctionOnSet(amount, Kept) + SumFunctionOnSet(amount, Waiting) <= MaxInFlight * passed
    BY SumsNat DEF CoHostInv, BoundInv
  <2>2. MaxInFlight * passed \in Nat
    <3>1. MaxInFlight \in Nat /\ passed \in Nat
      BY CoHostAssumption DEF CoHostAssumption, CoHostInv, CoHostTypeOK
    <3> QED BY <3>1, TimesGrows
  <2> QED BY <2>1, <2>2 DEF Overclaimed
<1> QED BY CoHostInitHolds, CoHostInvInductive, <1>1, PTL DEF CoHostSpec

\* What the comments promise of two withdrawals is true of one at a time: the claims
\* never exceed the pool while the server works on a single withdrawal.
THEOREM ExclusiveOneAtATime ==
    ASSUME MaxInFlight = 1
    PROVE  CoHostSpec => []ClaimsExclusive
<1>1. ASSUME CoHostInv, Overclaimed PROVE ClaimsExclusive
  <2>1. passed \in Nat
    BY <1>1 DEF CoHostInv, CoHostTypeOK
  <2>2. MaxInFlight * passed = passed
    BY <2>1
  <2> QED BY <1>1, <2>2 DEF Overclaimed, ClaimsExclusive
<1> QED BY CoHostInitHolds, CoHostInvInductive, OverclaimBounded, <1>1, PTL DEF CoHostSpec

------------------------------------------------------------------------------
(* HostProfile: what a host's page shows.                                  *)

Row ==
    [status: Statuses \cup {"none"}, fee: {"default", "special"}, avatar: {"none", "own", "scraped"},
     fromInstagram: BOOLEAN, handle: Handles \cup {"none"}, sum: Nat, count: Nat]

SavingRequest ==
    [step: {"save"}, read: Row, copy: Row, scraped: BOOLEAN,
     next: {"done", "submit", "rescrape", "verify", "override"}]

HostTypeOK ==
    /\ row \in Row
    /\ flags \in [active: BOOLEAN, scraped: BOOLEAN]
    /\ verified \in BOOLEAN /\ lapsed \in BOOLEAN
    /\ editing \in [Requesters -> {Idle, [step |-> "verify"]} \cup SavingRequest]
    /\ scrapes \subseteq BOOLEAN
    /\ reviews \in 0 .. Len(Stars)
    /\ rating \in [Guests -> [step: {"idle", "list", "write"}, seen: Nat]]
    /\ edits \in Nat

\* The user has been verified, will be, or the statement was lost.  Once true, it
\* stays true.
Vouched == verified \/ lapsed \/ \E p \in Requesters : editing[p].step = "verify"

\* A row that says approved, stored or in memory, has its user vouched for, or is
\* about to be written by a request that will.
ApprovalsVouched ==
    /\ row.status = "approved" => Vouched
    /\ \A p \in Requesters :
          editing[p].step = "save" /\ editing[p].copy.status = "approved" =>
              editing[p].next = "verify" \/ Vouched

\* What a request does to the status it has read.
StatusEdits ==
    \A p \in Requesters :
        LET edit == editing[p] IN
        edit.step = "save" =>
            \/ edit.copy.status = edit.read.status
            \/ edit.copy.status = "approved"
            \/ edit.read.status # "approved"
            \/ edit.next = "override"

\* A rating that was true of the first reviews, stored or in memory.
Rated(r) == r.count <= reviews /\ r.sum = Total(r.count)

RatingsTrue ==
    /\ Rated(row)
    /\ \A p \in Requesters : editing[p].step = "save" => Rated(editing[p].copy)
    /\ \A g \in Guests : rating[g].seen <= reviews

HostInv == HostTypeOK /\ ApprovalsVouched /\ StatusEdits /\ RatingsTrue

LEMMA TotalNat == ASSUME NEW n \in 0 .. Len(Stars) PROVE Total(n) \in Nat
<1>1. IsFiniteSet(1 .. n)
  BY FS_Interval
<1>2. \A i \in 1 .. n : Stars[i] \in Nat
  BY HostAssumption DEF HostAssumption
<1> QED BY <1>1, <1>2, SumNat DEF Total

LEMMA HostInitHolds == HostInit => HostInv
<1> SUFFICES ASSUME HostInit PROVE HostInv
  OBVIOUS
<1>1. NoRow \in Row /\ NoRow.sum = 0 /\ NoRow.count = 0 /\ NoRow.status = "none"
  BY DEF NoRow, Row
<1>2. /\ row \in Row /\ row.sum = 0 /\ row.count = 0
      /\ row.status = "approved" => verified
      /\ row.status \in Statuses \cup {"none"}
  BY <1>1 DEF HostInit, Row, Statuses
<1>3. Len(Stars) \in Nat
  BY HostAssumption DEF HostAssumption
<1>4. HostTypeOK
  <2>1. editing \in [Requesters -> {Idle, [step |-> "verify"]} \cup SavingRequest]
    <3> HIDE DEF Idle, SavingRequest
    <3> QED BY DEF HostInit
  <2>2. rating \in [Guests -> [step: {"idle", "list", "write"}, seen: Nat]]
    BY DEF HostInit
  <2>3. verified \in BOOLEAN
    BY DEF HostInit
  <2>4. flags \in [active: BOOLEAN, scraped: BOOLEAN]
    BY DEF HostInit
  <2>5. scrapes = {} /\ reviews = 0 /\ edits = 0 /\ lapsed = FALSE
    BY DEF HostInit
  <2>6. scrapes \subseteq BOOLEAN /\ lapsed \in BOOLEAN
    BY <2>5
  <2>7. reviews \in 0 .. Len(Stars) /\ edits \in Nat
    BY <1>3, <2>5
  <2> QED BY <1>2, <2>1, <2>2, <2>3, <2>4, <2>6, <2>7 DEF HostTypeOK
<1>5. Total(0) = 0
  <2>1. 1 .. 0 = {}
    OBVIOUS
  <2>2. SumFunctionOnSet(Stars, 1 .. 0) = SumFunctionOnSet(Stars, {})
    BY <2>1, Zenon
  <2> QED BY <2>2, SumEmpty DEF Total
<1>6. \A p \in Requesters : editing[p].step = "idle"
  BY DEF HostInit, Idle
<1>7. ApprovalsVouched /\ StatusEdits
  BY <1>2, <1>6 DEF ApprovalsVouched, StatusEdits, Vouched
<1>8. RatingsTrue
  BY <1>2, <1>5, <1>6 DEF HostInit, RatingsTrue, Rated
<1> QED BY <1>4, <1>7, <1>8 DEF HostInv

------------------------------------------------------------------------------
(* A request reads the row ...                                             *)

\* What it has worked out to write is as true as what it read.
FairCopy(copy, next) ==
    /\ copy \in Row /\ next \in {"done", "submit", "rescrape", "verify", "override"}
    /\ copy.sum = row.sum /\ copy.count = row.count
    /\ copy.status = "approved" => row.status = "approved" \/ next = "verify"
    /\ \/ copy.status = row.status \/ copy.status = "approved"
       \/ row.status # "approved" \/ next = "override"

LEMMA OpenKeeps ==
    ASSUME HostInv, NEW p \in Requesters, NEW copy, NEW next,
           FairCopy(copy, next), Open(p, copy, next)
    PROVE  HostInv'
<1> DEFINE edit == [step |-> "save", read |-> row, copy |-> copy,
                    scraped |-> flags.scraped, next |-> next]
<1>1. edit \in SavingRequest
  BY DEF SavingRequest, HostInv, HostTypeOK, FairCopy
<1>2. /\ edit.step = "save" /\ edit.read = row /\ edit.copy = copy /\ edit.next = next
  OBVIOUS
<1>3. /\ editing[p].step = "idle" /\ editing' = [editing EXCEPT ![p] = edit]
      /\ UNCHANGED <<row, flags, verified, lapsed, scrapes, reviews, rating, edits>>
  BY DEF Open, Idle
<1> HIDE DEF edit
<1>4. HostTypeOK'
  BY <1>1, <1>3 DEF HostInv, HostTypeOK
<1>5. editing'[p] = edit /\ \A q \in Requesters : q # p => editing'[q] = editing[q]
  BY <1>3 DEF HostInv, HostTypeOK
<1>6. Vouched => Vouched'
  BY <1>3, <1>5 DEF Vouched
<1>7. ApprovalsVouched'
  BY <1>2, <1>3, <1>5, <1>6 DEF HostInv, ApprovalsVouched, FairCopy
<1>8. StatusEdits'
  BY <1>2, <1>3, <1>5 DEF HostInv, StatusEdits, FairCopy
<1>9. RatingsTrue'
  BY <1>2, <1>3, <1>5 DEF HostInv, RatingsTrue, Rated, FairCopy, Total
<1> QED BY <1>4, <1>7, <1>8, <1>9 DEF HostInv

LEMMA RequestsRead ==
    ASSUME HostInv, NEW p \in Requesters,
           \/ \E submit \in BOOLEAN, avatar \in {"none", "own"},
                 handle \in Handles \cup {"none"} : Apply(p, submit, avatar, handle)
           \/ \E handle \in Handles \cup {"none"} : SetInstagram(p, handle)
           \/ \E avatar \in {"none", "own"} : UpdateAvatar(p, avatar)
           \/ UpdateProfile(p) \/ ApproveApplication(p) \/ RejectApplication(p)
           \/ \E status \in Statuses : SetApplicationStatus(p, status)
    PROVE  HostInv'
<1>1. row \in Row
  BY DEF HostInv, HostTypeOK
<1>2. \E copy, next : FairCopy(copy, next) /\ Open(p, copy, next)
  <2>1. CASE \E submit \in BOOLEAN, avatar \in {"none", "own"},
                handle \in Handles \cup {"none"} : Apply(p, submit, avatar, handle)
    BY <1>1, <2>1 DEF Apply, MayApply, FairCopy, Row, Statuses
  <2>2. CASE \E handle \in Handles \cup {"none"} : SetInstagram(p, handle)
    BY <1>1, <2>2 DEF SetInstagram, FairCopy, Row, Statuses
  <2>3. CASE \E avatar \in {"none", "own"} : UpdateAvatar(p, avatar)
    BY <1>1, <2>3 DEF UpdateAvatar, FairCopy, Row, Statuses
  <2>4. CASE UpdateProfile(p)
    BY <1>1, <2>4 DEF UpdateProfile, FairCopy, Row, Statuses
  <2>5. CASE ApproveApplication(p) \/ RejectApplication(p)
    BY <1>1, <2>5 DEF ApproveApplication, RejectApplication, Reviewable, FairCopy, Row, Statuses
  <2>6. CASE \E status \in Statuses : SetApplicationStatus(p, status)
    BY <1>1, <2>6 DEF SetApplicationStatus, AfterStatus, FairCopy, Row, Statuses
  <2> QED BY <2>1, <2>2, <2>3, <2>4, <2>5, <2>6
<1> QED BY <1>2, OpenKeeps

------------------------------------------------------------------------------
(* ... and writes it back.                                                 *)

LEMMA SaveKeeps == ASSUME HostInv, NEW p \in Requesters, Save(p) PROVE HostInv'
<1>1. CASE UNCHANGED <<row, scrapes, edits>> /\ editing' = [editing EXCEPT ![p] = Idle]
  <2>1. /\ editing[p].step = "save" /\ UNCHANGED <<flags, verified, lapsed, reviews, rating>>
    BY DEF Save
  <2>2. editing'[p].step = "idle" /\ \A q \in Requesters : q # p => editing'[q] = editing[q]
    BY <1>1 DEF HostInv, HostTypeOK, Idle
  <2>3. HostTypeOK'
    <3> HIDE DEF Idle, SavingRequest
    <3> QED BY <1>1, <2>1 DEF HostInv, HostTypeOK
  <2>4. Vouched => Vouched'
    BY <2>1, <2>2 DEF Vouched
  <2> QED BY <1>1, <2>1, <2>2, <2>3, <2>4
          DEF HostInv, ApprovalsVouched, StatusEdits, RatingsTrue, Rated, Total
<1>2. CASE /\ row' = Update(editing[p].copy)
           /\ scrapes' = scrapes \cup Spawned(editing[p])
           /\ editing' = [editing EXCEPT ![p] =
                  IF editing[p].next = "verify" THEN [step |-> "verify"] ELSE Idle]
           /\ edits' = edits + 1
  <2> DEFINE edit == editing[p]
             rest == IF edit.next = "verify" THEN [step |-> "verify"] ELSE Idle
  <2>1. /\ edit.step = "save"
        /\ UNCHANGED <<flags, verified, lapsed, reviews, rating>>
    BY DEF Save
  <2>2. edit \in SavingRequest
    BY <2>1 DEF HostInv, HostTypeOK, Idle
  <2>3. row' = edit.copy /\ edit.copy \in Row
    BY <1>2, <2>2 DEF Update, SavingRequest
  <2>4. /\ editing' \in [Requesters -> {Idle, [step |-> "verify"]} \cup SavingRequest]
        /\ editing'[p].step # "save"
        /\ edit.next = "verify" => editing'[p].step = "verify"
        /\ \A q \in Requesters : q # p => editing'[q] = editing[q]
        /\ scrapes' \subseteq BOOLEAN /\ edits' \in Nat
    <3>1. /\ editing' = [editing EXCEPT ![p] = rest]
          /\ scrapes' = scrapes \cup Spawned(edit) /\ edits' = edits + 1
      BY <1>2
    <3>2. /\ rest \in {Idle, [step |-> "verify"]} /\ rest.step # "save" /\ Idle.step # "save"
          /\ edit.next = "verify" => rest.step = "verify"
      BY DEF Idle
    <3>3. Spawned(edit) \subseteq BOOLEAN
      BY DEF Spawned, Scrape
    <3>4. editing \in [Requesters -> {Idle, [step |-> "verify"]} \cup SavingRequest]
          /\ scrapes \subseteq BOOLEAN /\ edits \in Nat
      BY DEF HostInv, HostTypeOK
    <3> HIDE DEF rest, Idle, SavingRequest
    <3>5. scrapes' \subseteq BOOLEAN
      BY <3>1, <3>3, <3>4
    <3>6. editing'[p] = rest /\ \A q \in Requesters : q # p => editing'[q] = editing[q]
      BY <3>1, <3>4
    <3>7. editing' \in [Requesters -> {Idle, [step |-> "verify"]} \cup SavingRequest]
      BY <3>1, <3>2, <3>4
    <3>8. edits' \in Nat
      BY <3>1, <3>4
    <3> QED BY <3>2, <3>5, <3>6, <3>7, <3>8
  <2> HIDE DEF edit
  <2>5. HostTypeOK'
    BY <2>1, <2>3, <2>4 DEF HostInv, HostTypeOK
  <2>6. Vouched => Vouched'
    BY <2>1, <2>4 DEF Vouched, edit
  <2>7. edit.next = "verify" => Vouched'
    BY <2>4 DEF Vouched
  <2>8. ApprovalsVouched'
    BY <2>1, <2>3, <2>4, <2>6, <2>7 DEF HostInv, ApprovalsVouched, edit
  <2>9. StatusEdits'
    BY <2>4 DEF HostInv, StatusEdits
  <2>10. RatingsTrue'
    BY <2>1, <2>3, <2>4 DEF HostInv, RatingsTrue, Rated, Total, edit
  <2> QED BY <2>5, <2>8, <2>9, <2>10 DEF HostInv
<1> QED BY <1>1, <1>2 DEF Save

\* A request that is done, or cut off.
LEMMA RequestsEnd ==
    ASSUME HostInv, NEW p \in Requesters, VerifyUser(p) \/ CutOff(p) PROVE HostInv'
<1>1. /\ editing' = [editing EXCEPT ![p] = Idle]
      /\ UNCHANGED <<row, flags, scrapes, reviews, rating, edits>>
      /\ verified' \in BOOLEAN /\ lapsed' \in BOOLEAN
      /\ verified => verified'
      /\ lapsed => lapsed'
      /\ editing[p].step = "verify" => verified' \/ lapsed'
  BY DEF VerifyUser, CutOff, HostInv, HostTypeOK
<1>2. editing'[p].step = "idle" /\ \A q \in Requesters : q # p => editing'[q] = editing[q]
  BY <1>1 DEF HostInv, HostTypeOK, Idle
<1>3. HostTypeOK'
  <2> HIDE DEF Idle, SavingRequest
  <2> QED BY <1>1 DEF HostInv, HostTypeOK
<1>4. Vouched => Vouched'
  <2> SUFFICES ASSUME Vouched PROVE Vouched'
    OBVIOUS
  <2>1. CASE verified \/ lapsed
    BY <1>1, <2>1 DEF Vouched
  <2>2. CASE \E q \in Requesters : editing[q].step = "verify"
    BY <1>1, <1>2, <2>2 DEF Vouched
  <2> QED BY <2>1, <2>2 DEF Vouched
<1> QED BY <1>1, <1>2, <1>3, <1>4
        DEF HostInv, ApprovalsVouched, StatusEdits, RatingsTrue, Rated, Total

\* Statements that write some columns of the row, and neither the status nor
\* the rating.
LEMMA ColumnsKeep ==
    ASSUME HostInv, \/ SetPlatformFee("special") \/ SetActive(FALSE) \/ Backfill
                    \/ \E avatar \in scrapes, photo, posts \in BOOLEAN :
                           FinishScrape(avatar, photo, posts)
    PROVE  HostInv'
<1>1. /\ UNCHANGED <<verified, lapsed, editing, reviews, rating>>
      /\ row' \in Row /\ flags' \in [active: BOOLEAN, scraped: BOOLEAN]
      /\ scrapes' \subseteq BOOLEAN /\ edits' \in Nat
      /\ row'.status = row.status /\ row'.sum = row.sum /\ row'.count = row.count
  <2>1. row \in Row /\ flags \in [active: BOOLEAN, scraped: BOOLEAN] /\ scrapes \subseteq BOOLEAN
        /\ edits \in Nat
    BY DEF HostInv, HostTypeOK
  <2>2. CASE SetPlatformFee("special")
    BY <2>1, <2>2 DEF SetPlatformFee, Row
  <2>3. CASE SetActive(FALSE)
    <3>1. flags' = [flags EXCEPT !.active = FALSE]
      BY <2>3 DEF SetActive
    <3>2. flags' \in [active: BOOLEAN, scraped: BOOLEAN]
      BY <2>1, <3>1
    <3>3. row' = row /\ scrapes' = scrapes /\ edits' = edits + 1
          /\ UNCHANGED <<verified, lapsed, editing, reviews, rating>>
      BY <2>3 DEF SetActive
    <3> QED BY <2>1, <3>2, <3>3
  <2>4. CASE Backfill
    <3>1. scrapes' = scrapes \cup {Scrape(row)} /\ Scrape(row) \in BOOLEAN
      BY <2>4 DEF Backfill, Scrape
    <3>2. scrapes' \subseteq BOOLEAN
      BY <2>1, <3>1
    <3>3. row' = row /\ flags' = flags /\ edits' = edits + 1
          /\ UNCHANGED <<verified, lapsed, editing, reviews, rating>>
      BY <2>4 DEF Backfill
    <3> QED BY <2>1, <3>2, <3>3
  <2>5. ASSUME NEW avatar \in scrapes, NEW photo \in BOOLEAN, NEW posts \in BOOLEAN,
               FinishScrape(avatar, photo, posts)
        PROVE  <1>1!:
    <3> DEFINE replaces == avatar /\ photo /\ MayReplaceAvatar
               written == [row EXCEPT !.avatar        = IF replaces THEN "scraped" ELSE @,
                                      !.fromInstagram = @ \/ replaces]
    <3>1. /\ scrapes' = scrapes \ {avatar}
          /\ row' = row \/ row' = written
          /\ flags' = flags \/ flags' = [flags EXCEPT !.scraped = TRUE]
          /\ UNCHANGED <<verified, lapsed, editing, reviews, rating, edits>>
      BY <2>5 DEF FinishScrape
    <3>2. replaces \in BOOLEAN
      BY DEF MayReplaceAvatar
    <3> HIDE DEF replaces
    <3>3. /\ written \in Row
          /\ written.status = row.status /\ written.sum = row.sum /\ written.count = row.count
      BY <2>1, <3>2 DEF Row
    <3>4. flags' \in [active: BOOLEAN, scraped: BOOLEAN]
      BY <2>1, <3>1
    <3> HIDE DEF written
    <3> QED BY <2>1, <3>1, <3>3, <3>4
  <2> QED BY <2>2, <2>3, <2>4, <2>5
<1>2. HostTypeOK'
  BY <1>1 DEF HostInv, HostTypeOK
<1> QED BY <1>1, <1>2 DEF HostInv, ApprovalsVouched, Vouched, StatusEdits, RatingsTrue, Rated, Total

LEMMA ReviewsKeep ==
    ASSUME HostInv, NEW g \in Guests, CreateReview(g) \/ ListReviews(g) \/ UpdateAverageRating(g)
    PROVE  HostInv'
<1>1. /\ UNCHANGED <<flags, verified, lapsed, editing, scrapes, edits>>
      /\ Len(Stars) \in Nat
  BY HostAssumption DEF CreateReview, ListReviews, UpdateAverageRating, HostAssumption
<1>2. CASE CreateReview(g) \/ ListReviews(g)
  <2>1. /\ row' = row /\ reviews' \in 0 .. Len(Stars) /\ reviews <= reviews'
        /\ rating' \in [Guests -> [step: {"idle", "list", "write"}, seen: Nat]]
        /\ \A k \in Guests : rating'[k].seen <= reviews'
    BY <1>1, <1>2 DEF CreateReview, ListReviews, HostInv, HostTypeOK, RatingsTrue
  <2>2. HostTypeOK'
    BY <1>1, <2>1 DEF HostInv, HostTypeOK
  <2>3. \A r \in Row : Rated(r) => Rated(r)'
    BY <2>1 DEF Rated, HostInv, HostTypeOK, Row, Total
  <2>4. RatingsTrue'
    <3>1. \A p \in Requesters : editing[p].step = "save" => editing[p].copy \in Row
      BY DEF HostInv, HostTypeOK, Idle, SavingRequest
    <3> QED BY <1>1, <2>1, <2>3, <3>1 DEF HostInv, HostTypeOK, RatingsTrue
  <2> QED BY <1>1, <2>1, <2>2, <2>4 DEF HostInv, ApprovalsVouched, Vouched, StatusEdits
<1>3. CASE UpdateAverageRating(g)
  <2> DEFINE n == rating[g].seen
  <2>1. /\ n \in 0 .. Len(Stars) /\ n <= reviews /\ reviews' = reviews
        /\ rating' \in [Guests -> [step: {"idle", "list", "write"}, seen: Nat]]
        /\ \A k \in Guests : rating'[k].seen <= reviews'
    BY <1>1, <1>3 DEF UpdateAverageRating, HostInv, HostTypeOK, RatingsTrue
  <2>2. Total(n) \in Nat
    BY <2>1, TotalNat
  <2>3. row' \in Row /\ row'.status = row.status /\ row'.sum = Total(n) /\ row'.count = n
    BY <1>3, <2>1, <2>2 DEF UpdateAverageRating, HostInv, HostTypeOK, Row
  <2> HIDE DEF n
  <2>4. HostTypeOK'
    BY <1>1, <2>1, <2>3 DEF HostInv, HostTypeOK
  <2>5. RatingsTrue'
    BY <1>1, <2>1, <2>3 DEF HostInv, RatingsTrue, Rated, Total
  <2> QED BY <1>1, <2>3, <2>4, <2>5 DEF HostInv, ApprovalsVouched, Vouched, StatusEdits
<1> QED BY <1>2, <1>3

LEMMA HostInvInductive == HostInv /\ [HostNext]_hpVars => HostInv'
<1>1. HostInv /\ UNCHANGED hpVars => HostInv'
  BY DEF HostInv, HostTypeOK, ApprovalsVouched, Vouched, StatusEdits, RatingsTrue, Rated, Total, hpVars
<1> QED BY <1>1, RequestsRead, SaveKeeps, RequestsEnd, ColumnsKeep, ReviewsKeep
        DEF HostNext, Requesters

\* What a host's page shows is true, whatever the requests, scrapes and reviews
\* that overlap write over one another: the approval has its user, and the rating
\* was the average of all the reviews of some moment.
THEOREM ProfileAlwaysTrue == HostSpec => []ProfileIsTrue
<1>1. HostInv => ProfileIsTrue
  BY DEF HostInv, HostTypeOK, ApprovalsVouched, Vouched, RatingsTrue, Rated, ProfileIsTrue,
     ApprovedIsVerified, RatingWasTrue
<1> QED BY HostInitHolds, HostInvInductive, <1>1, PTL DEF HostSpec

\* An approval ends by an administrator's choice, or by a request that had read
\* the row before it last changed.
THEOREM ApprovalAlwaysStands == HostSpec => ApprovalStands
<1> DEFINE Step ==
      row.status = "approved" /\ row'.status # "approved" =>
          \E p \in Requesters :
              /\ editing[p].step = "save" /\ editing'[p] # editing[p]
              /\ editing[p].read # row \/ editing[p].next = "override"
<1>1. HostInv /\ [HostNext]_hpVars => [Step]_hpVars
  <2> SUFFICES ASSUME HostInv, HostNext, row.status = "approved", row'.status # "approved"
               PROVE  \E p \in Requesters :
                          /\ editing[p].step = "save" /\ editing'[p] # editing[p]
                          /\ editing[p].read # row \/ editing[p].next = "override"
    OBVIOUS
  <2>1. row' # row
    OBVIOUS
  <2>2. \/ \E p \in Requesters : Save(p)
        \/ SetPlatformFee("special")
        \/ \E avatar \in scrapes, photo, posts \in BOOLEAN : FinishScrape(avatar, photo, posts)
        \/ \E g \in Guests : UpdateAverageRating(g)
    BY <2>1 DEF HostNext, Apply, SetInstagram, UpdateAvatar, UpdateProfile, ApproveApplication,
       RejectApplication, SetApplicationStatus, Open, VerifyUser, CutOff, SetActive, Backfill,
       CreateReview, ListReviews
  <2>3. row \in Row
    BY DEF HostInv, HostTypeOK
  <2>4. PICK p \in Requesters : Save(p)
    BY <2>2, <2>3 DEF SetPlatformFee, FinishScrape, UpdateAverageRating, Row
  <2>5. /\ editing[p].step = "save" /\ row' = editing[p].copy
        /\ editing' = [editing EXCEPT ![p] =
               IF editing[p].next = "verify" THEN [step |-> "verify"] ELSE Idle]
    BY <2>1, <2>4 DEF Save, Update
  <2>6. editing'[p].step # "save"
    BY <2>5 DEF HostInv, HostTypeOK, Idle
  <2> QED BY <2>5, <2>6 DEF HostInv, StatusEdits
<1> HIDE DEF Step
<1>2. HostSpec => [][Step]_hpVars
  BY HostInitHolds, HostInvInductive, <1>1, PTL DEF HostSpec
<1> QED BY <1>2 DEF ApprovalStands, Step

------------------------------------------------------------------------------
(* Treasury: the platform's withdrawals and the methods they are paid by.   *)

\* A handler that is busy has a method; one that prefers or deletes it has seen
\* it there, and deletes what it saw to be secondary.
EditorsKnow ==
    \A e \in Editors :
        /\ editor[e].pc # "idle" => editor[e].m \in Methods
        /\ editor[e].pc \in {"promoting", "deleting"} => method[editor[e].m] # "none"
        /\ editor[e].pc = "deleting" => editor[e].as = "secondary"

\* The ledger's unique key.
OneDebitPerKey == \A v, w \in debited : LedgerKey[v] = LedgerKey[w] => v = w

\* A withdrawal that got past its debit has one, and a method.
PastItsDebit ==
    \A w \in Withdrawals :
        /\ request[w] \in {"opening", "undoing", "sending", "transferring", "crediting"} =>
               w \in debited /\ via[w] \in Methods
        /\ request[w] = "debiting" => via[w] \in Methods
        /\ order[w] # "none" \/ transfer[w] # "none" => w \in debited

\* The inductive invariant, in what the two halves of the module move.
MethodsInv ==
    /\ method \in [Methods -> {"none", "secondary", "primary", "deleted"}]
    /\ editor \in [Editors -> [pc: {"idle", "adding", "registering", "promoting", "deleting"},
                               m: Methods \cup {Nobody}, as: {"none", "primary", "secondary"}]]
    /\ EditorsKnow

OrdersInv ==
    /\ request \in [Withdrawals -> {"new", "debiting", "opening", "undoing", "sending",
                                    "transferring", "crediting", "done"}]
    /\ via \in [Withdrawals -> Methods \cup {Nobody}]
    /\ debited \subseteq Withdrawals /\ undone \subseteq debited
    /\ order \in [Withdrawals -> {"none", "processing", "completed", "failed", "reversed"}]
    /\ transfer \in [Withdrawals -> {"none", "inflight", "completed", "failed", "reversed"}]
    /\ balance \in Nat
    /\ OneDebitPerKey /\ PastItsDebit

TreasuryInv == MethodsInv /\ OrdersInv /\ payees \subseteq Methods

LEMMA TreasuryInitHolds == TreasuryInit => TreasuryInv
  BY TreasuryAssumption
  DEF TreasuryInit, TreasuryInv, MethodsInv, OrdersInv, EditorsKnow, OneDebitPerKey,
      PastItsDebit, Resting, TreasuryAssumption

------------------------------------------------------------------------------
(* Each half leaves the other alone.                                       *)

LEMMA MethodsStand ==
    ASSUME MethodsInv, UNCHANGED trMethods
    PROVE  MethodsInv'
  BY DEF MethodsInv, EditorsKnow, trMethods

LEMMA OrdersStand ==
    ASSUME OrdersInv, UNCHANGED <<request, via, trBooks>>
    PROVE  OrdersInv'
  BY DEF OrdersInv, OneDebitPerKey, PastItsDebit, trBooks

\* A beneficiary is a method.
LEMMA PayeesAreMethods ==
    ASSUME payees \subseteq Methods, NEW m \in Methods, NEW ok \in BOOLEAN, AddBeneficiary(m, ok)
    PROVE  payees' \subseteq Methods
  BY DEF AddBeneficiary

------------------------------------------------------------------------------
(* Payout methods.                                                         *)

\* A handler that takes up a method it may take up.
LEMMA EditsKeep ==
    ASSUME MethodsInv, NEW e \in Editors, NEW m \in Methods,
           NEW to \in {"adding", "promoting", "deleting"}, NEW as \in {"primary", "secondary"},
           Edits(e, to, m, as),
           to \in {"promoting", "deleting"} => method[m] # "none",
           to = "deleting" => as = "secondary"
    PROVE  MethodsInv' /\ UNCHANGED <<method, payees, request, via, trBooks>>
<1>1. /\ editor' = [editor EXCEPT ![e] = [pc |-> to, m |-> m, as |-> as]]
      /\ UNCHANGED <<method, payees, request, via, trBooks>>
  BY DEF Edits
<1>2. editor' \in [Editors -> [pc: {"idle", "adding", "registering", "promoting", "deleting"},
                               m: Methods \cup {Nobody}, as: {"none", "primary", "secondary"}]]
  BY <1>1 DEF MethodsInv
<1>3. EditorsKnow'
  BY <1>1 DEF MethodsInv, EditorsKnow
<1> QED BY <1>1, <1>2, <1>3 DEF MethodsInv

\* A handler that is done, and changed methods but undid none.
LEMMA EditedKeep ==
    ASSUME MethodsInv, NEW e \in Editors, NEW to, Edited(e, to),
           method' \in [Methods -> {"none", "secondary", "primary", "deleted"}],
           \A m \in Methods : method[m] # "none" => method'[m] # "none"
    PROVE  MethodsInv' /\ UNCHANGED <<request, via, trBooks>>
<1>1. editor' = [editor EXCEPT ![e] = Resting] /\ UNCHANGED <<request, via, trBooks>>
  BY DEF Edited
<1>2. editor' \in [Editors -> [pc: {"idle", "adding", "registering", "promoting", "deleting"},
                               m: Methods \cup {Nobody}, as: {"none", "primary", "secondary"}]]
  BY <1>1 DEF MethodsInv, Resting
<1>3. EditorsKnow'
  BY <1>1 DEF MethodsInv, EditorsKnow, Resting
<1> QED BY <1>1, <1>2, <1>3 DEF MethodsInv

\* What a request for methods does to the table.
LEMMA MethodWrites ==
    ASSUME MethodsInv, NEW e \in Editors
    PROVE  /\ AddAdminPayoutMethod(e) \/ AddPayoutMethod(e) =>
                  /\ editor[e].m \in Methods /\ method[editor[e].m] = "none"
                  /\ method' = [method EXCEPT ![editor[e].m] = editor[e].as]
           /\ DeletePayoutMethod(e) =>
                  /\ editor[e].m \in Methods /\ method[editor[e].m] # "none"
                  /\ editor[e].pc = "deleting" /\ editor[e].as = "secondary"
                  /\ method' = [method EXCEPT ![editor[e].m] = "deleted"]
           /\ SetPrimary(e) =>
                  /\ editor[e].m \in Methods /\ method[editor[e].m] # "none"
                  /\ editor[e].pc = "promoting"
  BY DEF MethodsInv, EditorsKnow, AddAdminPayoutMethod, AddPayoutMethod, DeletePayoutMethod,
         SetPrimary, Edited

LEMMA MethodsNextKeeps ==
    ASSUME TreasuryInv, MethodsNext
    PROVE  TreasuryInv'
<1> USE DEF TreasuryInv
<1>1. ASSUME NEW e \in Editors, NEW m \in Methods, ListMethods(e, m)
      PROVE  TreasuryInv'
  <2>1. FirstIsPrimary(Holder[m]) \in {"primary", "secondary"}
    BY DEF FirstIsPrimary
  <2>2. MethodsInv' /\ UNCHANGED <<method, payees, request, via, trBooks>>
    BY <1>1, <2>1, EditsKeep DEF ListMethods
  <2> QED BY <2>2, OrdersStand
<1>2. ASSUME NEW e \in Editors, NEW m \in Methods, ChoosePrimary(e, m)
      PROVE  TreasuryInv'
  <2>1. method[m] \in {"primary", "secondary"} /\ Edits(e, "promoting", m, method[m])
    BY <1>2 DEF ChoosePrimary, Existing
  <2>2. MethodsInv' /\ UNCHANGED <<method, payees, request, via, trBooks>>
    BY <2>1, EditsKeep
  <2> QED BY <2>2, OrdersStand
<1>3. ASSUME NEW e \in Editors, NEW m \in Methods, ChooseDelete(e, m)
      PROVE  TreasuryInv'
  <2>1. method[m] = "secondary" /\ Edits(e, "deleting", m, method[m])
    BY <1>3 DEF ChooseDelete, MayDeleteMethod
  <2>2. MethodsInv' /\ UNCHANGED <<method, payees, request, via, trBooks>>
    BY <2>1, EditsKeep
  <2> QED BY <2>2, OrdersStand
<1>4. ASSUME NEW e \in Editors, AddAdminPayoutMethod(e)
      PROVE  TreasuryInv'
  <2>1. /\ method' \in [Methods -> {"none", "secondary", "primary", "deleted"}]
        /\ \A m \in Methods : method[m] # "none" => method'[m] # "none"
    BY <1>4, MethodWrites DEF MethodsInv
  <2>2. MethodsInv' /\ UNCHANGED <<request, via, trBooks>>
    BY <1>4, <2>1, EditedKeep DEF AddAdminPayoutMethod
  <2> QED BY <1>4, <2>2, OrdersStand DEF AddAdminPayoutMethod
<1>5. ASSUME NEW e \in Editors, AddPayoutMethod(e)
      PROVE  TreasuryInv'
  <2>1. /\ editor[e].pc = "adding"
        /\ editor' = [editor EXCEPT ![e].pc = "registering"]
        /\ UNCHANGED <<payees, request, via, trBooks>>
    BY <1>5 DEF AddPayoutMethod
  <2>2. /\ method' \in [Methods -> {"none", "secondary", "primary", "deleted"}]
        /\ \A m \in Methods : method[m] # "none" => method'[m] # "none"
    BY <1>5, MethodWrites DEF MethodsInv
  <2>3. editor' \in [Editors -> [pc: {"idle", "adding", "registering", "promoting", "deleting"},
                                 m: Methods \cup {Nobody}, as: {"none", "primary", "secondary"}]]
    BY <2>1 DEF MethodsInv
  <2>4. EditorsKnow'
    BY <2>1, <2>2 DEF MethodsInv, EditorsKnow
  <2> QED BY <2>1, <2>2, <2>3, <2>4, OrdersStand DEF MethodsInv
<1>6. ASSUME NEW e \in Editors, SetPrimary(e)
      PROVE  TreasuryInv'
  <2>1. /\ method' \in [Methods -> {"none", "secondary", "primary", "deleted"}]
        /\ \A m \in Methods : method[m] # "none" => method'[m] # "none"
    BY <1>6 DEF SetPrimary, MethodsInv
  <2>2. MethodsInv' /\ UNCHANGED <<request, via, trBooks>>
    BY <1>6, <2>1, EditedKeep DEF SetPrimary
  <2> QED BY <1>6, <2>2, OrdersStand DEF SetPrimary
<1>7. ASSUME NEW e \in Editors, DeletePayoutMethod(e)
      PROVE  TreasuryInv'
  <2>1. /\ method' \in [Methods -> {"none", "secondary", "primary", "deleted"}]
        /\ \A m \in Methods : method[m] # "none" => method'[m] # "none"
    BY <1>7, MethodWrites DEF MethodsInv
  <2>2. MethodsInv' /\ UNCHANGED <<request, via, trBooks>>
    BY <1>7, <2>1, EditedKeep DEF DeletePayoutMethod
  <2> QED BY <1>7, <2>2, OrdersStand DEF DeletePayoutMethod
<1>8. ASSUME NEW e \in Editors, NEW ok \in BOOLEAN, RegisterBeneficiary(e, ok)
      PROVE  TreasuryInv'
  <2>1. editor[e].m \in Methods /\ method' = method /\ AddBeneficiary(editor[e].m, ok)
    BY <1>8 DEF RegisterBeneficiary, Edited, MethodsInv, EditorsKnow
  <2>2. MethodsInv' /\ UNCHANGED <<request, via, trBooks>>
    BY <1>8, <2>1, EditedKeep DEF RegisterBeneficiary, MethodsInv
  <2> QED BY <2>1, <2>2, OrdersStand, PayeesAreMethods
<1> QED BY <1>1, <1>2, <1>3, <1>4, <1>5, <1>6, <1>7, <1>8 DEF MethodsNext, DeletesNext

------------------------------------------------------------------------------
(* Withdrawals.                                                            *)

LEMMA OrdersNextKeeps ==
    ASSUME TreasuryInv, OrdersNext
    PROVE  TreasuryInv'
<1> USE DEF TreasuryInv
<1>1. ASSUME NEW w \in Withdrawals, NEW m \in Methods, AcceptWithdrawal(w, m)
      PROVE  TreasuryInv'
  <2>1. UNCHANGED <<trMethods, payees>>
    BY <1>1 DEF AcceptWithdrawal
  <2>2. OrdersInv'
    BY <1>1 DEF AcceptWithdrawal, Moves, OrdersInv, OneDebitPerKey, PastItsDebit, trBooks
  <2> QED BY <2>1, <2>2, MethodsStand
<1>2. ASSUME NEW w \in Withdrawals, WriteDebit(w)
      PROVE  TreasuryInv'
  <2>1. /\ request[w] = "debiting" /\ request' = [request EXCEPT ![w] = "opening"]
        /\ \A v \in debited : LedgerKey[v] # LedgerKey[w]
        /\ debited' = debited \cup {w}
        /\ UNCHANGED <<trMethods, payees, via, undone, order, transfer, balance>>
    BY <1>2 DEF WriteDebit, Moves, MayDebit
  <2>2. OneDebitPerKey'
    BY <2>1 DEF OrdersInv, OneDebitPerKey
  <2>3. PastItsDebit'
    BY <2>1 DEF OrdersInv, PastItsDebit
  <2>4. OrdersInv'
    BY <2>1, <2>2, <2>3 DEF OrdersInv
  <2> QED BY <2>1, <2>4, MethodsStand
<1>3. ASSUME NEW w \in Withdrawals, OpenOrder(w)
      PROVE  TreasuryInv'
  <2>1. UNCHANGED <<trMethods, payees>>
    BY <1>3 DEF OpenOrder
  <2>2. OrdersInv'
    BY <1>3 DEF OpenOrder, Moves, OrdersInv, OneDebitPerKey, PastItsDebit
  <2> QED BY <2>1, <2>2, MethodsStand
<1>4. ASSUME NEW w \in Withdrawals, OpenOrderFails(w)
      PROVE  TreasuryInv'
  <2>1. UNCHANGED <<trMethods, payees>>
    BY <1>4 DEF OpenOrderFails
  <2>2. OrdersInv'
    BY <1>4 DEF OpenOrderFails, Moves, OrdersInv, OneDebitPerKey, PastItsDebit, trBooks
  <2> QED BY <2>1, <2>2, MethodsStand
<1>5. ASSUME NEW w \in Withdrawals, UndoDebit(w)
      PROVE  TreasuryInv'
  <2>1. UNCHANGED <<trMethods, payees>>
    BY <1>5 DEF UndoDebit
  <2>2. OrdersInv'
    BY <1>5 DEF UndoDebit, Moves, OrdersInv, OneDebitPerKey, PastItsDebit
  <2> QED BY <2>1, <2>2, MethodsStand
<1>6. ASSUME NEW w \in Withdrawals, NEW ok \in BOOLEAN, InitiateTransfer(w, ok)
      PROVE  TreasuryInv'
  <2>1. /\ request[w] = "sending"
        /\ request' = [request EXCEPT ![w] = IF ok THEN "transferring" ELSE "crediting"]
        /\ AddBeneficiary(via[w], ok)
        /\ order' = [order EXCEPT ![w] = IF ok THEN "processing" ELSE "failed"]
        /\ UNCHANGED <<trMethods, via, debited, undone, transfer, balance>>
    BY <1>6 DEF InitiateTransfer, Moves
  <2>2. OrdersInv'
    BY <2>1 DEF OrdersInv, OneDebitPerKey, PastItsDebit
  <2>3. via[w] \in Methods
    BY <2>1 DEF OrdersInv, PastItsDebit
  <2> QED BY <2>1, <2>2, <2>3, MethodsStand, PayeesAreMethods
<1>7. ASSUME NEW w \in Withdrawals, NEW answer \in Answers, SendOrder(w, answer)
      PROVE  TreasuryInv'
  <2> DEFINE fate == CASE answer = "paid"     -> "completed"
                       [] answer = "declined" -> "failed"
                       [] OTHER               -> "inflight"
             status == CASE answer = "paid"     -> "completed"
                         [] answer = "accepted" -> "processing"
                         [] OTHER               -> "failed"
             next == IF answer \in {"declined", "lost"} THEN "crediting" ELSE "done"
  <2>1. /\ request[w] = "transferring" /\ request' = [request EXCEPT ![w] = next]
        /\ transfer' = [transfer EXCEPT ![w] = fate]
        /\ order' = [order EXCEPT ![w] = status]
        /\ UNCHANGED <<trMethods, payees, via, debited, undone, balance>>
    BY <1>7 DEF SendOrder, Moves
  <2>2. /\ fate \in {"completed", "failed", "inflight"}
        /\ status \in {"completed", "failed", "processing"}
        /\ next \in {"crediting", "done"}
    OBVIOUS
  <2> HIDE DEF fate, status, next
  <2>3. OrdersInv'
    BY <2>1, <2>2 DEF OrdersInv, OneDebitPerKey, PastItsDebit
  <2> QED BY <2>1, <2>3, MethodsStand
<1>8. ASSUME NEW w \in Withdrawals, CreditAccount(w)
      PROVE  TreasuryInv'
  <2>1. UNCHANGED <<trMethods, payees>>
    BY <1>8 DEF CreditAccount
  <2>2. balance' \in Nat
    BY <1>8, TreasuryAssumption DEF CreditAccount, OrdersInv, TreasuryAssumption
  <2>3. OrdersInv'
    BY <1>8, <2>2 DEF CreditAccount, Moves, OrdersInv, OneDebitPerKey, PastItsDebit
  <2> QED BY <2>1, <2>3, MethodsStand
<1>9. ASSUME NEW w \in Withdrawals, GiveUpWithdrawal(w)
      PROVE  TreasuryInv'
  <2>1. UNCHANGED <<trMethods, payees>>
    BY <1>9 DEF GiveUpWithdrawal
  <2>2. OrdersInv'
    BY <1>9 DEF GiveUpWithdrawal, OrdersInv, OneDebitPerKey, PastItsDebit, trBooks
  <2> QED BY <2>1, <2>2, MethodsStand
<1>10. ASSUME NEW w \in Withdrawals, TransferSettles(w)
       PROVE  TreasuryInv'
  <2>1. UNCHANGED <<trMethods, payees, request, via, debited, undone, order, balance>>
    BY <1>10 DEF TransferSettles
  <2>2. PICK s \in {"completed", "failed", "reversed"} :
           transfer[w] # "none" /\ transfer' = [transfer EXCEPT ![w] = s]
    BY <1>10 DEF TransferSettles
  <2>3. OrdersInv'
    BY <2>1, <2>2 DEF OrdersInv, OneDebitPerKey, PastItsDebit
  <2> QED BY <2>1, <2>3, MethodsStand
<1>11. ASSUME NEW w \in Withdrawals, SettleOrder(w)
       PROVE  TreasuryInv'
  <2>1. UNCHANGED <<trMethods, payees>>
    BY <1>11 DEF SettleOrder
  <2>2. w \in debited
    BY <1>11 DEF SettleOrder, OrdersInv, PastItsDebit
  <2>3. OrdersInv'
    BY <1>11, <2>2 DEF SettleOrder, OrdersInv, OneDebitPerKey, PastItsDebit
  <2> QED BY <2>1, <2>3, MethodsStand
<1> QED
  BY <1>1, <1>2, <1>3, <1>4, <1>5, <1>6, <1>7, <1>8, <1>9, <1>10, <1>11 DEF OrdersNext

LEMMA TreasuryInvInductive == TreasuryInv /\ [TreasuryNext]_trVars => TreasuryInv'
<1> SUFFICES ASSUME TreasuryInv, [TreasuryNext]_trVars PROVE TreasuryInv'
  OBVIOUS
<1>1. CASE UNCHANGED trVars
  BY <1>1, MethodsStand, OrdersStand DEF trVars, TreasuryInv
<1> QED BY <1>1, MethodsNextKeeps, OrdersNextKeeps DEF TreasuryNext

\* The invariant holds of every behaviour of Treasury.
THEOREM TreasuryInvariant == TreasurySpec => []TreasuryInv
  BY TreasuryInitHolds, TreasuryInvInductive, PTL DEF TreasurySpec

------------------------------------------------------------------------------
(* What the invariant is for.                                              *)

\* The types of Treasury's variables (payout_methods, payments, accounts).
THEOREM TreasuryTypes == TreasurySpec => []TreasuryTypeOK
<1>1. TreasuryInv => TreasuryTypeOK
  BY DEF TreasuryInv, MethodsInv, OrdersInv, TreasuryTypeOK
<1> QED BY <1>1, TreasuryInvariant, PTL

\* RequestAdminWithdrawal: one key reaches the provider at most once, whatever
\* requests carry it, because it writes the ledger first.
THEOREM TreasuryAdminPaidOnce == TreasurySpec => []AdminPaidOnce
<1>1. TreasuryInv => AdminPaidOnce
  BY DEF TreasuryInv, OrdersInv, OneDebitPerKey, PastItsDebit, AdminPaidOnce
<1> QED BY <1>1, TreasuryInvariant, PTL

------------------------------------------------------------------------------
(* Primary methods.                                                        *)

\* A method that is added takes no one's place.
LEMMA AddingLosesNone ==
    ASSUME TreasuryInv, NEW e \in Editors, AddPayoutMethod(e) \/ AddAdminPayoutMethod(e),
           NEW h \in Holders, Primaries(h) # {}
    PROVE  Primaries(h)' # {}
<1>1. PICK p \in Primaries(h) : TRUE
  OBVIOUS
<1>2. /\ editor[e].m \in Methods /\ method[editor[e].m] = "none"
      /\ method' = [method EXCEPT ![editor[e].m] = editor[e].as]
  BY MethodWrites DEF TreasuryInv
<1>3. p \in Methods /\ method[p] = "primary" /\ p # editor[e].m
  BY <1>1, <1>2 DEF Primaries, Own
<1>4. p \in Primaries(h)'
  BY <1>1, <1>2, <1>3 DEF Primaries, Own, TreasuryInv, MethodsInv
<1> QED BY <1>4

\* A deletion takes the last one only when that is the method it deletes.
LEMMA DeletingLosesItsOwn ==
    ASSUME TreasuryInv, NEW e \in Editors, DeletePayoutMethod(e), NEW h \in Holders,
           Primaries(h) # {}, Primaries(h)' = {}
    PROVE  /\ editor[e].m \in Primaries(h)
           /\ editor[e].pc = "deleting" /\ editor[e].as = "secondary"
<1>1. PICK p \in Primaries(h) : TRUE
  OBVIOUS
<1>2. /\ editor[e].m \in Methods /\ editor[e].pc = "deleting" /\ editor[e].as = "secondary"
      /\ method' = [method EXCEPT ![editor[e].m] = "deleted"]
  BY MethodWrites DEF TreasuryInv
<1>3. p # editor[e].m => p \in Primaries(h)'
  BY <1>1, <1>2 DEF Primaries, Own, TreasuryInv, MethodsInv
<1> QED BY <1>1, <1>2, <1>3

\* SetPrimary leaves its holder one, unless the method is gone; no one else's
\* are touched.
LEMMA PromotingLosesTheGone ==
    ASSUME TreasuryInv, NEW e \in Editors, SetPrimary(e), NEW h \in Holders,
           Primaries(h) # {}, Primaries(h)' = {}
    PROVE  /\ editor[e].m \in Own(h)
           /\ editor[e].pc = "promoting" /\ method[editor[e].m] = "deleted"
<1> DEFINE m == editor[e].m
<1>1. PICK p \in Primaries(h) : TRUE
  OBVIOUS
<1>2. m \in Methods /\ method[m] # "none" /\ editor[e].pc = "promoting"
  BY MethodWrites DEF TreasuryInv
<1>3. method' = [n \in Methods |->
                    IF n \notin Unsets(m) THEN method[n]
                    ELSE IF n = m THEN "primary" ELSE "secondary"]
  BY DEF SetPrimary
<1>4. p \in Methods /\ Holder[p] = h /\ method[p] = "primary"
  BY <1>1 DEF Primaries, Own
<1> HIDE DEF m
<1>5. Holder[m] = h
  <2>1. SUFFICES ASSUME Holder[m] # h PROVE FALSE
    OBVIOUS
  <2>2. p \notin Unsets(m)
    BY <1>4, <2>1 DEF Unsets, Own
  <2>3. p \in Primaries(h)'
    BY <1>3, <1>4, <2>2 DEF Primaries, Own
  <2> QED BY <2>3
<1>6. method[m] = "deleted"
  <2>1. SUFFICES ASSUME method[m] # "deleted" PROVE FALSE
    OBVIOUS
  <2>2. m \in Unsets(m)
    BY <1>2, <2>1 DEF Unsets, Own, Existing, TreasuryInv, MethodsInv
  <2>3. m \in Primaries(h)'
    BY <1>2, <1>3, <1>5, <2>2 DEF Primaries, Own
  <2> QED BY <2>3
<1> QED BY <1>2, <1>5, <1>6 DEF Own, m

\* Nothing else writes the table of methods.
LEMMA OnlyThreeWrite ==
    ASSUME TreasuryNext, method' # method
    PROVE  \E e \in Editors : \/ AddPayoutMethod(e) \/ AddAdminPayoutMethod(e)
                              \/ SetPrimary(e) \/ DeletePayoutMethod(e)
  BY DEF TreasuryNext, MethodsNext, DeletesNext, OrdersNext, ListMethods, ChoosePrimary,
         ChooseDelete, Edits, RegisterBeneficiary, AcceptWithdrawal, WriteDebit, OpenOrder,
         OpenOrderFails, UndoDebit, InitiateTransfer, SendOrder, CreditAccount,
         GiveUpWithdrawal, TransferSettles, SettleOrder, trMethods

\* AddPayoutMethod, SetPrimary, DeletePayoutMethod: the last primary method is
\* lost only where two requests overlap.
THEOREM TreasuryPrimaryLostOnlyByRace == TreasurySpec => PrimaryLostOnlyByRace
<1> DEFINE Loss(h) ==
       \E e \in Editors :
          /\ editor[e].m \in Own(h)
          /\ \/ /\ editor[e].pc = "deleting" /\ editor[e].as = "secondary"
                /\ editor[e].m \in Primaries(h)
             \/ editor[e].pc = "promoting" /\ method[editor[e].m] = "deleted"
           Step == \A h \in Holders : Primaries(h) # {} /\ Primaries(h)' = {} => Loss(h)
<1>1. TreasuryInv /\ [TreasuryNext]_trVars => [Step]_method
  <2> SUFFICES ASSUME TreasuryInv, TreasuryNext, method' # method,
                      NEW h \in Holders, Primaries(h) # {}, Primaries(h)' = {}
               PROVE  Loss(h)
    BY DEF trVars, trMethods
  <2>1. PICK e \in Editors : \/ AddPayoutMethod(e) \/ AddAdminPayoutMethod(e)
                             \/ SetPrimary(e) \/ DeletePayoutMethod(e)
    BY OnlyThreeWrite
  <2>2. CASE AddPayoutMethod(e) \/ AddAdminPayoutMethod(e)
    BY <2>2, AddingLosesNone
  <2>3. CASE SetPrimary(e)
    BY <2>3, PromotingLosesTheGone
  <2>4. CASE DeletePayoutMethod(e)
    BY <2>4, DeletingLosesItsOwn DEF Primaries
  <2> QED BY <2>1, <2>2, <2>3, <2>4
<1> HIDE DEF Step
<1>2. TreasurySpec => [][Step]_method
  BY <1>1, TreasuryInvariant, PTL DEF TreasurySpec
<1> QED BY <1>2 DEF PrimaryLostOnlyByRace, Step

================================================================================
