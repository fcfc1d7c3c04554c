------------------------------ MODULE GuestsProofs ------------------------------
(***************************************************************************)
(* What holds for any number of guests, requests, conversations, visits,   *)
(* jobs and deployments.  One part per module, each with its inductive     *)
(* invariant:                                                              *)
(*                                                                         *)
(*   JoinRequests   a guest is told the one verdict the request keeps, and *)
(*                  whoever is let in stays approved.  The second needs    *)
(*                  that a seat has one live request at most, which is     *)
(*                  what the unique index behind Submit is for.            *)
(*   Migrations     a run of a file has somebody to account for it.        *)
(*   Notices        so has a reminder; and a blast strikes an address off  *)
(*                  before it writes to it.                                *)
(*   KnowledgeBase  a history that is too long has somebody behind it who  *)
(*                  will cut it.                                           *)
(*   Accounts       uids are unique and a row keeps its own until it is    *)
(*                  claimed, so a token leads to one row.                  *)
(*   BookingImport  a line has its booking from the commit on, and until a *)
(*                  second worker begins the job only the line a worker is *)
(*                  at can have one that is not marked.                    *)
(***************************************************************************)
EXTENDS JoinRequests, Migrations, Notices, KnowledgeBase, Accounts, BookingImport, Sums

------------------------------------------------------------------------------
(* Requests to join an event.                                              *)

IsLive(r) == request[r] \in {"pending", "approved"}

\* A submission that is under way has not been written.
SubmittingIsNew == \A r \in submitting : request[r] = "none"

\* The unique index.
OneLive ==
    \A r, q \in Requests :
        IsLive(r) /\ IsLive(q) /\ By[r] = By[q] /\ For[r] = For[q] => r = q

\* What a reviewer is about to say is what the request is.
TellingStands == \A d \in telling : request[d[2]] = Verdict(d[3])

\* The inductive invariant.
JoinInv ==
    /\ JoinTypeOK /\ SubmittingIsNew /\ OneLive /\ TellingStands
    /\ OneVerdict /\ AdmittedStaysApproved

\* Who is live, element by element.
LEMMA LiveRequests ==
    ASSUME NEW g, NEW s, NEW r
    PROVE  r \in Live(g, s) <=> r \in Requests /\ By[r] = g /\ For[r] = s /\ IsLive(r)
  BY DEF Live, IsLive

\* A live request that is unique and approved admits its seat.
LEMMA LiveIsAlone ==
    ASSUME OneLive, NEW r \in Requests, IsLive(r)
    PROVE  Live(By[r], For[r]) = {r}
  BY LiveRequests DEF OneLive

\* The same after a step.
LEMMA LiveIsAloneNext ==
    ASSUME OneLive', NEW r \in Requests, IsLive(r)'
    PROVE  Live(By[r], For[r])' = {r}
  BY DEF OneLive, Live, IsLive

\* A step that moves one pending request on, or writes one that is new to its
\* seat, leaves a seat's approved request alone.
LEMMA OthersKeepTheirApproval ==
    ASSUME JoinInv, NEW r \in Requests, request[r] \in {"none", "pending"}, NEW v,
           request' = [request EXCEPT ![r] = v],
           OneLive', gated' = gated, admitted' = admitted
    PROVE  AdmittedStaysApproved'
<1> SUFFICES ASSUME NEW seat \in gated \cup admitted
             PROVE  \E q \in Requests :
                        Live(seat[1], seat[2])' = {q} /\ request'[q] = "approved"
  BY DEF AdmittedStaysApproved
<1>1. PICK q \in Requests : Live(seat[1], seat[2]) = {q} /\ request[q] = "approved"
  BY DEF JoinInv, AdmittedStaysApproved
<1>2. q # r /\ request'[q] = "approved"
  BY <1>1 DEF JoinInv, JoinTypeOK
<1>3. By[q] = seat[1] /\ For[q] = seat[2]
  BY <1>1 DEF Live
<1>4. IsLive(q)'
  BY <1>2 DEF IsLive
<1>5. Live(By[q], For[q])' = {q}
  BY <1>4, LiveIsAloneNext
<1> QED BY <1>2, <1>3, <1>5

\* A step that leaves the requests alone keeps all that is said of them.
LEMMA RequestsStand ==
    ASSUME JoinInv, request' = request, told' = told, telling' = telling
    PROVE  /\ OneLive' /\ OneVerdict' /\ TellingStands'
           /\ gated' \cup admitted' \subseteq gated \cup admitted => AdmittedStaysApproved'
<1>1. OneLive'
  BY DEF JoinInv, OneLive, IsLive
<1>2. OneVerdict'
  BY DEF JoinInv, OneVerdict
<1>3. TellingStands'
  BY DEF JoinInv, TellingStands
<1>4. ASSUME gated' \cup admitted' \subseteq gated \cup admitted PROVE AdmittedStaysApproved'
  BY <1>4 DEF JoinInv, AdmittedStaysApproved, Live
<1> QED BY <1>1, <1>2, <1>3, <1>4

\* A step that moves a request on which nobody has decided says nothing new.
LEMMA UndecidedMovesOn ==
    ASSUME JoinInv, NEW r \in Requests, request[r] \notin {"approved", "rejected"}, NEW v,
           request' = [request EXCEPT ![r] = v], told' = told, telling' = telling
    PROVE  OneVerdict' /\ TellingStands'
<1>1. \A q \in Requests : q # r => request'[q] = request[q]
  BY DEF JoinInv, JoinTypeOK
<1>2. told[r] = {}
  BY DEF JoinInv, OneVerdict
<1>3. OneVerdict'
  BY <1>1, <1>2 DEF JoinInv, OneVerdict
<1>4. ASSUME NEW d \in telling PROVE request'[d[2]] = Verdict(d[3])
  <2>1. d[2] \in Requests /\ request[d[2]] = Verdict(d[3])
    BY DEF JoinInv, JoinTypeOK, TellingStands
  <2>2. Verdict(d[3]) \in {"approved", "rejected"}
    BY DEF Verdict
  <2> QED BY <1>1, <2>1, <2>2
<1> QED BY <1>3, <1>4 DEF TellingStands

\* Nothing is asked for yet.
LEMMA InitHolds == JoinInit => JoinInv
  BY DEF JoinInit, JoinInv, JoinTypeOK, SubmittingIsNew, OneLive, IsLive, OneVerdict,
         TellingStands, AdmittedStaysApproved

\* Submit has looked for a live request and not written its own.
LEMMA ReadLiveKeeps ==
    ASSUME JoinInv, NEW r \in Requests, ReadLive(r)
    PROVE  JoinInv'
<1>1. JoinTypeOK'
  BY DEF JoinInv, JoinTypeOK, ReadLive
<1>2. SubmittingIsNew'
  BY DEF JoinInv, SubmittingIsNew, ReadLive
<1> QED BY <1>1, <1>2, RequestsStand DEF JoinInv, ReadLive

\* The insert: refused by the unique index, or alone on its seat.
LEMMA CreateRequestKeeps ==
    ASSUME JoinInv, NEW r \in Requests, CreateRequest(r)
    PROVE  JoinInv'
<1>1. request[r] = "none"
  BY DEF JoinInv, SubmittingIsNew, CreateRequest
<1>2. JoinTypeOK'
  BY DEF JoinInv, JoinTypeOK, CreateRequest
<1>3. SubmittingIsNew'
  BY DEF JoinInv, JoinTypeOK, SubmittingIsNew, CreateRequest
<1>4. CASE ~Unique(r)
  <2>1. request' = request /\ UNCHANGED <<telling, told, gated, admitted>>
    BY <1>4 DEF CreateRequest
  <2> QED BY <1>2, <1>3, <2>1, RequestsStand DEF JoinInv
<1>5. CASE Unique(r)
  <2>1. request' = [request EXCEPT ![r] = "pending"] /\ UNCHANGED <<telling, told, gated, admitted>>
    BY <1>5 DEF CreateRequest
  <2>2. OneLive'
    <3> SUFFICES ASSUME NEW p \in Requests, NEW q \in Requests, IsLive(p)', IsLive(q)',
                        By[p] = By[q], For[p] = For[q]
                 PROVE  p = q
      BY DEF OneLive, IsLive
    <3>1. \A x \in Requests : By[x] = By[r] /\ For[x] = For[r] => ~IsLive(x)
      BY <1>5, LiveRequests DEF Unique
    <3>2. \A x \in Requests : x # r => (IsLive(x)' <=> IsLive(x))
      BY <2>1 DEF JoinInv, JoinTypeOK, IsLive
    <3> QED BY <3>1, <3>2 DEF JoinInv, OneLive
  <2>3. OneVerdict' /\ TellingStands'
    BY <1>1, <2>1, UndecidedMovesOn
  <2>4. AdmittedStaysApproved'
    BY <1>1, <2>1, <2>2, OthersKeepTheirApproval
  <2> QED BY <1>2, <1>3, <2>2, <2>3, <2>4 DEF JoinInv
<1> QED BY <1>4, <1>5

\* One live request less, or the same ones.
LEMMA FewerLive ==
    ASSUME JoinInv, NEW r \in Requests, IsLive(r), NEW v,
           request' = [request EXCEPT ![r] = v]
    PROVE  OneLive'
<1>1. \A x \in Requests : IsLive(x)' => IsLive(x)
  BY DEF JoinInv, JoinTypeOK, IsLive
<1> QED BY <1>1 DEF JoinInv, OneLive

\* A guest withdraws; what was approved and let in is left alone.
LEMMA WithdrawRequestKeeps ==
    ASSUME JoinInv, NEW r \in Requests, WithdrawRequest(r)
    PROVE  JoinInv'
<1>1. /\ request[r] = "pending"
      /\ request' = [request EXCEPT ![r] = "withdrawn"]
      /\ UNCHANGED <<submitting, reviewing, telling, told, gated, admitted>>
  BY DEF WithdrawRequest, Undecided
<1>2. JoinTypeOK'
  BY <1>1 DEF JoinInv, JoinTypeOK
<1>3. SubmittingIsNew'
  BY <1>1 DEF JoinInv, JoinTypeOK, SubmittingIsNew
<1>4. OneLive'
  BY <1>1, FewerLive DEF IsLive
<1>5. OneVerdict' /\ TellingStands'
  BY <1>1, UndecidedMovesOn
<1>6. AdmittedStaysApproved'
  BY <1>1, <1>4, OthersKeepTheirApproval
<1> QED BY <1>2, <1>3, <1>4, <1>5, <1>6 DEF JoinInv

\* A reviewer has read a request.
LEMMA OpenReviewKeeps ==
    ASSUME JoinInv, NEW v \in Reviewers, NEW r \in Requests, NEW approve \in BOOLEAN,
           OpenReview(v, r, approve)
    PROVE  JoinInv'
<1>1. JoinTypeOK'
  BY DEF JoinInv, JoinTypeOK, OpenReview
<1>2. SubmittingIsNew'
  BY DEF JoinInv, SubmittingIsNew, OpenReview
<1> QED BY <1>1, <1>2, RequestsStand DEF JoinInv, OpenReview

\* The verdict is written on a request that is still pending.
LEMMA ReviewKeeps ==
    ASSUME JoinInv, NEW v \in Reviewers, NEW r \in Requests, NEW approve \in BOOLEAN,
           Review(v, r, approve)
    PROVE  JoinInv'
<1> DEFINE d == <<v, r, approve>>
<1>0. /\ reviewing' = reviewing \ {d}
      /\ UNCHANGED <<submitting, told, gated, admitted>>
  BY DEF Review
<1>1. CASE ~Undecided(r)
  <2>1. request' = request /\ telling' = telling
    BY <1>1 DEF Review
  <2>2. JoinTypeOK' /\ SubmittingIsNew'
    BY <1>0, <2>1 DEF JoinInv, JoinTypeOK, SubmittingIsNew
  <2> QED BY <1>0, <2>1, <2>2, RequestsStand DEF JoinInv
<1>2. CASE Undecided(r)
  <2>1. /\ request[r] = "pending"
        /\ request' = [request EXCEPT ![r] = Verdict(approve)]
        /\ telling' = telling \cup {d}
    BY <1>2 DEF Review, Undecided
  <2>2. Verdict(approve) \in {"approved", "rejected"}
    BY DEF Verdict
  <2>3. request'[r] = Verdict(approve) /\ \A q \in Requests : q # r => request'[q] = request[q]
    BY <2>1 DEF JoinInv, JoinTypeOK
  <2>4. JoinTypeOK'
    BY <1>0, <2>1, <2>2 DEF JoinInv, JoinTypeOK
  <2>5. SubmittingIsNew'
    BY <1>0, <2>1, <2>3 DEF JoinInv, JoinTypeOK, SubmittingIsNew
  <2>6. OneLive'
    BY <2>1, FewerLive DEF IsLive
  <2>7. OneVerdict'
    <3>1. told[r] = {}
      BY <2>1 DEF JoinInv, OneVerdict
    <3> QED BY <1>0, <2>3, <3>1 DEF JoinInv, OneVerdict
  <2>8. ASSUME NEW e \in telling' PROVE request'[e[2]] = Verdict(e[3])
    <3>1. CASE e = d
      BY <2>3, <3>1
    <3>2. CASE e \in telling
      <4>1. e[2] \in Requests /\ request[e[2]] = Verdict(e[3])
        BY <3>2 DEF JoinInv, JoinTypeOK, TellingStands
      <4>2. Verdict(e[3]) # "pending"
        BY DEF Verdict
      <4> QED BY <2>1, <2>3, <4>1, <4>2
    <3> QED BY <2>1, <3>1, <3>2
  <2>9. AdmittedStaysApproved'
    BY <1>0, <2>1, <2>6, OthersKeepTheirApproval
  <2> QED BY <2>4, <2>5, <2>6, <2>7, <2>8, <2>9 DEF JoinInv, TellingStands
<1> QED BY <1>1, <1>2

\* The guest is told what the request is, or the message is lost.
LEMMA TellGuestKeeps ==
    ASSUME JoinInv, NEW v \in Reviewers, NEW r \in Requests, NEW approve \in BOOLEAN,
           TellGuest(v, r, approve)
    PROVE  JoinInv'
<1>1. /\ <<v, r, approve>> \in telling /\ telling' \subseteq telling
      /\ told' = [told EXCEPT ![r] = told[r] \cup {Verdict(approve)}] \/ told' = told
      /\ UNCHANGED <<request, submitting, reviewing, gated, admitted>>
  BY DEF TellGuest
<1>2. Verdict(approve) \in {"approved", "rejected"}
  BY DEF Verdict
<1>3. request[r] = Verdict(approve)
  BY <1>1 DEF JoinInv, TellingStands
<1>4. JoinTypeOK'
  BY <1>1, <1>2 DEF JoinInv, JoinTypeOK
<1>5. SubmittingIsNew' /\ OneLive' /\ TellingStands' /\ AdmittedStaysApproved'
  BY <1>1 DEF JoinInv, SubmittingIsNew, OneLive, IsLive, TellingStands, AdmittedStaysApproved, Live
<1>6. \A q \in Requests : told'[q] \subseteq told[q] \cup (IF q = r THEN {request[r]} ELSE {})
  BY <1>1, <1>3 DEF JoinInv, JoinTypeOK
<1>7. OneVerdict'
  BY <1>1, <1>2, <1>3, <1>6 DEF JoinInv, OneVerdict
<1> QED BY <1>4, <1>5, <1>7 DEF JoinInv

\* The gate reads the one live request there is.
LEMMA PassGateKeeps ==
    ASSUME JoinInv, NEW seat \in Seats, PassGate(seat[1], seat[2])
    PROVE  JoinInv'
<1>1. /\ gated' = gated \cup {seat}
      /\ UNCHANGED <<request, submitting, reviewing, telling, told, admitted>>
  BY DEF PassGate, Seats
<1>2. JoinTypeOK' /\ SubmittingIsNew'
  BY <1>1 DEF JoinInv, JoinTypeOK, SubmittingIsNew
<1>3. OneLive' /\ OneVerdict' /\ TellingStands'
  BY <1>1, RequestsStand
<1>4. \E r \in Requests : Live(seat[1], seat[2]) = {r} /\ request[r] = "approved"
  <2>1. PICK r : r \in Live(seat[1], seat[2]) /\ request[r] = "approved"
    BY DEF PassGate, HasApproved
  <2>2. r \in Requests /\ By[r] = seat[1] /\ For[r] = seat[2] /\ IsLive(r)
    BY <2>1, LiveRequests
  <2> QED BY <2>1, <2>2, LiveIsAlone DEF JoinInv
<1>5. AdmittedStaysApproved'
  BY <1>1, <1>4 DEF JoinInv, AdmittedStaysApproved, Live
<1> QED BY <1>2, <1>3, <1>5 DEF JoinInv

\* The booking itself, past the gate.
LEMMA BookGatedKeeps ==
    ASSUME JoinInv, NEW seat \in Seats, BookGated(seat[1], seat[2])
    PROVE  JoinInv'
<1>1. /\ seat \in gated /\ gated' = gated \ {seat} /\ admitted' = admitted \cup {seat}
      /\ UNCHANGED <<request, submitting, reviewing, telling, told>>
  BY DEF BookGated, Seats
<1>2. JoinTypeOK' /\ SubmittingIsNew'
  BY <1>1 DEF JoinInv, JoinTypeOK, SubmittingIsNew
<1> QED BY <1>1, <1>2, RequestsStand DEF JoinInv

\* The invariant is kept by every step.
LEMMA JoinInvInductive == JoinInv /\ [JoinNext]_joinVars => JoinInv'
<1> SUFFICES ASSUME JoinInv, [JoinNext]_joinVars PROVE JoinInv'
  OBVIOUS
<1>1. CASE UNCHANGED joinVars
  <2>1. JoinTypeOK' /\ SubmittingIsNew'
    BY <1>1 DEF joinVars, JoinInv, JoinTypeOK, SubmittingIsNew
  <2> QED BY <1>1, <2>1, RequestsStand DEF joinVars, JoinInv
<1>2. ASSUME NEW r \in Requests, ReadLive(r) \/ CreateRequest(r) \/ WithdrawRequest(r)
      PROVE  JoinInv'
  BY <1>2, ReadLiveKeeps, CreateRequestKeeps, WithdrawRequestKeeps
<1>3. ASSUME NEW v \in Reviewers, NEW r \in Requests, NEW approve \in BOOLEAN,
             OpenReview(v, r, approve) \/ Review(v, r, approve) \/ TellGuest(v, r, approve)
      PROVE  JoinInv'
  BY <1>3, OpenReviewKeeps, ReviewKeeps, TellGuestKeeps
<1>4. ASSUME NEW seat \in Seats, PassGate(seat[1], seat[2]) \/ BookGated(seat[1], seat[2])
      PROVE  JoinInv'
  BY <1>4, PassGateKeeps, BookGatedKeeps
<1> QED BY <1>1, <1>2, <1>3, <1>4 DEF JoinNext

\* join_request_service.go and its repository keep their rows well formed.
THEOREM JoinTypes == JoinSpec => []JoinTypeOK
<1>1. JoinInv => JoinTypeOK
  BY DEF JoinInv
<1> QED BY <1>1, InitHolds, JoinInvInductive, PTL DEF JoinSpec

\* Reviewers and guest at once: one verdict is told at most, the one that stands
\* (review in join_request_service.go).
THEOREM JoinOneVerdict == JoinSpec => []OneVerdict
<1>1. JoinInv => OneVerdict
  BY DEF JoinInv
<1> QED BY <1>1, InitHolds, JoinInvInductive, PTL DEF JoinSpec

\* Whoever passed the gate, or was booked, is approved for that session by the
\* only live request for it.
THEOREM JoinAdmittedStaysApproved == JoinSpec => []AdmittedStaysApproved
<1>1. JoinInv => AdmittedStaysApproved
  BY DEF JoinInv
<1> QED BY <1>1, InitHolds, JoinInvInductive, PTL DEF JoinSpec

------------------------------------------------------------------------------
(* Schema migrations.                                                      *)

\* A deployment has the file's statements in front of it, and has not executed
\* them in this run.
MayExecute(r, n) ==
    n \in runner[r].pending /\ ~(runner[r].step = "recording" /\ n = File(r))

IsRecording(r, n) == At(r, "recording") /\ n = File(r)

\* Who may have executed it without its being counted as cut off: before the
\* file is recorded, only who is about to record it; afterwards, whoever does
\* not have it in front of them any more.
ExecutedBy(n) ==
    IF n \in recorded THEN {r \in Runners : ~MayExecute(r, n)}
    ELSE {r \in Runners : IsRecording(r, n)}

MigrationsTypeOK ==
    /\ recorded \subseteq Names
    /\ executed \in [Names -> Nat] /\ cuts \in [Names -> Nat]
    /\ runner \in [Runners -> [step : {"absent", "executing", "recording", "finished"},
                               pending : SUBSET Names]]
    /\ tries \in [Runners -> Nat]

\* A deployment has nothing pending between runs, and something to record when
\* it records.
PendingWhileAtIt ==
    \A r \in Runners :
        /\ runner[r].step \in {"absent", "finished"} => runner[r].pending = {}
        /\ runner[r].step = "recording" => runner[r].pending # {}

\* What a run does not have pending is applied.
NothingLeftOut ==
    \A r \in Runners : runner[r].step # "absent" =>
        \A n \in Checkout[r] : n \in runner[r].pending \/ n \in recorded

\* A record stands for statements that were committed.
RecordedIsExecuted ==
    /\ \A n \in recorded : HasStatements(n) => executed[n] > 0
    /\ \A r \in Runners :
           At(r, "recording") /\ HasStatements(File(r)) => executed[File(r)] > 0

ExecutionsCounted == \A n \in Names : executed[n] <= cuts[n] + Cardinality(ExecutedBy(n))

MigrationsInv ==
    /\ MigrationsTypeOK /\ PendingWhileAtIt /\ NothingLeftOut /\ RecordedIsExecuted
    /\ ExecutionsCounted


(* Who may be counted, and what a change of one adds or takes away.         *)

\* A part of a finite set has no more members.
LEMMA CountGrows ==
    ASSUME NEW All, IsFiniteSet(All), NEW T \in SUBSET All, NEW S, S \subseteq T
    PROVE  Cardinality(S) \in Nat /\ Cardinality(T) \in Nat /\ Cardinality(S) <= Cardinality(T)
<1>1. IsFiniteSet(T)
  BY FS_Subset
<1> QED
  BY <1>1, FS_Subset, FS_CardinalityType

\* A part that lacks a member has one fewer at least.
LEMMA CountGrowsByOne ==
    ASSUME NEW All, IsFiniteSet(All), NEW T \in SUBSET All, NEW S, S \subseteq T,
           NEW x \in T, x \notin S
    PROVE  Cardinality(S) \in Nat /\ Cardinality(T) \in Nat /\ Cardinality(S) + 1 <= Cardinality(T)
<1>1. IsFiniteSet(T)
  BY FS_Subset
<1>2. S \in SUBSET (T \ {x})
  OBVIOUS
<1>3. IsFiniteSet(T \ {x}) /\ Cardinality(T \ {x}) = Cardinality(T) - 1
  BY <1>1, FS_RemoveElement
<1>4. Cardinality(S) <= Cardinality(T \ {x})
  BY <1>2, <1>3, FS_Subset
<1>5. Cardinality(S) \in Nat /\ Cardinality(T) \in Nat
  BY <1>1, FS_Subset, FS_CardinalityType
<1> QED
  BY <1>3, <1>4, <1>5

\* Taking one member away costs one at most.
LEMMA CountShrinksByOne ==
    ASSUME NEW All, IsFiniteSet(All), NEW T \in SUBSET All, NEW S \in SUBSET All, NEW x,
           S \ {x} \subseteq T
    PROVE  Cardinality(S) \in Nat /\ Cardinality(T) \in Nat /\ Cardinality(S) <= Cardinality(T) + 1
<1>1. IsFiniteSet(S)
  BY FS_Subset
<1>2. Cardinality(S \ {x}) \in Nat /\ Cardinality(T) \in Nat
      /\ Cardinality(S \ {x}) <= Cardinality(T)
  BY CountGrows
<1>3. Cardinality(S) \in Nat
  BY <1>1, FS_CardinalityType
<1>4. Cardinality(S \ {x}) = IF x \in S THEN Cardinality(S) - 1 ELSE Cardinality(S)
  BY <1>1, FS_RemoveElement
<1> QED
  BY <1>2, <1>3, <1>4

\* A set of numbers that is not empty has a least one.
LEMMA LeastIsLeast ==
    ASSUME NEW S, S \subseteq Nat, S # {}
    PROVE  \E n \in S : \A m \in S : n <= m
<1>1. PICK n \in S : \A m \in S : ~(<<m, n>> \in OpToRel(<, Nat))
  BY NatLessThanWellFounded, WFMin
<1>2. n \in Nat
  BY <1>1
<1>3. \A m \in S : n <= m
  <2> SUFFICES ASSUME NEW m \in S PROVE n <= m
    OBVIOUS
  <2>1. m \in Nat /\ ~(m < n)
    BY <1>1, <1>2 DEF OpToRel
  <2> QED
    BY <1>2, <2>1
<1> QED
  BY <1>1, <1>3

\* The least number of a set is one of it.
LEMMA LeastExists ==
    ASSUME NEW S, S \subseteq Nat, S # {}
    PROVE  Min(S) \in S
  BY LeastIsLeast DEF Min

------------------------------------------------------------------------------

\* The next file of a run is one it has pending.
LEMMA NextFileIsPending ==
    ASSUME MigrationsTypeOK, NEW r \in Runners, runner[r].pending # {}
    PROVE  File(r) \in runner[r].pending /\ File(r) \in Names
<1>1. runner[r].pending \subseteq Nat /\ runner[r].pending \subseteq Names
  BY MigrationsAssumption DEF MigrationsTypeOK, MigrationsAssumption
<1> QED
  BY <1>1, LeastExists DEF File

\* A step of a deployment keeps the types.
LEMMA MigrationsTypeStep ==
    ASSUME MigrationsTypeOK, MigrationsNext PROVE MigrationsTypeOK'
<1> PICK r \in Runners :
        BeginMigrate(r) \/ Execute(r) \/ Record(r) \/ FinishMigrate(r) \/ CutOff(r)
  BY DEF MigrationsNext
<1>1. CASE BeginMigrate(r)
  BY <1>1, MigrationsAssumption DEF BeginMigrate, MigrationsTypeOK, MigrationsAssumption
<1>2. CASE Execute(r)
  <2>1. File(r) \in Names
    BY <1>2, NextFileIsPending DEF Execute, At
  <2> DEFINE by == IF HasStatements(File(r)) THEN 1 ELSE 0
  <2>2. by \in Nat
    OBVIOUS
  <2>3. executed' = [executed EXCEPT ![File(r)] = @ + by]
    BY <1>2 DEF Execute
  <2> HIDE DEF by
  <2>4. executed' \in [Names -> Nat]
    BY <2>1, <2>2, <2>3 DEF MigrationsTypeOK
  <2> QED
    BY <1>2, <2>4 DEF Execute, MigrationsTypeOK
<1>3. CASE Record(r)
  <2>1. File(r) \in Names
    BY <1>3, NextFileIsPending DEF Record, At
  <2> QED
    BY <1>3, <2>1 DEF Record, MigrationsTypeOK
<1>4. CASE FinishMigrate(r)
  BY <1>4 DEF FinishMigrate, MigrationsTypeOK
<1>5. CASE CutOff(r)
  <2>1. runner' \in [Runners -> [step : {"absent", "executing", "recording", "finished"},
                                 pending : SUBSET Names]]
    BY <1>5 DEF CutOff, MigrationsTypeOK, Absent
  <2>2. cuts' \in [Names -> Nat]
    <3>1. CASE At(r, "recording")
      <4>1. File(r) \in Names
        BY <3>1, NextFileIsPending DEF At
      <4> QED
        BY <1>5, <3>1, <4>1 DEF CutOff, MigrationsTypeOK
    <3>2. CASE ~At(r, "recording")
      BY <1>5, <3>2 DEF CutOff, MigrationsTypeOK
    <3> QED
      BY <3>1, <3>2
  <2> QED
    BY <1>5, <2>1, <2>2 DEF CutOff, MigrationsTypeOK
<1> QED
  BY <1>1, <1>2, <1>3, <1>4, <1>5

\* What is neither a count nor a type.
LEMMA MigrationsFactsStep ==
    ASSUME MigrationsInv, MigrationsNext
    PROVE  PendingWhileAtIt' /\ NothingLeftOut' /\ RecordedIsExecuted'
<1> USE DEF MigrationsInv
<1> PICK r \in Runners :
        BeginMigrate(r) \/ Execute(r) \/ Record(r) \/ FinishMigrate(r) \/ CutOff(r)
  BY DEF MigrationsNext
<1>1. CASE BeginMigrate(r)
  <2>1. PendingWhileAtIt'
    BY <1>1 DEF BeginMigrate, MigrationsTypeOK, PendingWhileAtIt
  <2>2. NothingLeftOut'
    BY <1>1 DEF BeginMigrate, MigrationsTypeOK, NothingLeftOut, Pending
  <2>3. RecordedIsExecuted'
    BY <1>1 DEF BeginMigrate, MigrationsTypeOK, RecordedIsExecuted, At, File
  <2> QED
    BY <2>1, <2>2, <2>3
<1>2. CASE Execute(r)
  <2> DEFINE by == IF HasStatements(File(r)) THEN 1 ELSE 0
  <2>1. File(r) \in Names /\ by \in Nat
    BY <1>2, NextFileIsPending DEF Execute, At
  <2>2. executed' = [executed EXCEPT ![File(r)] = @ + by]
    BY <1>2 DEF Execute
  <2>3. HasStatements(File(r)) => by = 1
    OBVIOUS
  <2> HIDE DEF by
  <2>4. \A n \in Names : executed[n] > 0 => executed'[n] > 0
    BY <2>1, <2>2 DEF MigrationsTypeOK
  <2>5. HasStatements(File(r)) => executed'[File(r)] > 0
    BY <2>1, <2>2, <2>3 DEF MigrationsTypeOK
  <2>6. \A q \in Runners : runner'[q].pending = runner[q].pending
    BY <1>2 DEF Execute, MigrationsTypeOK
  <2>7. \A q \in Runners \ {r} : runner'[q] = runner[q]
    BY <1>2 DEF Execute, MigrationsTypeOK
  <2>8. runner'[r].step = "recording" /\ runner[r].step = "executing" /\ runner[r].pending # {}
        /\ recorded' = recorded
    BY <1>2 DEF Execute, MigrationsTypeOK, At
  <2>9. PendingWhileAtIt'
    BY <2>6, <2>7, <2>8 DEF PendingWhileAtIt
  <2>10. NothingLeftOut'
    <3> SUFFICES ASSUME NEW q \in Runners, runner'[q].step # "absent", NEW n \in Checkout[q]
                 PROVE  n \in runner'[q].pending \/ n \in recorded'
      BY DEF NothingLeftOut
    <3>1. runner[q].step # "absent"
      BY <2>7, <2>8
    <3> QED
      BY <3>1, <2>6, <2>8 DEF NothingLeftOut
  <2>11. RecordedIsExecuted'
    <3>1. \A n \in recorded' : HasStatements(n) => executed'[n] > 0
      BY <2>4, <2>8 DEF RecordedIsExecuted, MigrationsTypeOK
    <3>2. ASSUME NEW q \in Runners, At(q, "recording")', HasStatements(File(q))'
          PROVE  executed[File(q)]' > 0
      <4>1. File(q)' = File(q)
        BY <2>6 DEF File
      <4>2. CASE q = r
        BY <4>1, <4>2, <3>2, <2>5
      <4>3. CASE q # r
        <5>1. At(q, "recording")
          BY <4>3, <3>2, <2>7 DEF At
        <5>2. File(q) \in Names
          BY <5>1, NextFileIsPending DEF At
        <5>3. executed[File(q)] > 0
          BY <5>1, <4>1, <3>2 DEF RecordedIsExecuted
        <5> QED
          BY <5>2, <5>3, <4>1, <2>4
      <4> QED
        BY <4>2, <4>3
    <3> QED
      BY <3>1, <3>2 DEF RecordedIsExecuted, HasStatements, UpLines, UpMarkers, Marked
  <2> QED
    BY <2>9, <2>10, <2>11
<1>3. CASE Record(r)
  <2>1. File(r) \in Names /\ At(r, "recording")
    BY <1>3, NextFileIsPending DEF Record, At
  <2>2. PendingWhileAtIt'
    BY <1>3 DEF Record, MigrationsTypeOK, PendingWhileAtIt
  <2>3. NothingLeftOut'
    <3> SUFFICES ASSUME NEW q \in Runners, runner'[q].step # "absent", NEW n \in Checkout[q]
                 PROVE  n \in runner'[q].pending \/ n \in recorded'
      BY DEF NothingLeftOut
    <3>1. runner[q].step # "absent"
      BY <1>3, <2>1 DEF Record, At, MigrationsTypeOK
    <3>2. n \in runner[q].pending \/ n \in recorded
      BY <3>1 DEF NothingLeftOut
    <3>3. runner[q].pending \ {File(r)} \subseteq runner'[q].pending
      BY <1>3 DEF Record, MigrationsTypeOK
    <3> QED
      BY <1>3, <3>2, <3>3 DEF Record
  <2>4. RecordedIsExecuted'
    BY <1>3, <2>1 DEF Record, MigrationsTypeOK, RecordedIsExecuted, At, File
  <2> QED
    BY <2>2, <2>3, <2>4
<1>4. CASE FinishMigrate(r)
  <2>1. PendingWhileAtIt'
    BY <1>4 DEF FinishMigrate, MigrationsTypeOK, PendingWhileAtIt
  <2>2. NothingLeftOut'
    BY <1>4 DEF FinishMigrate, MigrationsTypeOK, NothingLeftOut
  <2>3. RecordedIsExecuted'
    BY <1>4 DEF FinishMigrate, MigrationsTypeOK, RecordedIsExecuted, At, File
  <2> QED
    BY <2>1, <2>2, <2>3
<1>5. CASE CutOff(r)
  <2>1. PendingWhileAtIt'
    BY <1>5 DEF CutOff, Absent, MigrationsTypeOK, PendingWhileAtIt
  <2>2. NothingLeftOut'
    BY <1>5 DEF CutOff, Absent, MigrationsTypeOK, NothingLeftOut
  <2>3. RecordedIsExecuted'
    BY <1>5 DEF CutOff, Absent, MigrationsTypeOK, RecordedIsExecuted, At, File
  <2> QED
    BY <2>1, <2>2, <2>3
<1> QED
  BY <1>1, <1>2, <1>3, <1>4, <1>5

\* A step that executes nothing, and takes nobody out of who is counted.
LEMMA CountKept ==
    ASSUME IsFiniteSet(Runners), MigrationsInv, executed' = executed, cuts' = cuts,
           \A n \in Names : ExecutedBy(n) \subseteq ExecutedBy(n)'
    PROVE  ExecutionsCounted'
<1> SUFFICES ASSUME NEW n \in Names
             PROVE  executed'[n] <= cuts'[n] + Cardinality(ExecutedBy(n)')
  BY DEF ExecutionsCounted
<1>1. executed[n] \in Nat /\ cuts[n] \in Nat
      /\ executed[n] <= cuts[n] + Cardinality(ExecutedBy(n))
  BY DEF MigrationsInv, MigrationsTypeOK, ExecutionsCounted
<1>2. ExecutedBy(n)' \in SUBSET Runners
  BY DEF ExecutedBy
<1>3. /\ Cardinality(ExecutedBy(n)) \in Nat /\ Cardinality(ExecutedBy(n)') \in Nat
      /\ Cardinality(ExecutedBy(n)) <= Cardinality(ExecutedBy(n)')
  BY <1>2, CountGrows
<1> QED
  BY <1>1, <1>3

\* A step adds a run of a file only with someone to be counted for it: the
\* deployment that is about to record it, or one that was cut off.
LEMMA MigrationsCountStep ==
    ASSUME IsFiniteSet(Runners), MigrationsInv, MigrationsNext
    PROVE  ExecutionsCounted'
<1> USE DEF MigrationsInv
<1> PICK r \in Runners :
        BeginMigrate(r) \/ Execute(r) \/ Record(r) \/ FinishMigrate(r) \/ CutOff(r)
  BY DEF MigrationsNext
<1>0. \A n : /\ ExecutedBy(n) \in SUBSET Runners
             /\ ExecutedBy(n)' \in SUBSET Runners
  BY DEF ExecutedBy
<1>1. CASE BeginMigrate(r)
  <2>1. \A n \in Names : ExecutedBy(n) \subseteq ExecutedBy(n)'
    BY <1>1 DEF BeginMigrate, ExecutedBy, MayExecute, IsRecording, At, File, Pending, MigrationsTypeOK
  <2> QED
    BY <1>1, <2>1, CountKept DEF BeginMigrate
<1>2. CASE Execute(r)
  <2> DEFINE by == IF HasStatements(File(r)) THEN 1 ELSE 0
  <2>1. File(r) \in Names /\ File(r) \in runner[r].pending /\ by \in 0 .. 1
    BY <1>2, NextFileIsPending DEF Execute, At
  <2>2. executed' = [executed EXCEPT ![File(r)] = @ + by]
    BY <1>2 DEF Execute
  <2> HIDE DEF by
  <2>3. \A q \in Runners : File(q)' = File(q) /\ runner'[q].pending = runner[q].pending
    BY <1>2 DEF Execute, File, MigrationsTypeOK
  <2>4. \A q \in Runners \ {r} : runner'[q] = runner[q]
    BY <1>2 DEF Execute, MigrationsTypeOK
  <2>5. runner[r].step = "executing" /\ runner'[r].step = "recording" /\ recorded' = recorded
        /\ runner[r].pending # {}
    BY <1>2 DEF Execute, MigrationsTypeOK, At
  <2>6. \A n : \A q \in Runners : q # r =>
          /\ (MayExecute(q, n)' <=> MayExecute(q, n))
          /\ (IsRecording(q, n)' <=> IsRecording(q, n))
    BY <2>3, <2>4 DEF MayExecute, IsRecording, At
  <2>7. \A n : /\ MayExecute(r, n)' => MayExecute(r, n)
               /\ ~IsRecording(r, n)
    BY <2>3, <2>5 DEF MayExecute, IsRecording, At
  <2>8. ASSUME NEW n \in Names, n = File(r)
        PROVE  MayExecute(r, n) /\ ~MayExecute(r, n)' /\ IsRecording(r, n)'
    BY <2>1, <2>3, <2>5, <2>8 DEF MayExecute, IsRecording, At
  <2>9. \A n : ExecutedBy(n) \subseteq ExecutedBy(n)'
    BY <2>5, <2>6, <2>7 DEF ExecutedBy
  <2> QED
    <3> SUFFICES ASSUME NEW n \in Names
                 PROVE  executed'[n] <= cuts'[n] + Cardinality(ExecutedBy(n)')
      BY DEF ExecutionsCounted
    <3>1. executed[n] \in Nat /\ cuts[n] \in Nat /\ cuts' = cuts
          /\ executed[n] <= cuts[n] + Cardinality(ExecutedBy(n))
      BY <1>2 DEF MigrationsTypeOK, ExecutionsCounted, Execute
    <3>2. /\ Cardinality(ExecutedBy(n)) \in Nat /\ Cardinality(ExecutedBy(n)') \in Nat
          /\ Cardinality(ExecutedBy(n)) <= Cardinality(ExecutedBy(n)')
      BY <1>0, <2>9, CountGrows
    <3>3. CASE n # File(r)
      BY <3>1, <3>2, <3>3, <2>1, <2>2 DEF MigrationsTypeOK
    <3>4. CASE n = File(r)
      <4>1. r \notin ExecutedBy(n) /\ r \in ExecutedBy(n)'
        <5>1. MayExecute(r, n) /\ ~MayExecute(r, n)' /\ IsRecording(r, n)'
          BY <3>4, <2>8
        <5> QED
          BY <5>1, <2>5, <2>7 DEF ExecutedBy
      <4>2. Cardinality(ExecutedBy(n)) + 1 <= Cardinality(ExecutedBy(n)')
        BY <4>1, <1>0, <2>9, CountGrowsByOne
      <4>3. executed'[n] = executed[n] + by
        BY <3>4, <2>1, <2>2 DEF MigrationsTypeOK
      <4> QED
        BY <3>1, <3>2, <4>2, <4>3, <2>1
    <3> QED
      BY <3>3, <3>4
<1>3. CASE Record(r)
  <2>1. \A n \in Names : ExecutedBy(n) \subseteq ExecutedBy(n)'
    <3> SUFFICES ASSUME NEW n \in Names, NEW q \in ExecutedBy(n)
                 PROVE  q \in ExecutedBy(n)'
      OBVIOUS
    <3>1. q \in Runners
      BY DEF ExecutedBy
    <3>2. CASE q = r
      BY <3>1, <3>2, <1>3 DEF Record, ExecutedBy, MayExecute, IsRecording, At, MigrationsTypeOK
    <3>3. CASE q # r
      <4>1. runner'[q] = runner[q] /\ recorded' = recorded \cup {File(r)}
        BY <1>3, <3>1, <3>3 DEF Record, MigrationsTypeOK
      <4> QED
        BY <4>1, <3>1 DEF ExecutedBy, MayExecute, IsRecording, At, File
    <3> QED
      BY <3>2, <3>3
  <2> QED
    BY <1>3, <2>1, CountKept DEF Record
<1>4. CASE FinishMigrate(r)
  <2>1. \A n \in Names : ExecutedBy(n) \subseteq ExecutedBy(n)'
    BY <1>4 DEF FinishMigrate, ExecutedBy, MayExecute, IsRecording, At, File, MigrationsTypeOK
  <2> QED
    BY <1>4, <2>1, CountKept DEF FinishMigrate
<1>5. CASE CutOff(r)
  <2>1. runner'[r].pending = {} /\ recorded' = recorded /\ executed' = executed
        /\ \A q \in Runners \ {r} : runner'[q] = runner[q]
    BY <1>5 DEF CutOff, Absent, MigrationsTypeOK
  <2>2. \A n : ExecutedBy(n) \ {r} \subseteq ExecutedBy(n)'
    BY <2>1 DEF ExecutedBy, MayExecute, IsRecording, At, File
  <2>3. \A n : ~IsRecording(r, n) => ExecutedBy(n) \subseteq ExecutedBy(n)'
    BY <2>1, <2>2 DEF ExecutedBy, MayExecute
  <2>4. CASE At(r, "recording")
    <3>1. cuts' = [cuts EXCEPT ![File(r)] = @ + 1] /\ File(r) \in Names
      BY <1>5, <2>4, NextFileIsPending DEF CutOff, At
    <3> SUFFICES ASSUME NEW n \in Names
                 PROVE  executed'[n] <= cuts'[n] + Cardinality(ExecutedBy(n)')
      BY DEF ExecutionsCounted
    <3>2. executed[n] \in Nat /\ cuts[n] \in Nat
          /\ executed[n] <= cuts[n] + Cardinality(ExecutedBy(n))
      BY DEF MigrationsTypeOK, ExecutionsCounted
    <3>3. CASE n = File(r)
      <4>1. /\ Cardinality(ExecutedBy(n)) \in Nat /\ Cardinality(ExecutedBy(n)') \in Nat
            /\ Cardinality(ExecutedBy(n)) <= Cardinality(ExecutedBy(n)') + 1
        BY <1>0, <2>2, CountShrinksByOne
      <4>2. cuts'[n] = cuts[n] + 1
        BY <3>1, <3>3 DEF MigrationsTypeOK
      <4> QED
        BY <3>2, <4>1, <4>2, <2>1
    <3>4. CASE n # File(r)
      <4>1. ExecutedBy(n) \subseteq ExecutedBy(n)'
        BY <3>4, <2>3 DEF IsRecording
      <4>2. /\ Cardinality(ExecutedBy(n)) \in Nat /\ Cardinality(ExecutedBy(n)') \in Nat
            /\ Cardinality(ExecutedBy(n)) <= Cardinality(ExecutedBy(n)')
        BY <4>1, <1>0, CountGrows
      <4>3. cuts'[n] = cuts[n]
        BY <3>1, <3>4 DEF MigrationsTypeOK
      <4> QED
        BY <3>2, <4>2, <4>3, <2>1
    <3> QED
      BY <3>3, <3>4
  <2>5. CASE ~At(r, "recording")
    <3>1. \A n \in Names : ExecutedBy(n) \subseteq ExecutedBy(n)'
      BY <2>3, <2>5 DEF IsRecording
    <3> QED
      BY <1>5, <2>5, <3>1, CountKept DEF CutOff
  <2> QED
    BY <2>4, <2>5
<1> QED
  BY <1>1, <1>2, <1>3, <1>4, <1>5

\* The inductive invariant, for any finite number of deployments.
THEOREM MigrationsInvariant == ASSUME IsFiniteSet(Runners) PROVE MigrationsSpec => []MigrationsInv
<1>1. MigrationsInit => MigrationsInv
  <2> SUFFICES ASSUME MigrationsInit PROVE MigrationsInv
    OBVIOUS
  <2>1. MigrationsTypeOK
    BY DEF MigrationsInit, MigrationsTypeOK, Absent
  <2>2. PendingWhileAtIt /\ NothingLeftOut /\ RecordedIsExecuted
    BY DEF MigrationsInit, PendingWhileAtIt, NothingLeftOut, RecordedIsExecuted, Absent, At
  <2>3. ExecutionsCounted
    <3> SUFFICES ASSUME NEW n \in Names
                 PROVE  executed[n] <= cuts[n] + Cardinality(ExecutedBy(n))
      BY DEF ExecutionsCounted
    <3>1. ExecutedBy(n) \in SUBSET Runners
      BY DEF ExecutedBy
    <3>2. Cardinality(ExecutedBy(n)) \in Nat
      BY <3>1, FS_Subset, FS_CardinalityType
    <3> QED
      BY <3>2 DEF MigrationsInit
  <2> QED
    BY <2>1, <2>2, <2>3 DEF MigrationsInv
<1>2. MigrationsInv /\ [MigrationsNext]_migrationVars => MigrationsInv'
  <2>1. ASSUME MigrationsInv, MigrationsNext PROVE MigrationsInv'
    BY <2>1, MigrationsTypeStep, MigrationsFactsStep, MigrationsCountStep DEF MigrationsInv
  <2>2. ASSUME MigrationsInv, UNCHANGED migrationVars PROVE MigrationsInv'
    BY <2>2 DEF migrationVars, MigrationsInv, MigrationsTypeOK, PendingWhileAtIt, NothingLeftOut,
                RecordedIsExecuted, ExecutionsCounted, ExecutedBy, MayExecute, IsRecording, At, File,
                HasStatements
  <2> QED
    BY <2>1, <2>2
<1> QED
  BY <1>1, <1>2, PTL DEF MigrationsSpec

\* For any finite number of overlapping deployments, any checkouts and any cuts:
\* a deployment that finished has every file of its checkout recorded and run,
\* and a file ran no more often than the overlaps and cuts account for (main in
\* cmd/migrate/run.go).
THEOREM MigrationsAlwaysComplete ==
    ASSUME IsFiniteSet(Runners) PROVE MigrationsSpec => []MigrationsComplete
<1>1. MigrationsInv => MigrationsComplete
  <2> SUFFICES ASSUME MigrationsInv PROVE MigrationsComplete
    OBVIOUS
  <2>1. ASSUME NEW r \in Runners, runner[r].step = "finished", NEW n \in Checkout[r]
        PROVE  n \in recorded /\ (HasStatements(n) => executed[n] > 0)
    BY <2>1 DEF MigrationsInv, PendingWhileAtIt, NothingLeftOut, RecordedIsExecuted
  <2>2. ASSUME NEW n \in Names PROVE executed[n] <= cuts[n] + Cardinality(Runners)
    <3>1. ExecutedBy(n) \in SUBSET Runners
      BY DEF ExecutedBy
    <3>2. /\ Cardinality(ExecutedBy(n)) \in Nat /\ Cardinality(Runners) \in Nat
          /\ Cardinality(ExecutedBy(n)) <= Cardinality(Runners)
      BY <3>1, CountGrows
    <3>3. executed[n] \in Nat /\ cuts[n] \in Nat
          /\ executed[n] <= cuts[n] + Cardinality(ExecutedBy(n))
      BY DEF MigrationsInv, MigrationsTypeOK, ExecutionsCounted
    <3> QED
      BY <3>2, <3>3
  <2> QED
    BY <2>1, <2>2 DEF MigrationsComplete
<1> QED
  BY <1>1, MigrationsInvariant, PTL

------------------------------------------------------------------------------
(* Reminders and blasts.                                                   *)

\* A scheduler at work: between taking a booking up and the next.
Steps == {"choose", "whatsapp", "mark whatsapp", "email", "mark email"}

Fresh   == [step : {"choose"}, due : BOOLEAN, todo : SUBSET Bookings, read : SUBSET Notes]
Working == [step : Steps, due : BOOLEAN, todo : SUBSET Bookings, read : SUBSET Notes,
            booking : Bookings]
Sending == [step : {"send"}, todo : SUBSET Accounts, sent : SUBSET Address]

NoticeTypeOK ==
    /\ live \subseteq Bookings /\ flag \subseteq Notes
    /\ reminded \in [Notes -> Nat] /\ lost \in [Notes -> Nat]
    /\ tick \in [Schedulers -> {Quiet} \cup Fresh \cup Working]
    /\ blast \in {Quiet} \cup Sending
    /\ posted \in [Address -> Nat]

\* The booking a scheduler is at is not one it will take up again.
TakenUpOnce ==
    \A s \in Schedulers :
        tick[s].step \notin {"idle", "choose"} => tick[s].booking \notin tick[s].todo

\* The steps at which a message on this channel is still to come.
StillToCome(channel) ==
    IF channel = "whatsapp" THEN {"whatsapp"} ELSE {"whatsapp", "mark whatsapp", "email"}

\* In its present round a scheduler has not come to this note, and would send it.
MayRemind(s, n) ==
    /\ tick[s].step # "idle" /\ n \notin tick[s].read
    /\ \/ n[1] \in tick[s].todo
       \/ tick[s].step \in StillToCome(n[2]) /\ tick[s].booking = n[1]

\* It has sent it, and not recorded that it did.
Unrecorded(s, n) ==
    /\ tick[s].step \in {"mark whatsapp", "mark email"}
    /\ n = <<tick[s].booking, Marking(s)>>

\* Who may have sent a note without losing it: before its flag is set, who is
\* about to set it; afterwards, whoever does not have it in front of them.
RemindedBy(n) ==
    IF n \in flag THEN {s \in Schedulers : ~MayRemind(s, n)}
    ELSE {s \in Schedulers : Unrecorded(s, n)}

RemindersCounted == \A n \in Notes : reminded[n] <= lost[n] + Cardinality(RemindedBy(n))

\* An address that is not struck off has not been written to.
StruckOffWhenPosted ==
    /\ \A x \in Address : posted[x] <= 1
    /\ blast # Quiet => \A x \in Address : x \notin blast.sent => posted[x] = 0

NoticeInv ==
    /\ NoticeTypeOK /\ TakenUpOnce /\ RemindersCounted /\ StruckOffWhenPosted

\* A note is a booking and a channel.
LEMMA NoteParts == ASSUME NEW n \in Notes PROVE n = <<n[1], n[2]>> /\ n[1] \in Bookings /\ n[2] \in Channels
  BY DEF Notes

\* What a round's records hold.
LEMMA TickParts ==
    ASSUME NoticeTypeOK, NEW s \in Schedulers
    PROVE  /\ (tick[s].step = "idle") <=> (tick[s] = Quiet)
           /\ tick[s].step \in Steps \cup {"idle"}
           /\ tick[s].step # "idle" =>
                 /\ tick[s].due \in BOOLEAN /\ tick[s].todo \in SUBSET Bookings
                 /\ tick[s].read \in SUBSET Notes
           /\ tick[s].step \notin {"idle", "choose"} =>
                 tick[s] \in Working /\ tick[s].booking \in Bookings
<1>1. tick[s] \in {Quiet} \cup Fresh \cup Working
  BY DEF NoticeTypeOK
<1>2. CASE tick[s] = Quiet
  <2>1. tick[s].step = "idle"
    BY <1>2 DEF Quiet
  <2> QED
    BY <1>2, <2>1
<1>3. CASE tick[s] \in Fresh
  <2>1. tick[s].step = "choose" /\ tick[s] # Quiet
    BY <1>3 DEF Fresh, Quiet
  <2> QED
    BY <1>3, <2>1 DEF Fresh, Steps
<1>4. CASE tick[s] \in Working
  <2>1. tick[s].step \in Steps /\ tick[s].step # "idle"
    BY <1>4 DEF Working, Steps
  <2>2. tick[s] # Quiet
    BY <2>1 DEF Quiet
  <2> QED
    BY <1>4, <2>1, <2>2 DEF Working
<1> QED
  BY <1>1, <1>2, <1>3, <1>4

\* Where a scheduler is after it has gone on to a step.
LEMMA GoesTo ==
    ASSUME NoticeTypeOK, NEW s \in Schedulers, tick[s] # Quiet, NEW step \in Steps,
           NEW b \in Bookings, Goes(s, step, b)
    PROVE  /\ tick' = [tick EXCEPT ![s] = tick'[s]]
           /\ tick'[s] \in Working
           /\ tick'[s].step = step /\ tick'[s].booking = b
           /\ tick'[s].todo = tick[s].todo \ {b} /\ tick'[s].read = tick[s].read
           /\ tick' \in [Schedulers -> {Quiet} \cup Fresh \cup Working]
<1> DEFINE t == [step |-> step, due |-> tick[s].due, todo |-> tick[s].todo \ {b},
                 read |-> tick[s].read, booking |-> b]
<1>1. tick' = [tick EXCEPT ![s] = t] /\ tick'[s] = t
  BY DEF Goes, NoticeTypeOK
<1>2. t \in Working
  BY TickParts DEF Working
<1>3. t.step = step /\ t.booking = b /\ t.todo = tick[s].todo \ {b} /\ t.read = tick[s].read
  OBVIOUS
<1> HIDE DEF t
<1>4. tick' \in [Schedulers -> {Quiet} \cup Fresh \cup Working]
  BY <1>1, <1>2 DEF NoticeTypeOK
<1> QED
  BY <1>1, <1>2, <1>3, <1>4

\* The channel a scheduler is about to record.
LEMMA MarkingIs ==
    ASSUME NEW s
    PROVE  \/ tick[s].step = "mark whatsapp" /\ Marking(s) = "whatsapp"
           \/ tick[s].step = "mark email" /\ Marking(s) = "email"
           \/ tick[s].step \notin {"mark whatsapp", "mark email"} /\ Marking(s) = "none"
  BY DEF Marking

\* Whoever has just sent a note does not have it in front of them.
LEMMA SentIsBehind ==
    ASSUME NoticeInv, NEW s \in Schedulers, NEW n \in Notes, Unrecorded(s, n)
    PROVE  ~MayRemind(s, n)
<1>1. n[1] = tick[s].booking /\ n[2] = Marking(s)
  BY DEF Unrecorded
<1>2. n[1] \notin tick[s].todo
  BY <1>1 DEF Unrecorded, NoticeInv, TakenUpOnce
<1>3. tick[s].step \notin StillToCome(n[2])
  BY <1>1, MarkingIs DEF StillToCome, Unrecorded
<1> QED
  BY <1>2, <1>3 DEF MayRemind

\* Who stays counted.
LEMMA StaysCounted ==
    ASSUME NoticeInv, NEW s \in Schedulers, NEW n \in Notes, s \in RemindedBy(n),
           n \in flag => n \in flag',
           MayRemind(s, n)' => MayRemind(s, n),
           Unrecorded(s, n) => Unrecorded(s, n)' \/ n \in flag'
    PROVE  s \in RemindedBy(n)'
  BY SentIsBehind DEF RemindedBy

\* A scheduler that does nothing stays counted.
LEMMA OthersStayCounted ==
    ASSUME NoticeInv, NEW s \in Schedulers, NEW n \in Notes, s \in RemindedBy(n),
           n \in flag => n \in flag', tick'[s] = tick[s]
    PROVE  s \in RemindedBy(n)'
<1>1. (MayRemind(s, n)' <=> MayRemind(s, n)) /\ (Unrecorded(s, n)' <=> Unrecorded(s, n))
  BY DEF MayRemind, Unrecorded, Marking
<1> QED
  BY <1>1, StaysCounted

\* A step that sends nothing keeps the count if whoever is counted stays so.
LEMMA RemindersKept ==
    ASSUME NoticeInv, IsFiniteSet(Schedulers), reminded' = reminded, lost' = lost,
           \A n \in Notes : RemindedBy(n) \subseteq RemindedBy(n)'
    PROVE  RemindersCounted'
<1> SUFFICES ASSUME NEW n \in Notes
             PROVE  reminded'[n] <= lost'[n] + Cardinality(RemindedBy(n)')
  BY DEF RemindersCounted, Notes
<1>1. reminded[n] \in Nat /\ lost[n] \in Nat
      /\ reminded[n] <= lost[n] + Cardinality(RemindedBy(n))
  BY DEF NoticeInv, NoticeTypeOK, RemindersCounted
<1>2. RemindedBy(n)' \in SUBSET Schedulers
  BY DEF RemindedBy
<1>3. /\ Cardinality(RemindedBy(n)) \in Nat /\ Cardinality(RemindedBy(n)') \in Nat
      /\ Cardinality(RemindedBy(n)) <= Cardinality(RemindedBy(n)')
  BY <1>2, CountGrows
<1> QED
  BY <1>1, <1>3

\* One more note that is sent and not recorded yet.
LEMMA ReminderSent ==
    ASSUME NoticeInv, IsFiniteSet(Schedulers), NEW s \in Schedulers, NEW note \in Notes,
           reminded' = [reminded EXCEPT ![note] = @ + 1], lost' = lost,
           s \notin RemindedBy(note), s \in RemindedBy(note)',
           \A n \in Notes : RemindedBy(n) \subseteq RemindedBy(n)'
    PROVE  RemindersCounted'
<1> SUFFICES ASSUME NEW n \in Notes
             PROVE  reminded'[n] <= lost'[n] + Cardinality(RemindedBy(n)')
  BY DEF RemindersCounted, Notes
<1>1. reminded[n] \in Nat /\ lost[n] \in Nat
      /\ reminded[n] <= lost[n] + Cardinality(RemindedBy(n))
  BY DEF NoticeInv, NoticeTypeOK, RemindersCounted
<1>2. RemindedBy(n)' \in SUBSET Schedulers
  BY DEF RemindedBy
<1>3. CASE n = note
  <2>1. /\ Cardinality(RemindedBy(n)) \in Nat /\ Cardinality(RemindedBy(n)') \in Nat
        /\ Cardinality(RemindedBy(n)) + 1 <= Cardinality(RemindedBy(n)')
    BY <1>2, <1>3, CountGrowsByOne
  <2>2. reminded'[n] = reminded[n] + 1
    BY <1>3 DEF NoticeInv, NoticeTypeOK
  <2> QED
    BY <1>1, <2>1, <2>2
<1>4. CASE n # note
  <2>1. /\ Cardinality(RemindedBy(n)) \in Nat /\ Cardinality(RemindedBy(n)') \in Nat
        /\ Cardinality(RemindedBy(n)) <= Cardinality(RemindedBy(n)')
    BY <1>2, CountGrows
  <2>2. reminded'[n] = reminded[n]
    BY <1>4 DEF NoticeInv, NoticeTypeOK
  <2> QED
    BY <1>1, <2>1, <2>2
<1> QED
  BY <1>3, <1>4

\* A note that was sent and is forgotten.
LEMMA ReminderLost ==
    ASSUME NoticeInv, IsFiniteSet(Schedulers), NEW s \in Schedulers, NEW note \in Notes,
           lost' = [lost EXCEPT ![note] = @ + 1], reminded' = reminded,
           RemindedBy(note) \ {s} \subseteq RemindedBy(note)',
           \A n \in Notes \ {note} : RemindedBy(n) \subseteq RemindedBy(n)'
    PROVE  RemindersCounted'
<1> SUFFICES ASSUME NEW n \in Notes
             PROVE  reminded'[n] <= lost'[n] + Cardinality(RemindedBy(n)')
  BY DEF RemindersCounted, Notes
<1>1. reminded[n] \in Nat /\ lost[n] \in Nat
      /\ reminded[n] <= lost[n] + Cardinality(RemindedBy(n))
  BY DEF NoticeInv, NoticeTypeOK, RemindersCounted
<1>2. RemindedBy(n)' \in SUBSET Schedulers /\ RemindedBy(n) \in SUBSET Schedulers
  BY DEF RemindedBy
<1>3. CASE n = note
  <2>1. /\ Cardinality(RemindedBy(n)) \in Nat /\ Cardinality(RemindedBy(n)') \in Nat
        /\ Cardinality(RemindedBy(n)) <= Cardinality(RemindedBy(n)') + 1
    BY <1>2, <1>3, CountShrinksByOne
  <2>2. lost'[n] = lost[n] + 1
    BY <1>3 DEF NoticeInv, NoticeTypeOK
  <2> QED
    BY <1>1, <2>1, <2>2
<1>4. CASE n # note
  <2>1. /\ Cardinality(RemindedBy(n)) \in Nat /\ Cardinality(RemindedBy(n)') \in Nat
        /\ Cardinality(RemindedBy(n)) <= Cardinality(RemindedBy(n)')
    BY <1>2, <1>4, CountGrows
  <2>2. lost'[n] = lost[n]
    BY <1>4 DEF NoticeInv, NoticeTypeOK
  <2> QED
    BY <1>1, <2>1, <2>2
<1> QED
  BY <1>3, <1>4

------------------------------------------------------------------------------

\* The four parts but for the count, for a step of one scheduler.
LEMMA RoundStep ==
    ASSUME NoticeInv, NEW s \in Schedulers,
           \/ Tick(s) \/ ChooseBooking(s) \/ SendReminder(s) \/ MarkReminder(s)
           \/ MarkFails(s) \/ Stop(s)
    PROVE  /\ NoticeTypeOK' /\ TakenUpOnce' /\ StruckOffWhenPosted'
           /\ \A q \in Schedulers \ {s} : tick'[q] = tick[q]
<1> USE DEF NoticeInv
<1>0. \A step \in Steps, b \in Bookings :
        tick[s] # Quiet /\ Goes(s, step, b) =>
           /\ tick' \in [Schedulers -> {Quiet} \cup Fresh \cup Working]
           /\ TakenUpOnce'
           /\ \A q \in Schedulers \ {s} : tick'[q] = tick[q]
  <2> SUFFICES ASSUME NEW step \in Steps, NEW b \in Bookings, tick[s] # Quiet, Goes(s, step, b)
               PROVE  /\ tick' \in [Schedulers -> {Quiet} \cup Fresh \cup Working]
                      /\ TakenUpOnce'
                      /\ \A q \in Schedulers \ {s} : tick'[q] = tick[q]
    OBVIOUS
  <2>1. /\ tick' = [tick EXCEPT ![s] = tick'[s]]
        /\ tick'[s].booking = b /\ tick'[s].todo = tick[s].todo \ {b}
        /\ tick' \in [Schedulers -> {Quiet} \cup Fresh \cup Working]
    BY GoesTo
  <2>2. \A q \in Schedulers \ {s} : tick'[q] = tick[q]
    BY <2>1 DEF NoticeTypeOK
  <2> QED
    BY <2>1, <2>2 DEF TakenUpOnce
<1>1. CASE Tick(s)
  <2>1. PICK taken \in kSubset(Min({Batch, Cardinality(Unsent)}), Unsent) :
           tick' = [tick EXCEPT ![s] =
               [step |-> "choose", due |-> InWindow, todo |-> taken,
                read |-> flag \cap (taken \X Channels)]]
    BY <1>1 DEF Tick
  <2>2. taken \subseteq Bookings
    BY DEF kSubset, Unsent, NoticeTypeOK
  <2>3. InWindow \in BOOLEAN
    BY DEF InWindow
  <2> DEFINE t == [step |-> "choose", due |-> InWindow, todo |-> taken,
                   read |-> flag \cap (taken \X Channels)]
  <2>4. t \in Fresh /\ t.step = "choose"
    BY <2>2, <2>3 DEF Fresh, NoticeTypeOK
  <2>5. tick' = [tick EXCEPT ![s] = t]
    BY <2>1
  <2> HIDE DEF t
  <2>6. tick' \in [Schedulers -> {Quiet} \cup Fresh \cup Working] /\ TakenUpOnce'
        /\ \A q \in Schedulers \ {s} : tick'[q] = tick[q]
    BY <2>4, <2>5 DEF NoticeTypeOK, TakenUpOnce
  <2> QED
    BY <1>1, <2>6 DEF Tick, NoticeTypeOK, StruckOffWhenPosted
<1>2. CASE ChooseBooking(s)
  <2>1. tick[s] # Quiet
    BY <1>2 DEF ChooseBooking, Quiet
  <2>2. /\ tick' \in [Schedulers -> {Quiet} \cup Fresh \cup Working] /\ TakenUpOnce'
        /\ \A q \in Schedulers \ {s} : tick'[q] = tick[q]
    <3>1. CASE \E b \in tick[s].todo : tick[s].due /\ Goes(s, "whatsapp", b)
      <4>1. PICK b \in tick[s].todo : Goes(s, "whatsapp", b)
        BY <3>1
      <4>2. b \in Bookings /\ "whatsapp" \in Steps
        BY <2>1, TickParts DEF Steps
      <4> QED
        BY <4>1, <4>2, <2>1, <1>0
    <3>2. CASE tick' = [tick EXCEPT ![s] = Quiet]
      BY <3>2 DEF NoticeTypeOK, TakenUpOnce, Quiet
    <3> QED
      BY <1>2, <3>1, <3>2 DEF ChooseBooking
  <2> QED
    BY <1>2, <2>2 DEF ChooseBooking, NoticeTypeOK, StruckOffWhenPosted
<1>3. CASE SendReminder(s)
  <2> DEFINE b == tick[s].booking
             c == tick[s].step
  <2>1. c \in Channels /\ c \in {"whatsapp", "email"}
    BY <1>3 DEF SendReminder, Channels
  <2>2. tick[s] # Quiet /\ b \in Bookings /\ tick[s] \in Working /\ After(c) \in Steps
    BY <2>1, TickParts DEF After, Steps
  <2>3. CASE /\ reminded' = [reminded EXCEPT ![<<b, c>>] = @ + 1]
             /\ tick' = [tick EXCEPT ![s].step = IF c = "email" THEN "mark email" ELSE "mark whatsapp"]
    <3>1. <<b, c>> \in Notes
      BY <2>1, <2>2 DEF Notes
    <3>2. reminded' \in [Notes -> Nat]
      <4> DEFINE note == <<b, c>>
      <4>1. reminded' = [reminded EXCEPT ![note] = @ + 1] /\ note \in Notes
        BY <2>3, <3>1
      <4> HIDE DEF note
      <4> QED
        BY <4>1 DEF NoticeTypeOK
    <3> DEFINE t == [tick[s] EXCEPT !.step = IF c = "email" THEN "mark email" ELSE "mark whatsapp"]
    <3>3. t \in Working /\ t.booking = b /\ t.todo = tick[s].todo
      BY <2>2 DEF Working, Steps
    <3>4. tick' = [tick EXCEPT ![s] = t]
      BY <2>3
    <3>5. b \notin tick[s].todo
      BY <2>1 DEF TakenUpOnce
    <3> HIDE DEF t, b, c
    <3>6. /\ tick' \in [Schedulers -> {Quiet} \cup Fresh \cup Working]
          /\ \A q \in Schedulers \ {s} : tick'[q] = tick[q]
      BY <3>3, <3>4 DEF NoticeTypeOK
    <3>7. TakenUpOnce'
      BY <3>3, <3>4, <3>5, <3>6 DEF NoticeTypeOK, TakenUpOnce
    <3> QED
      BY <1>3, <3>2, <3>6, <3>7 DEF SendReminder, NoticeTypeOK, StruckOffWhenPosted
  <2>4. CASE Goes(s, After(c), b) /\ UNCHANGED reminded
    <3>1. /\ tick' \in [Schedulers -> {Quiet} \cup Fresh \cup Working] /\ TakenUpOnce'
          /\ \A q \in Schedulers \ {s} : tick'[q] = tick[q]
      BY <2>4, <2>2, <1>0
    <3> QED
      BY <1>3, <2>4, <3>1 DEF SendReminder, NoticeTypeOK, StruckOffWhenPosted
  <2> QED
    BY <1>3, <2>3, <2>4 DEF SendReminder
<1>4. CASE MarkReminder(s)
  <2> DEFINE b == tick[s].booking
             c == Marking(s)
  <2>1. c \in Channels /\ tick[s].step \in {"mark whatsapp", "mark email"} /\ After(c) \in Steps
    BY <1>4, MarkingIs DEF MarkReminder, Channels, After, Steps
  <2>2. tick[s] # Quiet /\ b \in Bookings
    BY <2>1, TickParts
  <2>3. <<b, c>> \in Notes
    BY <2>1, <2>2 DEF Notes
  <2>4. Goes(s, After(c), b) /\ flag' = flag \cup {<<b, c>>}
    BY <1>4 DEF MarkReminder
  <2>5. /\ tick' \in [Schedulers -> {Quiet} \cup Fresh \cup Working] /\ TakenUpOnce'
        /\ \A q \in Schedulers \ {s} : tick'[q] = tick[q]
    BY <2>1, <2>2, <2>4, <1>0
  <2> QED
    BY <1>4, <2>3, <2>4, <2>5 DEF MarkReminder, NoticeTypeOK, StruckOffWhenPosted
<1>5. ASSUME Forget(s), tick[s] # Quiet
      PROVE  lost' \in [Notes -> Nat]
  <2>1. CASE Marking(s) = "none"
    BY <1>5, <2>1 DEF Forget, NoticeTypeOK
  <2>2. CASE Marking(s) # "none"
    <3>1. <<tick[s].booking, Marking(s)>> \in Notes
      BY <2>2, MarkingIs, TickParts DEF Notes, Channels
    <3> QED
      BY <1>5, <2>2, <3>1 DEF Forget, NoticeTypeOK
  <2> QED
    BY <2>1, <2>2
<1>6. CASE MarkFails(s)
  <2> DEFINE b == tick[s].booking
             c == Marking(s)
  <2>1. tick[s].step \in {"mark whatsapp", "mark email"} /\ After(c) \in Steps
    BY <1>6, MarkingIs DEF MarkFails, After, Steps
  <2>2. tick[s] # Quiet /\ b \in Bookings
    BY <2>1, TickParts
  <2>3. /\ tick' \in [Schedulers -> {Quiet} \cup Fresh \cup Working] /\ TakenUpOnce'
        /\ \A q \in Schedulers \ {s} : tick'[q] = tick[q]
    BY <1>6, <2>1, <2>2, <1>0 DEF MarkFails
  <2>4. lost' \in [Notes -> Nat]
    BY <1>5, <1>6, <2>2 DEF MarkFails
  <2> QED
    BY <1>6, <2>3, <2>4 DEF MarkFails, NoticeTypeOK, StruckOffWhenPosted
<1>7. CASE Stop(s)
  <2>1. lost' \in [Notes -> Nat]
    BY <1>5, <1>7 DEF Stop
  <2>2. tick' = [tick EXCEPT ![s] = Quiet]
    BY <1>7 DEF Stop
  <2>3. /\ tick' \in [Schedulers -> {Quiet} \cup Fresh \cup Working] /\ TakenUpOnce'
        /\ \A q \in Schedulers \ {s} : tick'[q] = tick[q]
    BY <2>2 DEF NoticeTypeOK, TakenUpOnce, Quiet
  <2> QED
    BY <1>7, <2>1, <2>3 DEF Stop, NoticeTypeOK, StruckOffWhenPosted
<1> QED
  BY <1>1, <1>2, <1>3, <1>4, <1>6, <1>7

\* Who is counted after a step of one scheduler that sets no flag.
LEMMA RoundCount ==
    ASSUME NoticeInv, NEW s \in Schedulers, \A q \in Schedulers \ {s} : tick'[q] = tick[q],
           flag \subseteq flag', NEW n \in Notes,
           MayRemind(s, n)' => MayRemind(s, n),
           Unrecorded(s, n) => Unrecorded(s, n)' \/ n \in flag'
    PROVE  RemindedBy(n) \subseteq RemindedBy(n)'
<1> SUFFICES ASSUME NEW q \in RemindedBy(n) PROVE q \in RemindedBy(n)'
  OBVIOUS
<1>1. q \in Schedulers
  BY DEF RemindedBy
<1>2. CASE q = s
  BY <1>1, <1>2, StaysCounted
<1>3. CASE q # s
  BY <1>1, <1>3, OthersStayCounted
<1> QED
  BY <1>2, <1>3

\* Every step of a scheduler: a note it sends is new to its count, or lost.
LEMMA NoticeRoundCount ==
    ASSUME NoticeInv, IsFiniteSet(Schedulers), NEW s \in Schedulers,
           \/ Tick(s) \/ ChooseBooking(s) \/ SendReminder(s) \/ MarkReminder(s)
           \/ MarkFails(s) \/ Stop(s)
    PROVE  RemindersCounted'
<1>0. /\ NoticeTypeOK /\ TakenUpOnce
      /\ \A q \in Schedulers \ {s} : tick'[q] = tick[q]
  BY RoundStep DEF NoticeInv
<1>1. CASE Tick(s)
  <2>1. PICK taken \in kSubset(Min({Batch, Cardinality(Unsent)}), Unsent) :
           tick' = [tick EXCEPT ![s] =
               [step |-> "choose", due |-> InWindow, todo |-> taken,
                read |-> flag \cap (taken \X Channels)]]
    BY <1>1 DEF Tick
  <2>2. /\ tick'[s].step = "choose" /\ tick'[s].todo = taken
        /\ tick'[s].read = flag \cap (taken \X Channels)
        /\ tick[s].step = "idle" /\ flag' = flag /\ reminded' = reminded /\ lost' = lost
    BY <1>0, <1>1, <2>1 DEF Tick, NoticeTypeOK, Quiet
  <2>3. ASSUME NEW n \in Notes PROVE RemindedBy(n) \subseteq RemindedBy(n)'
    <3> SUFFICES ASSUME NEW q \in RemindedBy(n) PROVE q \in RemindedBy(n)'
      OBVIOUS
    <3>1. q \in Schedulers
      BY DEF RemindedBy
    <3>2. CASE q = s
      <4>1. n \in flag
        BY <3>2, <2>2 DEF RemindedBy, Unrecorded
      <4>2. ~MayRemind(s, n)'
        <5>1. n[1] \in taken => n \in tick'[s].read
          BY <4>1, <2>2, NoteParts
        <5>2. tick'[s].step \notin StillToCome(n[2])
          BY <2>2 DEF StillToCome
        <5> QED
          BY <5>1, <5>2, <2>2 DEF MayRemind, StillToCome
      <4> QED
        BY <3>2, <4>1, <4>2, <2>2 DEF RemindedBy
    <3>3. CASE q # s
      BY <3>1, <3>3, <2>2, <1>0, OthersStayCounted
    <3> QED
      BY <3>2, <3>3
  <2> QED
    BY <2>2, <2>3, RemindersKept
<1>2. CASE ChooseBooking(s)
  <2>0. tick[s].step = "choose" /\ tick[s] # Quiet
        /\ flag' = flag /\ reminded' = reminded /\ lost' = lost
    BY <1>2 DEF ChooseBooking, Quiet
  <2>1. \A n \in Notes : MayRemind(s, n)' => MayRemind(s, n)
    <3>1. CASE \E b \in tick[s].todo : tick[s].due /\ Goes(s, "whatsapp", b)
      <4>1. PICK b \in tick[s].todo : Goes(s, "whatsapp", b)
        BY <3>1
      <4>2. b \in Bookings /\ "whatsapp" \in Steps
        BY <1>0, <2>0, TickParts DEF Steps
      <4>3. /\ tick'[s].booking = b /\ tick'[s].todo = tick[s].todo \ {b}
            /\ tick'[s].read = tick[s].read
        BY <1>0, <2>0, <4>1, <4>2, GoesTo
      <4> QED
        BY <2>0, <4>1, <4>3 DEF MayRemind
    <3>2. CASE tick' = [tick EXCEPT ![s] = Quiet]
      <4>1. tick'[s].step = "idle"
        BY <1>0, <3>2 DEF NoticeTypeOK, Quiet
      <4> QED
        BY <4>1 DEF MayRemind
    <3> QED
      BY <1>2, <3>1, <3>2 DEF ChooseBooking
  <2>2. \A n \in Notes : ~Unrecorded(s, n)
    BY <2>0 DEF Unrecorded
  <2> QED
    BY <1>0, <2>0, <2>1, <2>2, RoundCount, RemindersKept
<1>3. CASE SendReminder(s)
  <2>0. PICK b, c, note : b = tick[s].booking /\ c = tick[s].step /\ note = <<b, c>>
    OBVIOUS
  <2>1. c \in Channels /\ c \in {"whatsapp", "email"}
    BY <1>3, <2>0 DEF SendReminder, Channels
  <2>2. tick[s] # Quiet /\ b \in Bookings /\ tick[s] \in Working /\ After(c) \in Steps
    BY <1>0, <2>0, <2>1, TickParts DEF After, Steps
  <2>3. note \in Notes
    BY <2>0, <2>1, <2>2 DEF Notes
  <2>4. flag' = flag /\ lost' = lost
    BY <1>3 DEF SendReminder
  <2>5. \A n \in Notes : ~Unrecorded(s, n)
    BY <2>0, <2>1 DEF Unrecorded
  <2>6. CASE /\ UnsentOn(s, b, c) /\ c \in Reachable[b]
             /\ reminded' = [reminded EXCEPT ![note] = @ + 1]
             /\ tick' = [tick EXCEPT ![s].step = IF c = "email" THEN "mark email" ELSE "mark whatsapp"]
    <3>1. /\ tick'[s].step = IF c = "email" THEN "mark email" ELSE "mark whatsapp"
          /\ tick'[s].booking = b /\ tick'[s].todo = tick[s].todo /\ tick'[s].read = tick[s].read
      BY <1>0, <2>0, <2>2, <2>6 DEF NoticeTypeOK, Working
    <3>2. \A n \in Notes : MayRemind(s, n)' => MayRemind(s, n)
      BY <3>1, <2>0, <2>1 DEF MayRemind, StillToCome
    <3>3. MayRemind(s, note)
      BY <2>6, <2>0, <2>1 DEF UnsentOn, MayRemind, StillToCome
    <3>4. b \notin tick'[s].todo
      BY <1>0, <2>0, <2>1, <3>1 DEF TakenUpOnce
    <3>5. tick'[s].step \in {"mark whatsapp", "mark email"} /\ Marking(s)' = c
      BY <2>1, <3>1 DEF Marking
    <3>6. note[1] = b /\ note[2] = c
      BY <2>0
    <3>7. Unrecorded(s, note)'
      BY <2>0, <3>1, <3>5 DEF Unrecorded
    <3>8. ~MayRemind(s, note)'
      <4>1. tick'[s].step \notin StillToCome(c)
        BY <2>1, <3>1 DEF StillToCome
      <4> QED
        BY <3>1, <3>4, <3>6, <4>1 DEF MayRemind, StillToCome
    <3>9. s \notin RemindedBy(note) /\ s \in RemindedBy(note)'
      BY <2>3, <2>4, <2>5, <3>3, <3>7, <3>8 DEF RemindedBy
    <3>10. \A n \in Notes : RemindedBy(n) \subseteq RemindedBy(n)'
      BY <1>0, <2>4, <2>5, <3>2, RoundCount
    <3> QED
      BY <2>3, <2>4, <2>6, <3>9, <3>10, ReminderSent
  <2>7. CASE Goes(s, After(c), b) /\ UNCHANGED reminded
    <3>1. /\ tick'[s].step = After(c) /\ tick'[s].booking = b
          /\ tick'[s].todo = tick[s].todo \ {b} /\ tick'[s].read = tick[s].read
      BY <1>0, <2>0, <2>2, <2>7, GoesTo
    <3>2. \A n \in Notes : MayRemind(s, n)' => MayRemind(s, n)
      BY <2>0, <2>1, <3>1 DEF MayRemind, StillToCome, After
    <3> QED
      BY <1>0, <2>4, <2>5, <2>7, <3>2, RoundCount, RemindersKept
  <2> QED
    BY <1>3, <2>0, <2>6, <2>7 DEF SendReminder
<1>4. CASE MarkReminder(s)
  <2> DEFINE b == tick[s].booking
             c == Marking(s)
  <2>1. c \in {"whatsapp", "email"} /\ tick[s].step \in {"mark whatsapp", "mark email"}
        /\ After(c) \in Steps
    BY <1>4, MarkingIs DEF MarkReminder, After, Steps
  <2>2. tick[s] # Quiet /\ b \in Bookings
    BY <1>0, <2>1, TickParts
  <2>3. /\ Goes(s, After(c), b) /\ flag' = flag \cup {<<b, c>>}
        /\ reminded' = reminded /\ lost' = lost
    BY <1>4 DEF MarkReminder
  <2>4. /\ tick'[s].step = After(c) /\ tick'[s].booking = b
        /\ tick'[s].todo = tick[s].todo \ {b} /\ tick'[s].read = tick[s].read
    BY <1>0, <2>1, <2>2, <2>3, GoesTo
  <2>5. \A n \in Notes : MayRemind(s, n)' => MayRemind(s, n)
    <3>1. c = "whatsapp" => tick[s].step = "mark whatsapp"
      BY <2>1, MarkingIs
    <3> QED
      BY <3>1, <2>1, <2>4 DEF MayRemind, StillToCome, After
  <2>6. \A n \in Notes : Unrecorded(s, n) => n \in flag'
    BY <2>3 DEF Unrecorded
  <2> QED
    BY <1>0, <2>3, <2>5, <2>6, RoundCount, RemindersKept
<1>5. ASSUME Marking(s) # "none", Forget(s), reminded' = reminded, flag' = flag,
             \A n \in Notes : MayRemind(s, n)' => MayRemind(s, n)
      PROVE  RemindersCounted'
  <2>0. PICK note : note = <<tick[s].booking, Marking(s)>>
    OBVIOUS
  <2>1. note \in Notes
    BY <1>0, <1>5, <2>0, MarkingIs, TickParts DEF Notes, Channels
  <2>2. lost' = [lost EXCEPT ![note] = @ + 1]
    BY <1>5, <2>0 DEF Forget
  <2>3. \A n \in Notes \ {note} : ~Unrecorded(s, n)
    BY <2>0 DEF Unrecorded
  <2>4. \A n \in Notes \ {note} : RemindedBy(n) \subseteq RemindedBy(n)'
    BY <1>0, <1>5, <2>3, RoundCount
  <2>5. RemindedBy(note) \ {s} \subseteq RemindedBy(note)'
    <3> SUFFICES ASSUME NEW q \in RemindedBy(note), q # s PROVE q \in RemindedBy(note)'
      OBVIOUS
    <3>1. q \in Schedulers
      BY DEF RemindedBy
    <3> QED
      BY <3>1, <2>1, <1>0, <1>5, OthersStayCounted
  <2> QED
    BY <1>5, <2>1, <2>2, <2>4, <2>5, ReminderLost
<1>6. CASE MarkFails(s)
  <2> DEFINE b == tick[s].booking
             c == Marking(s)
  <2>1. c \in {"whatsapp", "email"} /\ tick[s].step \in {"mark whatsapp", "mark email"}
        /\ After(c) \in Steps
    BY <1>6, MarkingIs DEF MarkFails, After, Steps
  <2>2. tick[s] # Quiet /\ b \in Bookings
    BY <1>0, <2>1, TickParts
  <2>3. /\ tick'[s].step = After(c) /\ tick'[s].booking = b
        /\ tick'[s].todo = tick[s].todo \ {b} /\ tick'[s].read = tick[s].read
    BY <1>0, <1>6, <2>1, <2>2, GoesTo DEF MarkFails
  <2>4. \A n \in Notes : MayRemind(s, n)' => MayRemind(s, n)
    <3>1. c = "whatsapp" => tick[s].step = "mark whatsapp"
      BY <2>1, MarkingIs
    <3> QED
      BY <3>1, <2>1, <2>3 DEF MayRemind, StillToCome, After
  <2> QED
    BY <1>5, <1>6, <2>4 DEF MarkFails
<1>7. CASE Stop(s)
  <2>1. tick'[s].step = "idle" /\ flag' = flag /\ reminded' = reminded
    BY <1>0, <1>7 DEF Stop, NoticeTypeOK, Quiet
  <2>2. \A n \in Notes : MayRemind(s, n)' => MayRemind(s, n)
    BY <2>1 DEF MayRemind
  <2>3. CASE Marking(s) = "none"
    <3>1. lost' = lost
      BY <1>7, <2>3 DEF Stop, Forget
    <3>2. \A n \in Notes : ~Unrecorded(s, n)
      BY <2>3, MarkingIs DEF Unrecorded
    <3> QED
      BY <1>0, <2>1, <2>2, <3>1, <3>2, RoundCount, RemindersKept
  <2>4. CASE Marking(s) # "none"
    BY <1>5, <1>7, <2>1, <2>2, <2>4 DEF Stop
  <2> QED
    BY <2>3, <2>4
<1> QED
  BY <1>1, <1>2, <1>3, <1>4, <1>6, <1>7

\* Steps that leave the schedulers alone.
LEMMA NoticeOtherCount ==
    ASSUME NoticeInv, IsFiniteSet(Schedulers),
           tick' = tick, flag \subseteq flag', reminded' = reminded, lost' = lost
    PROVE  RemindersCounted'
<1>1. ASSUME NEW n \in Notes PROVE RemindedBy(n) \subseteq RemindedBy(n)'
  <2> SUFFICES ASSUME NEW q \in RemindedBy(n) PROVE q \in RemindedBy(n)'
    OBVIOUS
  <2>1. q \in Schedulers
    BY DEF RemindedBy
  <2> QED
    BY <2>1, OthersStayCounted
<1> QED
  BY <1>1, RemindersKept

\* A row of a blast writes to an address that is not struck off, and strikes
\* it off.
LEMMA BlastRowOnce ==
    ASSUME NoticeInv, NEW a \in Accounts, NEW delivered \in SUBSET {Phone[a], Email[a]},
           BlastRow(a, delivered)
    PROVE  blast' \in Sending /\ posted' \in [Address -> Nat] /\ StruckOffWhenPosted'
<1> USE DEF NoticeInv
<1>1. blast \in Sending
  BY DEF NoticeTypeOK, BlastRow, Quiet
<1>2. {Phone[a], Email[a]} \subseteq Address
  BY DEF Address
<1>3. blast'.sent = blast.sent \cup {Phone[a], Email[a]} /\ blast' \in Sending
  <2>1. blast' = [blast EXCEPT !.todo = @ \ {a}, !.sent = @ \cup StrikesOff(a)]
    BY DEF BlastRow
  <2> QED
    BY <1>1, <1>2, <2>1 DEF Sending, StrikesOff
<1>4. \A x \in Address : posted'[x] = posted[x] + IF x \in delivered THEN 1 ELSE 0
  BY DEF BlastRow
<1>5. ASSUME NEW x \in Address
      PROVE  posted'[x] \in Nat /\ posted'[x] <= 1 /\ (x \notin blast'.sent => posted'[x] = 0)
  <2>1. posted[x] \in Nat /\ posted[x] <= 1 /\ (x \notin blast.sent => posted[x] = 0)
    BY <1>1 DEF NoticeTypeOK, StruckOffWhenPosted, Sending, Quiet
  <2>2. CASE x \in delivered
    <3>1. x \notin blast.sent
      BY <2>2 DEF BlastRow
    <3>2. x \in blast'.sent
      BY <2>2, <1>3
    <3> QED
      BY <3>1, <3>2, <2>1, <2>2, <1>4
  <2>3. CASE x \notin delivered
    BY <2>1, <2>3, <1>3, <1>4
  <2> QED
    BY <2>2, <2>3
<1>6. posted' \in [Address -> Nat]
  BY <1>5 DEF BlastRow
<1> QED
  BY <1>3, <1>5, <1>6 DEF StruckOffWhenPosted

\* Every step of the schedulers, the blast and the guests.
LEMMA NoticeStep == ASSUME NoticeInv, IsFiniteSet(Schedulers), NoticeNext PROVE NoticeInv'
<1>1. CASE \E s \in Schedulers :
             \/ Tick(s) \/ ChooseBooking(s) \/ SendReminder(s) \/ MarkReminder(s)
             \/ MarkFails(s) \/ Stop(s)
  BY <1>1, RoundStep, NoticeRoundCount DEF NoticeInv
<1>2. ASSUME tick' = tick, flag \subseteq flag', reminded' = reminded, lost' = lost,
             live' \subseteq Bookings, flag' \subseteq Notes,
             blast' \in {Quiet} \cup Sending, posted' \in [Address -> Nat],
             StruckOffWhenPosted'
      PROVE  NoticeInv'
  <2>1. RemindersCounted'
    BY <1>2, NoticeOtherCount
  <2>2. NoticeTypeOK' /\ TakenUpOnce'
    BY <1>2 DEF NoticeInv, NoticeTypeOK, TakenUpOnce
  <2> QED
    BY <1>2, <2>1, <2>2 DEF NoticeInv
<1>3. ASSUME NEW b \in Bookings, CancelReminded(b) PROVE NoticeInv'
  BY <1>2, <1>3 DEF CancelReminded, NoticeInv, NoticeTypeOK, StruckOffWhenPosted
<1>4. ASSUME NEW b \in Bookings, NEW c \in Channels, RemindByHand(b, c) PROVE NoticeInv'
  <2>1. <<b, c>> \in Notes
    BY DEF Notes
  <2> QED
    BY <1>2, <1>4, <2>1 DEF RemindByHand, NoticeInv, NoticeTypeOK, StruckOffWhenPosted
<1>5. CASE TimePasses
  BY <1>2, <1>5 DEF TimePasses, NoticeInv, NoticeTypeOK, StruckOffWhenPosted
<1>6. ASSUME NEW audience \in SUBSET Accounts, StartBlast(audience) PROVE NoticeInv'
  <2>1. blast' \in Sending
    BY <1>6 DEF StartBlast, Sending
  <2>2. posted' \in [Address -> Nat] /\ StruckOffWhenPosted'
    BY <1>6 DEF StartBlast, StruckOffWhenPosted
  <2> QED
    BY <1>2, <1>6, <2>1, <2>2 DEF StartBlast, NoticeInv, NoticeTypeOK
<1>7. ASSUME NEW a \in Accounts, NEW delivered \in SUBSET {Phone[a], Email[a]},
             BlastRow(a, delivered)
      PROVE  NoticeInv'
  BY <1>2, <1>7, BlastRowOnce DEF BlastRow, NoticeInv, NoticeTypeOK
<1>8. CASE EndBlast
  BY <1>2, <1>8 DEF EndBlast, NoticeInv, NoticeTypeOK, StruckOffWhenPosted
<1> QED
  BY <1>1, <1>3, <1>4, <1>5, <1>6, <1>7, <1>8 DEF NoticeNext, RemindNext, PromoteNext

\* The inductive invariant, for any finite number of schedulers.
THEOREM NoticeInvariant == ASSUME IsFiniteSet(Schedulers) PROVE NoticeSpec => []NoticeInv
<1>1. NoticeInit => NoticeInv
  <2> SUFFICES ASSUME NoticeInit PROVE NoticeInv
    OBVIOUS
  <2>1. NoticeTypeOK /\ TakenUpOnce /\ StruckOffWhenPosted
    BY DEF NoticeInit, NoticeTypeOK, TakenUpOnce, StruckOffWhenPosted, Quiet
  <2>2. RemindersCounted
    <3> SUFFICES ASSUME NEW n \in Notes
                 PROVE  reminded[n] <= lost[n] + Cardinality(RemindedBy(n))
      BY DEF RemindersCounted
    <3>1. RemindedBy(n) \in SUBSET Schedulers
      BY DEF RemindedBy
    <3>2. Cardinality(RemindedBy(n)) \in Nat
      BY <3>1, FS_Subset, FS_CardinalityType
    <3> QED
      BY <3>2 DEF NoticeInit
  <2> QED
    BY <2>1, <2>2 DEF NoticeInv
<1>2. NoticeInv /\ [NoticeNext]_noticeVars => NoticeInv'
  <2>1. ASSUME NoticeInv, NoticeNext PROVE NoticeInv'
    BY <2>1, NoticeStep
  <2>2. ASSUME NoticeInv, UNCHANGED noticeVars PROVE NoticeInv'
    BY <2>2 DEF noticeVars, NoticeInv, NoticeTypeOK, TakenUpOnce, RemindersCounted, RemindedBy,
                MayRemind, Unrecorded, Marking, StruckOffWhenPosted
  <2> QED
    BY <2>1, <2>2
<1> QED
  BY <1>1, <1>2, PTL DEF NoticeSpec

\* For any finite number of processes that tick past each other and any order of
\* their reads, sends and marks: one of them reminds a guest once on a channel at
\* most, but for the marks that failed; and a blast reaches an address once at
\* most (processReminders, PromoteEventToAllUsers).
THEOREM NobodyToldTwice == ASSUME IsFiniteSet(Schedulers) PROVE NoticeSpec => []ToldOnce
<1>1. NoticeInv => ToldOnce
  <2> SUFFICES ASSUME NoticeInv PROVE ToldOnce
    OBVIOUS
  <2>1. ASSUME NEW n \in Notes PROVE reminded[n] <= Cardinality(Schedulers) + lost[n]
    <3>1. RemindedBy(n) \in SUBSET Schedulers
      BY DEF RemindedBy
    <3>2. /\ Cardinality(RemindedBy(n)) \in Nat /\ Cardinality(Schedulers) \in Nat
          /\ Cardinality(RemindedBy(n)) <= Cardinality(Schedulers)
      BY <3>1, CountGrows
    <3>3. reminded[n] \in Nat /\ lost[n] \in Nat
          /\ reminded[n] <= lost[n] + Cardinality(RemindedBy(n))
      BY DEF NoticeInv, NoticeTypeOK, RemindersCounted
    <3> QED
      BY <3>2, <3>3
  <2>2. BlastReachesOnce
    BY DEF NoticeInv, StruckOffWhenPosted, BlastReachesOnce
  <2> QED
    BY <2>1, <2>2 DEF ToldOnce, RemindedOnce
<1> QED
  BY <1>1, NoticeInvariant, PTL

------------------------------------------------------------------------------
(* The assistant's conversations.                                          *)

ChatSteps == {"search", "generate", "read 1", "write 1", "read 2", "write 2", "trim", "cut"}
Asking    == [step : ChatSteps, of : Nat \ {0}, read : Nat]

ChatTypeOK ==
    /\ messages \in Seq(Nat) /\ current \in 0 .. Len(messages)
    /\ chat \in [Chats -> {NoOne} \cup Asking]
    /\ \A c \in Chats : chat[c] # NoOne => chat[c].of \in 1 .. Len(messages)

\* Whoever is past the write of the question looks at the length before leaving.
WillTrim(c, k) ==
    chat[c] # NoOne /\ chat[c].of = k /\ chat[c].step \in {"read 2", "write 2", "trim", "cut"}

LongIsTrimmed ==
    \A k \in 1 .. Len(messages) : messages[k] > MaxMemory => \E c \in Chats : WillTrim(c, k)

ChatInv == ChatTypeOK /\ LongIsTrimmed

\* A question under way: its conversation is there.
LEMMA AskingParts ==
    ASSUME ChatTypeOK, NEW c \in Chats, chat[c].step # "idle"
    PROVE  /\ chat[c] \in Asking /\ chat[c] # NoOne
           /\ chat[c].of \in 1 .. Len(messages) /\ chat[c].read \in Nat
           /\ messages[chat[c].of] \in Nat
<1>1. chat[c] # NoOne
  BY DEF NoOne
<1>2. chat[c] \in Asking /\ chat[c].of \in 1 .. Len(messages) /\ messages \in Seq(Nat)
  BY <1>1 DEF ChatTypeOK
<1>3. chat[c].read \in Nat
  BY <1>2 DEF Asking
<1>4. messages[chat[c].of] \in Nat
  BY <1>2
<1> QED
  BY <1>1, <1>2, <1>3, <1>4

\* A question that moves on in its conversation.
LEMMA GoesOn ==
    ASSUME ChatTypeOK, NEW c \in Chats, NEW step \in ChatSteps, NEW read \in Nat,
           chat[c].step # "idle", Goto(c, step, read)
    PROVE  /\ chat' = [chat EXCEPT ![c] = chat'[c]]
           /\ chat'[c] \in Asking /\ chat'[c] # NoOne /\ chat[c] # NoOne
           /\ chat'[c].of = chat[c].of /\ chat'[c].step = step
<1>1. chat[c] \in Asking /\ chat[c] # NoOne
  BY AskingParts
<1> DEFINE t == [chat[c] EXCEPT !.step = step, !.read = read]
<1>2. t \in Asking /\ t.of = chat[c].of /\ t.step = step
  BY <1>1 DEF Asking
<1>3. chat' = [chat EXCEPT ![c] = t] /\ chat'[c] = t
  BY DEF Goto, ChatTypeOK
<1>4. step # "idle"
  BY DEF ChatSteps
<1> HIDE DEF t
<1>5. t # NoOne
  BY <1>2, <1>4 DEF NoOne
<1> QED
  BY <1>1, <1>2, <1>3, <1>5

\* A question that moves on or leaves while no history changes.
LEMMA QuestionMoves ==
    ASSUME ChatInv, NEW c \in Chats, chat'[c] \in {NoOne} \cup Asking,
           chat' = [chat EXCEPT ![c] = chat'[c]], messages' = messages, current' = current,
           chat'[c] # NoOne => chat'[c].of = chat[c].of /\ chat[c] # NoOne,
           \A k \in 1 .. Len(messages) :
               WillTrim(c, k) /\ messages[k] > MaxMemory =>
                   chat'[c] # NoOne /\ chat'[c].step \in {"read 2", "write 2", "trim", "cut"}
    PROVE  ChatInv'
<1>0. ChatTypeOK /\ LongIsTrimmed /\ \A d \in Chats \ {c} : chat'[d] = chat[d]
  BY DEF ChatInv, ChatTypeOK
<1>1. ChatTypeOK'
  <2>1. chat' \in [Chats -> {NoOne} \cup Asking]
    BY <1>0 DEF ChatTypeOK
  <2>2. \A d \in Chats : chat'[d] # NoOne => chat'[d].of \in 1 .. Len(messages)
    BY <1>0 DEF ChatTypeOK
  <2> QED
    BY <1>0, <2>1, <2>2 DEF ChatTypeOK
<1>2. LongIsTrimmed'
  <2> SUFFICES ASSUME NEW k \in 1 .. Len(messages), messages[k] > MaxMemory
               PROVE  \E d \in Chats : WillTrim(d, k)'
    BY DEF LongIsTrimmed
  <2>1. PICK d \in Chats : WillTrim(d, k)
    BY <1>0 DEF LongIsTrimmed
  <2>2. CASE d = c
    BY <2>1, <2>2 DEF WillTrim
  <2>3. CASE d # c
    BY <1>0, <2>1, <2>3 DEF WillTrim
  <2> QED
    BY <2>2, <2>3
<1> QED
  BY <1>1, <1>2 DEF ChatInv

\* A history that is written at one place.
LEMMA OneHistoryChanges ==
    ASSUME NEW s \in Seq(Nat), NEW k \in 1 .. Len(s), NEW v \in Nat
    PROVE  LET t == [s EXCEPT ![k] = v] IN
           /\ t \in Seq(Nat) /\ Len(t) = Len(s) /\ t[k] = v
           /\ \A i \in 1 .. Len(s) : i # k => t[i] = s[i]
  OBVIOUS

\* A question that is answered leaves nothing too long behind it.
LEMMA QuestionLeaves ==
    ASSUME ChatInv, NEW c \in Chats, Leave(c), messages' = messages, current' = current,
           \A k \in 1 .. Len(messages) : ~(WillTrim(c, k) /\ messages[k] > MaxMemory)
    PROVE  ChatInv'
<1>1. chat' = [chat EXCEPT ![c] = chat'[c]] /\ chat'[c] = NoOne
  BY DEF Leave, ChatInv, ChatTypeOK
<1> QED
  BY <1>1, QuestionMoves

\* Every step of a question, of a conversation and of its expiry.
LEMMA ChatStep == ASSUME ChatInv, ChatNext PROVE ChatInv'
<1> USE DEF ChatInv
<1>0. MaxMemory \in Nat \ {0}
  BY KnowledgeAssumption DEF KnowledgeAssumption
<1>1. ASSUME NEW c \in Chats, AskQuestion(c) PROVE ChatInv'
  <2>1. chat[c] = NoOne
    BY <1>1 DEF AskQuestion
  <2>2. /\ messages' \in Seq(Nat) /\ current' \in 1 .. Len(messages')
        /\ Len(messages') >= Len(messages)
        /\ \A k \in 1 .. Len(messages) : messages'[k] = messages[k]
        /\ \A k \in 1 .. Len(messages') : k \notin 1 .. Len(messages) => messages'[k] = 0
    <3>1. CASE current = 0
      <4>1. messages' = Append(messages, 0) /\ current' = Len(messages')
        BY <1>1, <3>1 DEF AskQuestion
      <4> QED
        BY <4>1 DEF ChatTypeOK
    <3>2. CASE current # 0
      BY <1>1, <3>2 DEF AskQuestion, ChatTypeOK
    <3> QED
      BY <3>1, <3>2
  <2>3. chat' = [chat EXCEPT ![c] = [step |-> "search", of |-> current', read |-> 0]]
    BY <1>1 DEF AskQuestion
  <2>4. [step |-> "search", of |-> current', read |-> 0] \in Asking
    <3>1. current' \in Nat \ {0}
      BY <2>2
    <3> QED
      BY <3>1 DEF Asking, ChatSteps
  <2>5. ChatTypeOK'
    BY <2>2, <2>3, <2>4 DEF ChatTypeOK
  <2>6. LongIsTrimmed'
    <3> SUFFICES ASSUME NEW k \in 1 .. Len(messages'), messages'[k] > MaxMemory
                 PROVE  \E d \in Chats : WillTrim(d, k)'
      BY DEF LongIsTrimmed
    <3>1. k \in 1 .. Len(messages) /\ messages[k] > MaxMemory
      BY <1>0, <2>2
    <3>2. PICK d \in Chats : WillTrim(d, k)
      BY <3>1 DEF LongIsTrimmed
    <3>3. d # c /\ chat'[d] = chat[d]
      BY <2>1, <2>3, <3>2 DEF WillTrim, ChatTypeOK
    <3> QED
      BY <3>2, <3>3 DEF WillTrim
  <2> QED
    BY <2>5, <2>6
<1>2. ASSUME NEW c \in Chats, ChatFails(c) PROVE ChatInv'
  <2>1. \A k : ~WillTrim(c, k)
    BY <1>2 DEF ChatFails, WillTrim
  <2> QED
    BY <1>2, <2>1, QuestionLeaves DEF ChatFails
<1>3. ASSUME NEW c \in Chats, NEW step \in ChatSteps, NEW read \in Nat,
             chat[c].step # "idle", Goto(c, step, read), messages' = messages, current' = current,
             chat[c].step \in {"read 2", "write 2", "trim", "cut"} =>
                 step \in {"read 2", "write 2", "trim", "cut"}
      PROVE  ChatInv'
  <2>1. /\ chat' = [chat EXCEPT ![c] = chat'[c]]
        /\ chat'[c] \in Asking /\ chat'[c] # NoOne /\ chat[c] # NoOne
        /\ chat'[c].of = chat[c].of /\ chat'[c].step = step
    BY <1>3, GoesOn
  <2>2. \A k : WillTrim(c, k) => chat'[c].step \in {"read 2", "write 2", "trim", "cut"}
    BY <1>3, <2>1 DEF WillTrim
  <2> QED
    BY <1>3, <2>1, <2>2, QuestionMoves
<1>4. ASSUME NEW c \in Chats, SearchIndex(c) PROVE ChatInv'
  <2>1. PICK step \in {"read 1", "generate"} : Goto(c, step, 0)
    BY <1>4 DEF SearchIndex
  <2>2. step \in ChatSteps /\ chat[c].step = "search" /\ messages' = messages /\ current' = current
    BY <1>4 DEF SearchIndex, ChatSteps
  <2> QED
    BY <1>3, <2>1, <2>2
<1>5. ASSUME NEW c \in Chats, GenerateAnswer(c) PROVE ChatInv'
  <2>1. /\ Goto(c, "read 1", 0) /\ "read 1" \in ChatSteps
        /\ chat[c].step = "generate" /\ messages' = messages /\ current' = current
    BY <1>5 DEF GenerateAnswer, ChatSteps
  <2> QED
    BY <1>3, <2>1
<1>6. ASSUME NEW c \in Chats, ReadHistory(c) PROVE ChatInv'
  <2>1. chat[c].step \in {"read 1", "read 2"} /\ messages' = messages /\ current' = current
    BY <1>6 DEF ReadHistory
  <2>2. messages[chat[c].of] \in Nat
    BY <2>1, AskingParts
  <2>3. "write 1" \in ChatSteps /\ "write 2" \in ChatSteps
    BY DEF ChatSteps
  <2>4. CASE chat[c].step = "read 1" /\ Goto(c, "write 1", messages[chat[c].of])
    BY <1>3, <2>1, <2>2, <2>3, <2>4
  <2>5. CASE chat[c].step = "read 2" /\ Goto(c, "write 2", messages[chat[c].of])
    BY <1>3, <2>1, <2>2, <2>3, <2>5
  <2> QED
    BY <1>6, <2>4, <2>5 DEF ReadHistory
<1>7. ASSUME NEW c \in Chats, WriteHistory(c) PROVE ChatInv'
  <2>1. PICK to : to \in {"read 2", "trim"} /\ Goto(c, to, 0)
    BY <1>7 DEF WriteHistory
  <2>2. chat[c].step # "idle" /\ to \in ChatSteps
    BY <1>7, <2>1 DEF WriteHistory, ChatSteps
  <2>3. /\ chat' = [chat EXCEPT ![c] = chat'[c]]
        /\ chat'[c] \in Asking /\ chat'[c] # NoOne /\ chat[c] # NoOne
        /\ chat'[c].of = chat[c].of /\ chat'[c].step = to
    BY <2>1, <2>2, GoesOn
  <2>4. /\ \A d \in Chats \ {c} : chat'[d] = chat[d]
        /\ chat' \in [Chats -> {NoOne} \cup Asking]
    BY <2>3 DEF ChatTypeOK
  <2>5. chat[c].of \in 1 .. Len(messages) /\ chat[c].read \in Nat
    BY <2>2, AskingParts
  <2>6. /\ messages' \in Seq(Nat) /\ Len(messages') = Len(messages)
        /\ \A k \in 1 .. Len(messages) : k # chat[c].of => messages'[k] = messages[k]
    <3>1. messages' = [messages EXCEPT ![chat[c].of] = chat[c].read + 1]
      BY <1>7 DEF WriteHistory
    <3>2. chat[c].read + 1 \in Nat
      BY <2>5
    <3>3. messages \in Seq(Nat)
      BY DEF ChatTypeOK
    <3> QED
      BY <2>5, <3>1, <3>2, <3>3, OneHistoryChanges
  <2>7. ChatTypeOK'
    <3>1. \A d \in Chats : chat'[d] # NoOne => chat'[d].of \in 1 .. Len(messages')
      BY <2>3, <2>4, <2>5, <2>6 DEF ChatTypeOK
    <3>2. current' = current
      BY <1>7 DEF WriteHistory
    <3> QED
      BY <2>4, <2>6, <3>1, <3>2 DEF ChatTypeOK
  <2>8. LongIsTrimmed'
    <3> SUFFICES ASSUME NEW k \in 1 .. Len(messages), messages'[k] > MaxMemory
                 PROVE  \E d \in Chats : WillTrim(d, k)'
      BY <2>6 DEF LongIsTrimmed
    <3>1. CASE k = chat[c].of
      <4>1. WillTrim(c, k)'
        BY <3>1, <2>1, <2>3 DEF WillTrim
      <4> QED
        BY <4>1
    <3>2. CASE k # chat[c].of
      <4>1. PICK d \in Chats : WillTrim(d, k)
        BY <3>2, <2>6 DEF LongIsTrimmed
      <4>2. d # c
        BY <3>2, <4>1 DEF WillTrim
      <4> QED
        BY <4>1, <4>2, <2>4 DEF WillTrim
    <3> QED
      BY <3>1, <3>2
  <2> QED
    BY <2>7, <2>8
<1>8. ASSUME NEW c \in Chats, ReadToTrim(c) PROVE ChatInv'
  <2>1. chat[c].step = "trim" /\ messages' = messages /\ current' = current /\ "cut" \in ChatSteps
    BY <1>8 DEF ReadToTrim, ChatSteps
  <2>2. CASE TooLong(messages[chat[c].of])
    <3>1. Goto(c, "cut", 0)
      BY <1>8, <2>2 DEF ReadToTrim
    <3> QED
      BY <1>3, <2>1, <3>1
  <2>3. CASE ~TooLong(messages[chat[c].of])
    <3>1. Leave(c)
      BY <1>8, <2>3 DEF ReadToTrim
    <3>2. \A k \in 1 .. Len(messages) : ~(WillTrim(c, k) /\ messages[k] > MaxMemory)
      BY <2>3 DEF WillTrim, TooLong
    <3> QED
      BY <2>1, <3>1, <3>2, QuestionLeaves
  <2> QED
    BY <2>2, <2>3
<1>10. ASSUME NEW c \in Chats, Trim(c) PROVE ChatInv'
  <2>1. chat[c].step = "cut" /\ Leave(c) /\ current' = current
    BY <1>10 DEF Trim
  <2>2. chat[c].of \in 1 .. Len(messages) /\ messages[chat[c].of] \in Nat
    BY <2>1, AskingParts
  <2>3. CASE messages' = [messages EXCEPT ![chat[c].of] = MaxMemory]
    <3> DEFINE of == chat[c].of
    <3>1. messages' \in Seq(Nat) /\ Len(messages') = Len(messages)
          /\ messages'[of] = MaxMemory
          /\ \A k \in 1 .. Len(messages) : k # of => messages'[k] = messages[k]
      <4>1. messages' = [messages EXCEPT ![of] = MaxMemory] /\ of \in 1 .. Len(messages)
            /\ messages \in Seq(Nat)
        BY <2>2, <2>3 DEF ChatTypeOK
      <4> HIDE DEF of
      <4> QED
        BY <1>0, <4>1
    <3>2. chat' = [chat EXCEPT ![c] = NoOne] /\ chat'[c] = NoOne
          /\ \A d \in Chats \ {c} : chat'[d] = chat[d]
      BY <2>1 DEF Leave, ChatTypeOK
    <3>3. ChatTypeOK'
      BY <2>1, <3>1, <3>2 DEF ChatTypeOK
    <3>4. LongIsTrimmed'
      <4> SUFFICES ASSUME NEW k \in 1 .. Len(messages), messages'[k] > MaxMemory
                   PROVE  \E d \in Chats : WillTrim(d, k)'
        BY <3>1 DEF LongIsTrimmed
      <4>1. k # of
        BY <1>0, <3>1
      <4>2. PICK d \in Chats : WillTrim(d, k)
        BY <4>1, <3>1 DEF LongIsTrimmed
      <4>3. d # c
        BY <4>1, <4>2 DEF WillTrim
      <4> QED
        BY <3>2, <4>2, <4>3 DEF WillTrim
    <3> QED
      BY <3>3, <3>4
  <2>4. CASE messages[chat[c].of] < MaxMemory /\ messages' = messages
    <3>1. \A k \in 1 .. Len(messages) : ~(WillTrim(c, k) /\ messages[k] > MaxMemory)
      <4> SUFFICES ASSUME NEW k \in 1 .. Len(messages), WillTrim(c, k), messages[k] > MaxMemory
                   PROVE  FALSE
        OBVIOUS
      <4>1. messages[k] = messages[chat[c].of]
        BY DEF WillTrim
      <4> QED
        BY <1>0, <2>2, <2>4, <4>1
    <3> QED
      BY <2>1, <2>4, <3>1, QuestionLeaves
  <2> QED
    BY <1>10, <2>3, <2>4 DEF Trim
<1>11. ASSUME ClearConversation PROVE ChatInv'
  <2>1. /\ current \in 1 .. Len(messages) /\ messages' = [messages EXCEPT ![current] = 0]
        /\ current' = current /\ chat' = chat
    BY <1>11 DEF ClearConversation, ChatTypeOK
  <2>2. messages' \in Seq(Nat) /\ Len(messages') = Len(messages)
        /\ messages'[current] = 0
        /\ \A k \in 1 .. Len(messages) : k # current => messages'[k] = messages[k]
    BY <2>1 DEF ChatTypeOK
  <2>3. ChatTypeOK'
    BY <2>1, <2>2 DEF ChatTypeOK
  <2>4. LongIsTrimmed'
    <3> SUFFICES ASSUME NEW k \in 1 .. Len(messages), messages'[k] > MaxMemory
                 PROVE  \E d \in Chats : WillTrim(d, k)'
      BY <2>2 DEF LongIsTrimmed
    <3>1. k # current
      BY <1>0, <2>2
    <3>2. PICK d \in Chats : WillTrim(d, k)
      BY <3>1, <2>2 DEF LongIsTrimmed
    <3> QED
      BY <2>1, <3>2 DEF WillTrim
  <2> QED
    BY <2>3, <2>4
<1>12. ASSUME DeleteConversation PROVE ChatInv'
  <2>1. messages' = messages /\ chat' = chat /\ current' = 0
    BY <1>12 DEF DeleteConversation
  <2>2. ChatTypeOK'
    BY <2>1 DEF ChatTypeOK
  <2>3. LongIsTrimmed'
    BY <2>1 DEF LongIsTrimmed, WillTrim
  <2> QED
    BY <2>2, <2>3
<1> QED
  BY <1>1, <1>2, <1>4, <1>5, <1>6, <1>7, <1>8, <1>10, <1>11, <1>12 DEF ChatNext

\* The inductive invariant: a history that is too long has someone behind it who
\* will look at its length and cut it.
THEOREM ChatInvariant == KnowledgeSpec => []ChatInv
<1>1. KnowledgeInit => ChatInv
  BY DEF KnowledgeInit, ChatInv, ChatTypeOK, LongIsTrimmed
<1>2. ChatInv /\ [KnowledgeNext]_kbVars => ChatInv'
  <2>1. ASSUME ChatInv, UNCHANGED <<current, messages, chat>> PROVE ChatInv'
    BY <2>1 DEF ChatInv, ChatTypeOK, LongIsTrimmed, WillTrim
  <2>2. ASSUME IngestNext PROVE UNCHANGED <<current, messages, chat>>
    BY <2>2 DEF IngestNext, StoreDocument, DeleteDocument, StartIngest, ChunkDocuments, FinishIngest,
                LoadEvents, LoadHosts, LoadUsers, LoadBlogs, LoadDocuments, Load, EmbedChunk,
                UpsertBatch
  <2> QED
    BY <2>1, <2>2, ChatStep DEF KnowledgeNext, kbVars
<1> QED
  BY <1>1, <1>2, PTL DEF KnowledgeSpec

\* For any number of questions asked at once in one conversation, which read and
\* write its history past each other: once nobody is asking, it holds no more
\* than MaxMemory messages (Chat in internal/lib/rag/rag.go).
THEOREM HistoryAlwaysBounded == KnowledgeSpec => []HistoryBounded
<1>1. ChatInv => HistoryBounded
  <2> SUFFICES ASSUME ChatInv, NEW k \in 1 .. Len(messages),
                      \A c \in Chats : chat[c] = NoOne \/ chat[c].of # k
               PROVE  messages[k] <= MaxMemory
    BY DEF HistoryBounded
  <2>1. ~(messages[k] > MaxMemory)
    BY DEF ChatInv, LongIsTrimmed, WillTrim
  <2>2. messages[k] \in Nat /\ MaxMemory \in Nat
    BY KnowledgeAssumption DEF ChatInv, ChatTypeOK, KnowledgeAssumption
  <2> QED
    BY <2>1, <2>2
<1> QED
  BY <1>1, ChatInvariant, PTL

------------------------------------------------------------------------------
(* People and their rows.                                                  *)

\* The uid of a row that a sign-up has taken over, or made.
Signed(r) == <<"firebase", EmailOf[r]>>

Uids == {<<>>} \cup {NewUid(v) : v \in Visits} \cup {Signed(v) : v \in Visits}

VisitSteps == {"new", "coded", "proved", "creating", "claiming", "issuing", "done"}
VisitRecords ==
    [pc : VisitSteps, row : Visits \cup {NoVisit}, uid : Uids, born : Nat, knew : SUBSET Visits]

AccountsTypeOK ==
    /\ users \in [Visits -> [uid : Uids, born : Nat]]
    /\ visit \in [Visits -> VisitRecords]
    /\ claimed \subseteq Visits /\ instant \in Nat
    /\ \A t \in tokens : t.row \in Visits /\ t.uid \in Uids

\* A row that is being made is not there, and gets a stamp.
MakesOneRow ==
    \A v \in Visits :
        /\ visit[v].pc \in {"new", "coded", "proved", "creating", "claiming"} => users[v] = NoUser
        /\ visit[v].pc = "creating" => visit[v].born > 0

\* auth_uid is UNIQUE.
UidsUnique == \A r, s \in Rows : users[r].uid = users[s].uid => r = s

\* A row keeps the uid it was made with until a sign-up claims it; only a
\* placeholder is claimed, and only by its own e-mail.
RowsKeepTheirUid ==
    /\ \A r \in Rows : users[r].uid = IF r \in claimed THEN Signed(r) ELSE NewUid(r)
    /\ \A r \in claimed : r \in Rows /\ Way[r] \in {"login", "admin"}
    /\ \A v \in Visits : visit[v].pc = "claiming" =>
           /\ Way[v] = "signup"
           /\ visit[v].row \in Rows /\ EmailOf[visit[v].row] = EmailOf[v]
           /\ Way[visit[v].row] \in {"login", "admin"}

\* Nobody but a sign-up makes a row next to one of the same phone that was there.
KnewNoSamePhone ==
    \A v \in Visits : Way[v] # "signup" => \A r \in visit[v].knew : ~SamePhone(v, r)

\* The uid is the row's, or was before a sign-up claimed it.
Leads(uid, r) ==
    r \in Rows /\ (uid = users[r].uid \/ (r \in claimed /\ uid = NewUid(r)))

TokensLead ==
    /\ \A t \in tokens : Leads(t.uid, t.row)
    /\ \A v \in Visits : visit[v].pc = "issuing" => Leads(visit[v].uid, visit[v].row)

AccountsInv ==
    /\ AccountsTypeOK /\ MakesOneRow /\ UidsUnique /\ RowsKeepTheirUid /\ KnewNoSamePhone /\ TokensLead

\* The uids of the ways in are told apart by their first part.
LEMMA UidKinds ==
    ASSUME NEW v \in Visits
    PROVE  /\ NewUid(v) # <<>> /\ Signed(v) # <<>>
           /\ Signed(v)[1] = "firebase"
           /\ Way[v] = "signup" => NewUid(v) = Signed(v)
           /\ Way[v] = "walkin" => NewUid(v)[1] = "walkin"
           /\ Way[v] \in {"login", "admin"} =>
                 /\ NewUid(v)[1] = "phone" /\ NewUid(v)[2].number = PhoneOf[v].number
           /\ Way[v] \in {"signup", "login", "admin", "walkin"}
<1>1. Way[v] \in {"signup", "login", "admin", "walkin"}
  BY AccountsAssumption DEF AccountsAssumption
<1>2. Signed(v)[1] = "firebase" /\ Signed(v) # <<>>
  BY DEF Signed
<1>3. Normal(PhoneOf[v]).number = PhoneOf[v].number
  BY AccountsAssumption DEF AccountsAssumption, Normal
<1>4. CASE Way[v] = "signup"
  BY <1>2, <1>4 DEF NewUid, Signed
<1>5. CASE Way[v] = "walkin"
  <2>1. NewUid(v) = <<"walkin", v>>
    BY <1>5 DEF NewUid
  <2> QED
    BY <1>2, <1>5, <2>1
<1>6. CASE Way[v] = "admin"
  <2>1. NewUid(v) = <<"phone", Normal(PhoneOf[v])>>
    BY <1>6 DEF NewUid
  <2> QED
    BY <1>2, <1>3, <1>6, <2>1
<1>7. CASE Way[v] = "login"
  <2>1. NewUid(v) = <<"phone", PhoneOf[v]>>
    BY <1>7 DEF NewUid
  <2> QED
    BY <1>2, <1>7, <2>1
<1> QED
  BY <1>1, <1>4, <1>5, <1>6, <1>7

\* No oldest row of a phone means no row of it.
LEMMA NoneByPhone ==
    ASSUME AccountsTypeOK, NEW v \in Visits, ByPhone(v) = {}
    PROVE  \A r \in Rows : ~SamePhone(v, r)
<1> SUFFICES ASSUME NEW q \in Rows, SamePhone(v, q) PROVE FALSE
  OBVIOUS
<1> DEFINE Same  == {r \in Rows : SamePhone(v, r)}
           Borns == {users[r].born : r \in Same}
<1>1. Borns \subseteq Nat /\ Borns # {}
  <2>1. \A r \in Rows : users[r].born \in Nat
    BY DEF AccountsTypeOK, Rows
  <2>2. users[q].born \in Borns
    OBVIOUS
  <2> QED
    BY <2>1, <2>2
<1>2. PICK least \in Borns : \A b \in Borns : least <= b
  BY <1>1, LeastIsLeast
<1>3. PICK r \in Same : least = users[r].born
  BY <1>2
<1>4. r \in ByPhone(v)
  BY <1>2, <1>3 DEF ByPhone
<1> QED
  BY <1>4

\* A row is of a visit that has made it.
LEMMA RowIsThere ==
    ASSUME AccountsTypeOK, NEW r \in Rows
    PROVE  r \in Visits /\ users[r] # NoUser
  BY DEF Rows

\* A visit that moves on, and neither writes a row nor gives a token.
LEMMA VisitMoves ==
    ASSUME AccountsInv, NEW v \in Visits, NEW pc \in VisitSteps,
           UNCHANGED <<users, claimed, tokens>>, instant' \in Nat,
           visit' = [visit EXCEPT ![v] = visit'[v]],
           visit'[v] \in VisitRecords,
           visit'[v].pc = pc,
           pc \in {"new", "coded", "proved", "creating", "claiming"} => users[v] = NoUser,
           pc = "creating" => visit'[v].born > 0,
           pc = "claiming" => /\ Way[v] = "signup"
                              /\ visit'[v].row \in Rows /\ EmailOf[visit'[v].row] = EmailOf[v]
                              /\ Way[visit'[v].row] \in {"login", "admin"},
           pc = "issuing" => Leads(visit'[v].uid, visit'[v].row),
           Way[v] # "signup" => \A r \in visit'[v].knew : ~SamePhone(v, r)
    PROVE  AccountsInv'
<1> USE DEF AccountsInv
<1>0. \A w \in Visits \ {v} : visit'[w] = visit[w]
  BY DEF AccountsTypeOK
<1>1. AccountsTypeOK'
  BY DEF AccountsTypeOK
<1>2. Rows' = Rows
  BY DEF Rows
<1>3. MakesOneRow'
  BY <1>0 DEF MakesOneRow
<1>4. UidsUnique'
  BY <1>2 DEF UidsUnique
<1>5. RowsKeepTheirUid'
  BY <1>0, <1>2 DEF RowsKeepTheirUid
<1>6. KnewNoSamePhone'
  BY <1>0 DEF KnewNoSamePhone
<1>7. \A uid, r : Leads(uid, r)' <=> r \in Rows' /\ (uid = users'[r].uid \/ (r \in claimed' /\ uid = NewUid(r)))
  BY DEF Leads
<1>8. TokensLead'
  <2>1. \A t \in tokens' : Leads(t.uid, t.row)'
    BY <1>2, <1>7 DEF TokensLead, Leads
  <2>2. ASSUME NEW w \in Visits, visit'[w].pc = "issuing" PROVE Leads(visit'[w].uid, visit'[w].row)
    <3>1. CASE w = v
      BY <2>2, <3>1
    <3>2. CASE w # v
      BY <2>2, <3>2, <1>0 DEF TokensLead
    <3> QED
      BY <3>1, <3>2
  <2> QED
    BY <2>1, <2>2, <1>2 DEF TokensLead, Leads
<1> QED
  BY <1>1, <1>3, <1>4, <1>5, <1>6, <1>8

\* What a visit's record holds after each of the ways to move on.
LEMMA ProceedTo ==
    ASSUME AccountsTypeOK, NEW v \in Visits, NEW pc \in VisitSteps,
           Proceed(v, pc)
    PROVE  /\ visit' = [visit EXCEPT ![v] = visit'[v]]
           /\ visit'[v] \in VisitRecords
           /\ visit'[v].pc = pc /\ visit'[v].row = visit[v].row /\ visit'[v].uid = visit[v].uid
           /\ visit'[v].knew = visit[v].knew
<1>1. visit[v] \in VisitRecords
  BY DEF AccountsTypeOK
<1> DEFINE t == [visit[v] EXCEPT !.pc = pc]
<1>2. t \in VisitRecords /\ t.pc = pc /\ t.row = visit[v].row /\ t.uid = visit[v].uid
      /\ t.knew = visit[v].knew
  BY <1>1 DEF VisitRecords
<1>3. visit' = [visit EXCEPT ![v] = t] /\ visit'[v] = t
  BY DEF AccountsTypeOK, Proceed
<1> HIDE DEF t
<1> QED
  BY <1>2, <1>3

\* A visit that has found a row.
LEMMA FoundTo ==
    ASSUME AccountsTypeOK, NEW v \in Visits, NEW pc, NEW r \in Visits, NEW uid \in Uids,
           pc \in VisitSteps,
           Found(v, pc, r, uid)
    PROVE  /\ visit' = [visit EXCEPT ![v] = visit'[v]]
           /\ visit'[v] \in VisitRecords
           /\ visit'[v].pc = pc /\ visit'[v].row = r /\ visit'[v].uid = uid
           /\ visit'[v].knew = visit[v].knew
<1>1. visit[v] \in VisitRecords
  BY DEF AccountsTypeOK
<1> DEFINE t == [visit[v] EXCEPT !.pc = pc, !.row = r, !.uid = uid]
<1>2. t \in VisitRecords /\ t.pc = pc /\ t.row = r /\ t.uid = uid /\ t.knew = visit[v].knew
  BY <1>1 DEF VisitRecords
<1>3. visit' = [visit EXCEPT ![v] = t] /\ visit'[v] = t
  BY DEF AccountsTypeOK, Found
<1> HIDE DEF t
<1> QED
  BY <1>2, <1>3

\* A visit that will make a row: it has seen none of its phone.
LEMMA PrepareKept ==
    ASSUME AccountsInv, NEW v \in Visits, users[v] = NoUser, Prepare(v),
           Way[v] # "signup" => \A r \in Rows : ~SamePhone(v, r)
    PROVE  AccountsInv'
<1> DEFINE stamp == instant + 1
           t     == [visit[v] EXCEPT !.pc = "creating", !.born = stamp, !.knew = Rows]
<1>1. stamp \in Nat /\ stamp > 0 /\ Rows \in SUBSET Visits /\ "creating" \in VisitSteps
      /\ visit[v] \in VisitRecords
  <2>1. instant \in Nat /\ visit[v] \in VisitRecords
    BY DEF AccountsInv, AccountsTypeOK
  <2>2. Rows \in SUBSET Visits /\ "creating" \in VisitSteps
    BY DEF Rows, VisitSteps
  <2> QED
    BY <2>1, <2>2
<1>2. visit' = [visit EXCEPT ![v] = t] /\ visit'[v] = t
      /\ UNCHANGED <<users, claimed, tokens>> /\ instant' = stamp
  BY DEF Prepare, AccountsInv, AccountsTypeOK
<1> HIDE DEF stamp
<1>3. t \in VisitRecords /\ t.pc = "creating" /\ t.born = stamp /\ t.knew = Rows
  BY <1>1 DEF VisitRecords
<1> HIDE DEF t
<1> QED
  BY <1>1, <1>2, <1>3, VisitMoves

\* A visit that has found its row, to log in or to claim it.
LEMMA MeetKept ==
    ASSUME AccountsInv, NEW v \in Visits, NEW r \in Rows, NEW pc, Meet(v, pc, r),
           pc \in {"claiming", "issuing", "done"},
           visit[v].pc \in {"new", "proved"},
           pc = "claiming" => /\ Way[v] = "signup" /\ EmailOf[r] = EmailOf[v]
                              /\ Way[r] \in {"login", "admin"}
    PROVE  AccountsInv'
<1>0. pc \in VisitSteps /\ pc \notin {"new", "coded", "proved", "creating"}
  BY DEF VisitSteps
<1>1. r \in Visits /\ users[r].uid \in Uids /\ users[v] = NoUser
  BY DEF Rows, AccountsInv, AccountsTypeOK, MakesOneRow
<1>2. Found(v, pc, r, users[r].uid) /\ UNCHANGED <<users, claimed, tokens, instant>>
  BY DEF Meet
<1>3. /\ visit' = [visit EXCEPT ![v] = visit'[v]]
      /\ visit'[v] \in VisitRecords
      /\ visit'[v].pc = pc /\ visit'[v].row = r /\ visit'[v].uid = users[r].uid
      /\ visit'[v].knew = visit[v].knew
  BY <1>0, <1>1, <1>2, FoundTo DEF AccountsInv
<1>4. Leads(visit'[v].uid, visit'[v].row)
  <2>1. visit'[v].row \in Rows /\ visit'[v].uid = users[visit'[v].row].uid
    BY <1>3, Zenon
  <2> QED
    BY <2>1, Zenon DEF Leads
<1>5. Way[v] # "signup" => \A q \in visit'[v].knew : ~SamePhone(v, q)
  BY <1>3 DEF AccountsInv, KnewNoSamePhone
<1>6. instant' \in Nat
  BY <1>2 DEF AccountsInv, AccountsTypeOK
<1> QED
  BY <1>0, <1>1, <1>2, <1>3, <1>4, <1>5, <1>6, VisitMoves

\* A visit that goes on and touches no row.
LEMMA ProceedKept ==
    ASSUME AccountsInv, NEW v \in Visits, NEW pc \in {"coded", "proved", "done"}, Proceed(v, pc),
           pc = "done" \/ users[v] = NoUser,
           UNCHANGED <<users, claimed, tokens, instant>>
    PROVE  AccountsInv'
<1>0. pc \in VisitSteps /\ pc \notin {"new", "creating", "claiming", "issuing"}
  BY DEF VisitSteps
<1>1. /\ visit' = [visit EXCEPT ![v] = visit'[v]]
      /\ visit'[v] \in VisitRecords
      /\ visit'[v].pc = pc /\ visit'[v].knew = visit[v].knew
  BY <1>0, ProceedTo DEF AccountsInv
<1>2. Way[v] # "signup" => \A q \in visit'[v].knew : ~SamePhone(v, q)
  BY <1>1 DEF AccountsInv, KnewNoSamePhone
<1>3. instant' \in Nat
  BY DEF AccountsInv, AccountsTypeOK
<1> QED
  BY <1>0, <1>1, <1>2, <1>3, VisitMoves

\* Create writes a row under a uid that no row has.
LEMMA CreateKept ==
    ASSUME AccountsInv, NEW v \in Visits, Create(v) PROVE AccountsInv'
<1> USE DEF AccountsInv
<1>0. visit[v].pc = "creating" /\ users[v] = NoUser /\ visit[v].born \in Nat /\ visit[v].born > 0
  <2>1. visit[v].pc = "creating" /\ visit[v] \in VisitRecords
    BY DEF Create, Visit, AccountsTypeOK
  <2> QED
    BY <2>1 DEF MakesOneRow, VisitRecords
<1>1. CASE ByUid(NewUid(v)) # {}
  BY <1>1, ProceedKept DEF Create
<1>2. CASE ByUid(NewUid(v)) = {}
  <2> DEFINE pc  == IF Way[v] = "login" THEN "issuing" ELSE "done"
             new == [uid |-> NewUid(v), born |-> visit[v].born]
  <2>1. users' = [users EXCEPT ![v] = new] /\ Found(v, pc, v, NewUid(v))
        /\ UNCHANGED <<claimed, tokens, verified, instant>>
    BY <1>2 DEF Create
  <2>2. new.uid = NewUid(v) /\ new # NoUser /\ new \in [uid : Uids, born : Nat]
    BY <1>0, UidKinds DEF NoUser, Uids
  <2>3. pc \in {"issuing", "done"} /\ pc \in VisitSteps
    BY DEF VisitSteps
  <2> HIDE DEF pc, new
  <2>4. /\ visit' = [visit EXCEPT ![v] = visit'[v]]
        /\ visit'[v] \in VisitRecords
        /\ visit'[v].pc = pc /\ visit'[v].row = v /\ visit'[v].uid = NewUid(v)
        /\ visit'[v].knew = visit[v].knew
    <3>1. NewUid(v) \in Uids
      BY DEF Uids
    <3> QED
      BY <3>1, <2>1, <2>3, FoundTo
  <2>5. \A w \in Visits \ {v} : visit'[w] = visit[w] /\ users'[w] = users[w]
    BY <2>1, <2>4 DEF AccountsTypeOK
  <2>6. users'[v] = new /\ Rows' = Rows \cup {v} /\ v \notin Rows
    BY <1>0, <2>1, <2>2 DEF AccountsTypeOK, Rows
  <2>7. AccountsTypeOK'
    BY <2>1, <2>2, <2>4 DEF AccountsTypeOK
  <2>8. MakesOneRow'
    BY <2>3, <2>4, <2>5 DEF MakesOneRow
  <2>9. UidsUnique'
    <3> SUFFICES ASSUME NEW r \in Rows', NEW s \in Rows', users'[r].uid = users'[s].uid
                 PROVE  r = s
      BY DEF UidsUnique
    <3>1. \A q \in Rows : users[q].uid # NewUid(v)
      BY <1>2 DEF ByUid
    <3>2. r \in Visits /\ s \in Visits
      BY DEF Rows
    <3> QED
      BY <2>2, <2>5, <2>6, <3>1, <3>2 DEF UidsUnique
  <2>10. v \notin claimed
    BY <2>6 DEF RowsKeepTheirUid
  <2>11. RowsKeepTheirUid'
    <3>1. \A r \in Rows' : users'[r].uid = IF r \in claimed' THEN Signed(r) ELSE NewUid(r)
      <4> SUFFICES ASSUME NEW r \in Rows'
                   PROVE  users'[r].uid = IF r \in claimed' THEN Signed(r) ELSE NewUid(r)
        OBVIOUS
      <4>1. CASE r = v
        BY <4>1, <2>1, <2>2, <2>6, <2>10
      <4>2. CASE r # v
        <5>1. r \in Visits /\ r \in Rows /\ users'[r] = users[r] /\ claimed' = claimed
          BY <4>2, <2>1, <2>5, <2>6 DEF Rows
        <5> QED
          BY <5>1 DEF RowsKeepTheirUid
      <4> QED
        BY <4>1, <4>2
    <3>2. \A r \in claimed' : r \in Rows' /\ Way[r] \in {"login", "admin"}
      BY <2>1, <2>6 DEF RowsKeepTheirUid
    <3>3. \A w \in Visits : visit'[w].pc = "claiming" =>
              /\ Way[w] = "signup"
              /\ visit'[w].row \in Rows' /\ EmailOf[visit'[w].row] = EmailOf[w]
              /\ Way[visit'[w].row] \in {"login", "admin"}
      BY <2>3, <2>4, <2>5, <2>6 DEF RowsKeepTheirUid
    <3> QED
      BY <3>1, <3>2, <3>3 DEF RowsKeepTheirUid
  <2>12. KnewNoSamePhone'
    BY <2>4, <2>5 DEF KnewNoSamePhone
  <2>13. \A uid, r : Leads(uid, r) => Leads(uid, r)'
    <3> SUFFICES ASSUME NEW uid, NEW r, Leads(uid, r) PROVE Leads(uid, r)'
      OBVIOUS
    <3>1. r \in Rows /\ r \in Visits /\ r # v
      BY <2>6 DEF Leads, Rows
    <3> QED
      BY <3>1, <2>1, <2>5, <2>6 DEF Leads
  <2>14. TokensLead'
    <3>1. \A t \in tokens' : Leads(t.uid, t.row)'
      BY <2>1, <2>13 DEF TokensLead
    <3>2. ASSUME NEW w \in Visits, visit'[w].pc = "issuing" PROVE Leads(visit[w].uid, visit[w].row)'
      <4>1. CASE w = v
        BY <4>1, <2>2, <2>4, <2>6 DEF Leads
      <4>2. CASE w # v
        <5>1. visit'[w] = visit[w]
          BY <4>2, <2>5
        <5>2. Leads(visit[w].uid, visit[w].row)
          BY <5>1, <3>2 DEF TokensLead
        <5>3. PICK uid, r : uid = visit[w].uid /\ r = visit[w].row
          OBVIOUS
        <5>4. Leads(uid, r)'
          BY <5>2, <5>3, <2>13
        <5> QED
          BY <5>1, <5>3, <5>4 DEF Leads
      <4> QED
        BY <4>1, <4>2
    <3> QED
      BY <3>1, <3>2 DEF TokensLead
  <2> QED
    BY <2>7, <2>8, <2>9, <2>11, <2>12, <2>14
<1> QED
  BY <1>1, <1>2

\* A sign-up takes over a row of its own e-mail, which gets or keeps its uid.
LEMMA ClaimKept ==
    ASSUME AccountsInv, NEW v \in Visits, Claim(v) PROVE AccountsInv'
<1> USE DEF AccountsInv
<1>0. PICK r : r = visit[v].row
  OBVIOUS
<1>1. /\ visit[v].pc = "claiming" /\ Way[v] = "signup" /\ r \in Rows /\ EmailOf[r] = EmailOf[v]
      /\ Way[r] \in {"login", "admin"} /\ r \in Visits /\ users[v] = NoUser
  BY <1>0 DEF Claim, Visit, RowsKeepTheirUid, MakesOneRow, Rows
<1>2. Proceed(v, "done") /\ UNCHANGED <<tokens, verified, instant>>
  BY DEF Claim
<1>3. CASE ~(ByUid(NewUid(v)) \subseteq {r})
  BY <1>0, <1>2, <1>3, ProceedKept DEF Claim
<1>4. CASE ByUid(NewUid(v)) \subseteq {r}
  <2>1. users' = [users EXCEPT ![r].uid = NewUid(v)] /\ claimed' = claimed \cup {r}
    BY <1>0, <1>4 DEF Claim
  <2>2. NewUid(v) = Signed(r) /\ Signed(r) \in Uids /\ Signed(r) # <<>>
    BY <1>1, UidKinds DEF Signed, Uids
  <2> DEFINE new == [users[r] EXCEPT !.uid = NewUid(v)]
  <2>3. users' = [users EXCEPT ![r] = new] /\ users'[r] = new
    BY <1>1, <2>1 DEF AccountsTypeOK
  <2>4. new \in [uid : Uids, born : Nat] /\ new.uid = Signed(r)
    <3>1. users[r] \in [uid : Uids, born : Nat]
      BY <1>1 DEF AccountsTypeOK
    <3> QED
      BY <2>2, <3>1
  <2> HIDE DEF new
  <2>5. new # NoUser
    BY <2>2, <2>4 DEF NoUser
  <2>6. \A w \in Visits \ {r} : users'[w] = users[w]
    BY <2>3 DEF AccountsTypeOK
  <2>7. Rows' = Rows
    BY <1>1, <2>3, <2>5, <2>6 DEF Rows
  <2>8. /\ visit' = [visit EXCEPT ![v] = visit'[v]] /\ visit'[v] \in VisitRecords
        /\ visit'[v].pc = "done" /\ visit'[v].knew = visit[v].knew
    BY <1>2, ProceedTo DEF VisitSteps
  <2>9. \A w \in Visits \ {v} : visit'[w] = visit[w]
    BY <2>8 DEF AccountsTypeOK
  <2>10. AccountsTypeOK'
    BY <1>1, <1>2, <2>1, <2>3, <2>4, <2>8 DEF AccountsTypeOK
  <2>11. MakesOneRow'
    <3>1. users[r] # NoUser
      BY <1>1 DEF Rows
    <3> QED
      BY <3>1, <2>6, <2>8, <2>9 DEF MakesOneRow
  <2>12. UidsUnique'
    <3> SUFFICES ASSUME NEW p \in Rows, NEW q \in Rows, users'[p].uid = users'[q].uid
                 PROVE  p = q
      BY <2>7 DEF UidsUnique
    <3>1. \A w \in Rows \ {r} : w \in Visits /\ users[w].uid # Signed(r)
      BY <1>4, <2>2 DEF ByUid, Rows
    <3> QED
      BY <3>1, <2>3, <2>4, <2>6 DEF UidsUnique
  <2>13. RowsKeepTheirUid'
    <3>1. ASSUME NEW q \in Rows' PROVE users'[q].uid = IF q \in claimed' THEN Signed(q) ELSE NewUid(q)
      <4>1. CASE q = r
        BY <4>1, <2>1, <2>3, <2>4
      <4>2. CASE q # r
        <5>1. q \in Rows /\ q \in Visits
          BY <2>7 DEF Rows
        <5> QED
          BY <4>2, <5>1, <2>1, <2>6 DEF RowsKeepTheirUid
      <4> QED
        BY <4>1, <4>2
    <3>2. \A q \in claimed' : q \in Rows' /\ Way[q] \in {"login", "admin"}
      BY <1>1, <2>1, <2>7 DEF RowsKeepTheirUid
    <3>3. \A w \in Visits : visit'[w].pc = "claiming" =>
              /\ Way[w] = "signup"
              /\ visit'[w].row \in Rows' /\ EmailOf[visit'[w].row] = EmailOf[w]
              /\ Way[visit'[w].row] \in {"login", "admin"}
      BY <2>7, <2>8, <2>9 DEF RowsKeepTheirUid
    <3> QED
      BY <3>1, <3>2, <3>3 DEF RowsKeepTheirUid
  <2>14. KnewNoSamePhone'
    BY <2>8, <2>9 DEF KnewNoSamePhone
  <2>15. ASSUME NEW uid, NEW q, Leads(uid, q) PROVE Leads(uid, q)'
    <3>1. q \in Rows /\ q \in Visits /\ q \in Rows'
      BY <2>7, <2>15 DEF Leads, Rows
    <3>2. CASE q = r
      <4>1. users[r].uid = IF r \in claimed THEN Signed(r) ELSE NewUid(r)
        BY <1>1 DEF RowsKeepTheirUid
      <4>2. uid = users'[r].uid \/ uid = NewUid(r)
        BY <4>1, <2>3, <2>4, <2>15, <3>2 DEF Leads
      <4> QED
        BY <3>1, <3>2, <4>2, <2>1 DEF Leads
    <3>3. CASE q # r
      BY <2>15, <3>1, <3>3, <2>1, <2>6 DEF Leads
    <3> QED
      BY <3>2, <3>3
  <2>16. TokensLead'
    <3>1. \A t \in tokens' : Leads(t.uid, t.row)'
      BY <1>2, <2>15 DEF TokensLead
    <3>2. ASSUME NEW w \in Visits, visit'[w].pc = "issuing" PROVE Leads(visit[w].uid, visit[w].row)'
      <4>1. visit'[w] = visit[w]
        BY <3>2, <2>8, <2>9
      <4>2. PICK uid, q : uid = visit[w].uid /\ q = visit[w].row
        OBVIOUS
      <4>3. Leads(uid, q)
        BY <4>1, <4>2, <3>2 DEF TokensLead
      <4>4. Leads(uid, q)'
        BY <4>3, <2>15
      <4> QED
        BY <4>1, <4>2, <4>4 DEF Leads
    <3> QED
      BY <3>1, <3>2 DEF TokensLead
  <2> QED
    BY <2>10, <2>11, <2>12, <2>13, <2>14, <2>16
<1> QED
  BY <1>3, <1>4

\* A token carries the uid that leads to its row.
LEMMA IssueKept ==
    ASSUME AccountsInv, NEW v \in Visits, IssueToken(v) PROVE AccountsInv'
<1> USE DEF AccountsInv
<1>1. visit[v].pc = "issuing" /\ Proceed(v, "done") /\ UNCHANGED <<users, claimed, instant>>
  BY DEF IssueToken, Visit
<1> DEFINE t == [uid |-> visit[v].uid, row |-> visit[v].row]
<1>2. tokens' = tokens \cup {t}
  BY DEF IssueToken
<1>3. Leads(t.uid, t.row)
  BY <1>1 DEF TokensLead
<1>4. t.row \in Visits /\ t.uid \in Uids
  <2>1. visit[v] \in VisitRecords
    BY DEF AccountsTypeOK
  <2> QED
    BY <1>3, <2>1 DEF Leads, Rows, VisitRecords
<1> HIDE DEF t
<1>5. /\ visit' = [visit EXCEPT ![v] = visit'[v]] /\ visit'[v] \in VisitRecords
      /\ visit'[v].pc = "done" /\ visit'[v].knew = visit[v].knew
  BY <1>1, ProceedTo DEF VisitSteps
<1>6. \A w \in Visits \ {v} : visit'[w] = visit[w]
  BY <1>5 DEF AccountsTypeOK
<1>7. AccountsTypeOK'
  BY <1>1, <1>2, <1>4, <1>5 DEF AccountsTypeOK
<1>8. Rows' = Rows
  BY <1>1 DEF Rows
<1>9. MakesOneRow'
  BY <1>1, <1>5, <1>6 DEF MakesOneRow
<1>10. UidsUnique'
  BY <1>1, <1>8 DEF UidsUnique
<1>11. RowsKeepTheirUid'
  BY <1>1, <1>5, <1>6, <1>8 DEF RowsKeepTheirUid
<1>12. KnewNoSamePhone'
  BY <1>5, <1>6 DEF KnewNoSamePhone
<1>13. ASSUME NEW uid, NEW q, Leads(uid, q) PROVE Leads(uid, q)'
  BY <1>1, <1>8, <1>13 DEF Leads
<1>14. TokensLead'
  <2>1. ASSUME NEW u \in tokens' PROVE Leads(u.uid, u.row)'
    <3>1. CASE u \in tokens
      BY <3>1, <1>13 DEF TokensLead
    <3>2. CASE u = t
      <4>1. PICK uid, q : uid = t.uid /\ q = t.row
        OBVIOUS
      <4>2. Leads(uid, q)'
        BY <1>3, <4>1, <1>13
      <4>3. Leads(u.uid, u.row)' <=> Leads(uid, q)'
        BY <3>2, <4>1 DEF Leads
      <4> QED
        BY <4>2, <4>3
    <3> QED
      BY <3>1, <3>2, <1>2
  <2>2. ASSUME NEW w \in Visits, visit'[w].pc = "issuing" PROVE Leads(visit[w].uid, visit[w].row)'
    <3>1. visit'[w] = visit[w]
      BY <2>2, <1>5, <1>6
    <3>2. PICK uid, q : uid = visit[w].uid /\ q = visit[w].row
      OBVIOUS
    <3>3. Leads(uid, q)
      BY <3>1, <3>2, <2>2 DEF TokensLead
    <3>4. Leads(uid, q)'
      BY <3>3, <1>13
    <3> QED
      BY <3>1, <3>2, <3>4 DEF Leads
  <2> QED
    BY <2>1, <2>2 DEF TokensLead
<1> QED
  BY <1>7, <1>9, <1>10, <1>11, <1>12, <1>14

\* Every step of every visit.
LEMMA AccountsStep == ASSUME AccountsInv, AccountsNext PROVE AccountsInv'
<1> PICK v \in Visits :
        \/ SignUp(v) \/ CreateUserByPhone(v) \/ FindOrCreateGuest(v)
        \/ SendLoginOTP(v) \/ VerifyOTP(v) \/ VerifyLoginOTP(v)
        \/ Create(v) \/ Claim(v) \/ IssueToken(v) \/ GiveUpVisit(v)
  BY DEF AccountsNext
<1>0. /\ visit[v].pc \in {"new", "coded", "proved"} => users[v] = NoUser
      /\ AccountsTypeOK
      /\ ByPhone(v) \subseteq Rows /\ ByEmail(v) \subseteq Rows
  BY DEF AccountsInv, MakesOneRow, ByPhone, ByEmail
<1>1. CASE SignUp(v)
  <2>1. visit[v].pc = "new" /\ Way[v] = "signup"
    BY <1>1 DEF SignUp, Visit
  <2>2. CASE ByEmail(v) = {} /\ Prepare(v)
    BY <1>0, <2>1, <2>2, PrepareKept
  <2>3. ASSUME NEW r \in ByEmail(v), Meet(v, IF Placeholder(r) THEN "claiming" ELSE "done", r)
        PROVE  AccountsInv'
    <3>1. r \in Rows /\ r \in Visits /\ EmailOf[r] = EmailOf[v]
      BY DEF ByEmail, Rows
    <3>2. Placeholder(r) => Way[r] \in {"login", "admin"}
      <4>1. users[r].uid = IF r \in claimed THEN Signed(r) ELSE NewUid(r)
        BY <3>1 DEF AccountsInv, RowsKeepTheirUid
      <4> QED
        BY <3>1, <4>1, UidKinds DEF Placeholder
    <3>3. CASE Placeholder(r)
      BY <2>1, <2>3, <3>1, <3>2, <3>3, MeetKept
    <3>4. CASE ~Placeholder(r)
      BY <2>1, <2>3, <3>1, <3>4, MeetKept
    <3> QED
      BY <3>3, <3>4
  <2> QED
    BY <1>1, <2>2, <2>3 DEF SignUp
<1>2. CASE CreateUserByPhone(v)
  <2>1. visit[v].pc = "new"
    BY <1>2 DEF CreateUserByPhone, Visit
  <2>2. CASE ByPhone(v) \cup ByEmail(v) = {} /\ Prepare(v)
    BY <1>0, <2>1, <2>2, NoneByPhone, PrepareKept
  <2>3. ASSUME NEW r \in ByPhone(v) \cup ByEmail(v), Meet(v, "done", r) PROVE AccountsInv'
    BY <1>0, <2>1, <2>3, MeetKept
  <2> QED
    BY <1>2, <2>2, <2>3 DEF CreateUserByPhone
<1>3. CASE FindOrCreateGuest(v)
  <2>1. visit[v].pc = "new"
    BY <1>3 DEF FindOrCreateGuest, Visit
  <2>2. CASE ByPhone(v) = {} /\ Prepare(v)
    BY <1>0, <2>1, <2>2, NoneByPhone, PrepareKept
  <2>3. ASSUME NEW r \in ByPhone(v), Meet(v, "done", r) PROVE AccountsInv'
    BY <1>0, <2>1, <2>3, MeetKept
  <2> QED
    BY <1>3, <2>2, <2>3 DEF FindOrCreateGuest
<1>4. CASE SendLoginOTP(v)
  <2>1. visit[v].pc = "new" /\ Proceed(v, "coded") /\ UNCHANGED <<users, claimed, tokens, instant>>
    BY <1>4 DEF SendLoginOTP, Visit
  <2> QED
    BY <1>0, <2>1, ProceedKept
<1>5. CASE VerifyOTP(v)
  <2>1. PICK pc \in {"proved", "done"} : Proceed(v, pc)
    BY <1>5 DEF VerifyOTP
  <2>2. visit[v].pc = "coded" /\ UNCHANGED <<users, claimed, tokens, instant>>
    BY <1>5 DEF VerifyOTP, Visit
  <2> QED
    BY <1>0, <2>1, <2>2, ProceedKept
<1>6. CASE VerifyLoginOTP(v)
  <2>1. visit[v].pc = "proved"
    BY <1>6 DEF VerifyLoginOTP, Visit
  <2>2. CASE ByPhone(v) = {} /\ Prepare(v)
    BY <1>0, <2>1, <2>2, NoneByPhone, PrepareKept
  <2>3. ASSUME NEW r \in ByPhone(v), Meet(v, "issuing", r) PROVE AccountsInv'
    BY <1>0, <2>1, <2>3, MeetKept
  <2> QED
    BY <1>6, <2>2, <2>3 DEF VerifyLoginOTP
<1>7. CASE GiveUpVisit(v)
  <2>1. Proceed(v, "done") /\ UNCHANGED <<users, claimed, tokens, instant>>
    BY <1>7 DEF GiveUpVisit
  <2> QED
    BY <2>1, ProceedKept
<1> QED
  BY <1>1, <1>2, <1>3, <1>4, <1>5, <1>6, <1>7, CreateKept, ClaimKept, IssueKept

\* The inductive invariant of telephone login, sign-up and walk-in registration.
THEOREM AccountsInvariant == AccountsSpec => []AccountsInv
<1>1. AccountsInit => AccountsInv
  <2> SUFFICES ASSUME AccountsInit PROVE AccountsInv
    OBVIOUS
  <2>1. Rows = {}
    BY DEF AccountsInit, Rows
  <2>2. AccountsTypeOK
    BY DEF AccountsInit, AccountsTypeOK, NoUser, Waiting, Uids, VisitRecords, VisitSteps
  <2>3. \A v \in Visits : visit[v].pc = "new" /\ visit[v].knew = {} /\ users[v] = NoUser
    BY DEF AccountsInit, Waiting
  <2>4. claimed = {} /\ tokens = {}
    BY DEF AccountsInit
  <2> QED
    BY <2>1, <2>2, <2>3, <2>4
    DEF AccountsInv, MakesOneRow, UidsUnique, RowsKeepTheirUid, KnewNoSamePhone, TokensLead
<1>2. AccountsInv /\ [AccountsNext]_acVars => AccountsInv'
  <2>1. ASSUME AccountsInv, UNCHANGED acVars PROVE AccountsInv'
    BY <2>1 DEF acVars, AccountsInv, AccountsTypeOK, MakesOneRow, UidsUnique, RowsKeepTheirUid,
                KnewNoSamePhone, TokensLead, Leads, Rows
  <2> QED
    BY <2>1, AccountsStep
<1> QED
  BY <1>1, <1>2, PTL DEF AccountsSpec

\* For any number of people who sign up, log in, are registered at the door or by
\* an administrator at the same time: a phone has a second row only where two
\* were made past each other or by a sign-up, and a token leads to its row until
\* a sign-up claims it (internal/service/user_service.go).
THEOREM PeopleAlwaysKeepTheirRows == AccountsSpec => []PeopleKeepTheirRows
<1>1. AccountsInv => PeopleKeepTheirRows
  <2> SUFFICES ASSUME AccountsInv PROVE PeopleKeepTheirRows
    OBVIOUS
  <2>1. \A r \in Rows : r \in Visits
    BY DEF Rows
  <2>2. ASSUME NEW r \in Visits, NEW s \in Visits, SamePhone(r, s),
               Way[r] # "signup", Way[s] # "signup"
        PROVE  Overlapped(r, s)
    <3>1. s \notin visit[r].knew
      BY <2>2 DEF AccountsInv, KnewNoSamePhone
    <3>2. SamePhone(s, r)
      BY <2>2 DEF SamePhone
    <3>3. r \notin visit[s].knew
      BY <2>2, <3>2 DEF AccountsInv, KnewNoSamePhone
    <3> QED
      BY <3>1, <3>3 DEF Overlapped
  <2>3. OneRowPerPhone
    BY <2>1, <2>2 DEF OneRowPerPhone
  <2>4. TokenKeepsItsRow
    <3> SUFFICES ASSUME NEW t \in tokens
                 PROVE  \/ ByUid(t.uid) = {t.row}
                        \/ /\ t.row \in claimed
                           /\ \A r \in ByUid(t.uid) : SamePhone(r, t.row) /\ Overlapped(r, t.row)
      BY DEF TokenKeepsItsRow
    <3>1. Leads(t.uid, t.row) /\ t.row \in Rows
      BY DEF AccountsInv, TokensLead, Leads
    <3>2. CASE t.uid = users[t.row].uid
      BY <3>1, <3>2 DEF AccountsInv, UidsUnique, ByUid
    <3>3. CASE t.row \in claimed /\ t.uid = NewUid(t.row)
      <4>1. Way[t.row] \in {"login", "admin"} /\ t.row \in Visits
        BY <3>3, <2>1 DEF AccountsInv, RowsKeepTheirUid
      <4>2. ASSUME NEW r \in ByUid(t.uid)
            PROVE  SamePhone(r, t.row) /\ Overlapped(r, t.row)
        <5>1. r \in Rows /\ r \in Visits /\ users[r].uid = NewUid(t.row)
          BY <2>1, <3>3 DEF ByUid
        <5>2. users[r].uid = IF r \in claimed THEN Signed(r) ELSE NewUid(r)
          BY <5>1 DEF AccountsInv, RowsKeepTheirUid
        <5>3. NewUid(t.row)[1] = "phone" /\ NewUid(t.row)[2].number = PhoneOf[t.row].number
          BY <4>1, UidKinds
        <5>4. NewUid(r) = NewUid(t.row)
          BY <5>1, <5>2, <5>3, UidKinds
        <5>5. Way[r] \in {"login", "admin"}
          BY <5>1, <5>3, <5>4, UidKinds
        <5>6. SamePhone(r, t.row)
          BY <5>1, <5>3, <5>4, <5>5, UidKinds DEF SamePhone
        <5> QED
          BY <2>2, <4>1, <5>1, <5>5, <5>6
      <4> QED
        BY <3>3, <4>2
    <3> QED
      BY <3>1, <3>2, <3>3 DEF Leads
  <2> QED
    BY <2>3, <2>4 DEF PeopleKeepTheirRows
<1> QED
  BY <1>1, AccountsInvariant, PTL

------------------------------------------------------------------------------
(* Imported bookings.                                                      *)

RowStatuses == {"pending", "success", "failed"}
Reasons == {"none", "unreadable", "repeated", "quantity", "tiered", "duplicate", "full",
            "code used up", "changed", "rejected", "timeout", "booked"}
RowRecords == [guest : Guests, quantity : Nat, status : RowStatuses, reason : Reasons]
Tables == UNION {[DOMAIN file -> RowRecords] : file \in Files}

NewJob == [status |-> "none"]
JobStatuses == {"pending", "processing", "completed", "failed"}
Modes == {"free", "coupon", "offline"}
JobRecords == [status : JobStatuses, mode : Modes, code : BOOLEAN, success : Nat, failed : Nat]

Listing == [step : {"list"}, job : Jobs]
Checking == [step : {"row"}, job : Jobs, todo : SUBSET Nat]
Answering == [step : {"book", "mark"}, job : Jobs, todo : SUBSET Nat, outcome : Reasons]
BookingStatuses == {"confirmed", "cancelled"}
BookingRecords == [guest : Guests, quantity : Nat, status : BookingStatuses]

ImportTypeOK ==
    /\ job \in [Jobs -> {NewJob} \cup JobRecords]
    /\ DOMAIN rows = Jobs
    /\ \A j \in Jobs : Started(j) => job[j] \in JobRecords /\ rows[j] \in Tables
    /\ old \subseteq Jobs
    /\ tasks \in [Jobs -> Nat] /\ begun \in [Jobs -> Nat]
    /\ worker \in [Workers -> {Idle} \cup Listing \cup Checking \cup Answering]
    /\ \A k \in DOMAIN booking : booking[k] \in BookingRecords

Worked(p, j) == worker[p] # Idle /\ worker[p].job = j

\* A job nobody uploaded is nowhere, and one nobody began is nobody's; until a
\* second worker begins a job, one worker has it.
Schedule ==
    /\ \A j \in Jobs : ~Started(j) => tasks[j] = 0 /\ begun[j] = 0
    /\ \A j \in Jobs, p \in Workers : Worked(p, j) => Started(j) /\ begun[j] > 0
    /\ \A j \in Jobs, p, q \in Workers : begun[j] <= 1 /\ Worked(p, j) /\ Worked(q, j) => p = q

\* The booking of a line.
Has(j, i) == <<"row", j, i>> \in DOMAIN booking
Matches(j, i) ==
    /\ Has(j, i)
    /\ booking[<<"row", j, i>>].guest = rows[j][i].guest
    /\ booking[<<"row", j, i>>].quantity = rows[j][i].quantity

\* What the lines of a job say.
LinesTrue(j) ==
    /\ job[j].success = Cardinality(RowsIn(rows[j], "success"))
    /\ job[j].failed = Cardinality(RowsIn(rows[j], "failed"))
    /\ \A i \in DOMAIN rows[j] :
           /\ rows[j][i].status = "success" => Matches(j, i)
           /\ rows[j][i].status = "failed" /\ begun[j] <= 1 =>
                  ~Has(j, i) \/ rows[j][i].reason = "timeout"

\* What a worker's answer and the lines it still has before it say.
AnswerIs(p, i) == worker[p].step = "mark" /\ worker[p].outcome = "booked" /\ i = Row(p)
TimedOut(p, i) == worker[p].step = "mark" /\ worker[p].outcome = "timeout" /\ i = Row(p)

RowsTrue(p, j) ==
    /\ worker[p].todo \subseteq DOMAIN rows[j]
    /\ worker[p].step # "row" => worker[p].todo # {}
    /\ \A i \in worker[p].todo :
           /\ AnswerIs(p, i) => Matches(j, i)
           /\ begun[j] <= 1 => /\ rows[j][i].status = "pending"
                               /\ AnswerIs(p, i) \/ TimedOut(p, i) \/ ~Has(j, i)

\* Before it has listed them, none has a booking, if it is the first.
WorkTrue(p, j) ==
    /\ worker[p].step = "list" /\ begun[j] <= 1 => \A i \in DOMAIN rows[j] : ~Has(j, i)
    /\ worker[p].step # "list" => RowsTrue(p, j)

ImportLines ==
    /\ \A j \in Jobs : begun[j] = 0 => \A i \in Nat : ~Has(j, i)
    /\ \A j \in Jobs : Started(j) => LinesTrue(j)
    /\ \A j \in Jobs, p \in Workers : Worked(p, j) => WorkTrue(p, j)

ImportInv == ImportTypeOK /\ Schedule /\ ImportLines

------------------------------------------------------------------------------

\* The lines of a table are finitely many numbers.
LEMMA TableLines ==
    ASSUME NEW table \in Tables
    PROVE  /\ DOMAIN table \subseteq Nat /\ IsFiniteSet(DOMAIN table)
           /\ table \in [DOMAIN table -> RowRecords]
<1>1. PICK file \in Files : table \in [DOMAIN file -> RowRecords]
  BY DEF Tables
<1>2. Len(file) \in Nat /\ DOMAIN table = 1 .. Len(file)
  BY <1>1, ImportAssumption DEF ImportAssumption
<1>3. IsFiniteSet(1 .. Len(file))
  BY <1>2, FS_Interval
<1> QED
  BY <1>1, <1>2, <1>3

\* What a line holds.
LEMMA RowParts ==
    ASSUME NEW row \in RowRecords
    PROVE  /\ row.guest \in Guests /\ row.quantity \in Nat
           /\ row.status \in RowStatuses /\ row.reason \in Reasons
  BY DEF RowRecords

\* What a job holds.
LEMMA JobParts ==
    ASSUME NEW r \in JobRecords
    PROVE  /\ r.status \in JobStatuses /\ r.mode \in Modes /\ r.code \in BOOLEAN
           /\ r.success \in Nat /\ r.failed \in Nat
           /\ r.status # "none"
  BY DEF JobRecords, JobStatuses

\* A worker that has a job.
LEMMA WorkerParts ==
    ASSUME ImportTypeOK, NEW p \in Workers
    PROVE  /\ worker[p] # Idle <=> worker[p].step # "idle"
           /\ worker[p].step = "list" => worker[p] \in Listing
           /\ worker[p].step = "row" => worker[p] \in Checking
           /\ worker[p].step \in {"book", "mark"} => worker[p] \in Answering
           /\ worker[p] # Idle => /\ worker[p].step \in {"list", "row", "book", "mark"}
                                  /\ worker[p].job \in Jobs /\ Worked(p, worker[p].job)
           /\ worker[p].step \in {"row", "book", "mark"} => worker[p].todo \in SUBSET Nat
<1>1. worker[p] \in {Idle} \cup Listing \cup Checking \cup Answering
  BY DEF ImportTypeOK
<1>2. CASE worker[p] = Idle
  <2>1. worker[p].step = "idle"
    BY <1>2 DEF Idle
  <2> QED
    BY <1>2, <2>1
<1>3. CASE worker[p] \in Checking
  <2>1. worker[p].step = "row" /\ worker[p].job \in Jobs /\ worker[p].todo \in SUBSET Nat
    BY <1>3 DEF Checking
  <2>2. worker[p] # Idle
    BY <2>1 DEF Idle
  <2> QED
    BY <1>3, <2>1, <2>2 DEF Worked
<1>4. CASE worker[p] \in Answering
  <2>1. worker[p].step \in {"book", "mark"} /\ worker[p].job \in Jobs /\ worker[p].todo \in SUBSET Nat
    BY <1>4 DEF Answering
  <2>2. worker[p] # Idle
    BY <2>1 DEF Idle
  <2> QED
    BY <1>4, <2>1, <2>2 DEF Worked
<1>5. CASE worker[p] \in Listing
  <2>1. worker[p].step = "list" /\ worker[p].job \in Jobs
    BY <1>5 DEF Listing
  <2>2. worker[p] # Idle
    BY <2>1 DEF Idle
  <2> QED
    BY <1>5, <2>1, <2>2 DEF Worked
<1> QED
  BY <1>1, <1>2, <1>3, <1>4, <1>5

\* The line a worker is at is one of those before it.
LEMMA RowIsAhead ==
    ASSUME ImportTypeOK, NEW p \in Workers, worker[p].step \in {"row", "book", "mark"},
           worker[p].todo # {}
    PROVE  Row(p) \in worker[p].todo
  BY WorkerParts, LeastExists DEF Row

\* The keys of two lines, and of a line and a registration at the door.
LEMMA KeysDiffer ==
    ASSUME NEW j, NEW i, NEW k, NEW n, NEW w
    PROVE  /\ <<"row", j, i>> = <<"row", k, n>> => j = k /\ i = n
           /\ <<"row", j, i>> # <<"door", w>>
<1>1. <<"row", j, i>>[1] = "row" /\ <<"door", w>>[1] = "door"
  OBVIOUS
<1> QED
  BY <1>1

\* A spreadsheet that is read makes a table, none of whose lines is booked.
LEMMA ParseIsTable ==
    ASSUME NEW file \in Files
    PROVE  /\ Parse(file) \in Tables
           /\ RowsIn(Parse(file), "success") = {}
<1>1. ASSUME NEW i \in DOMAIN file
      PROVE  /\ Parse(file)[i] \in RowRecords
             /\ Parse(file)[i].status # "success"
  <2>1. file[i].phone \in Guests
    BY DEF Guests
  <2>2. file[i].quantity \in Nat
    BY ImportAssumption DEF ImportAssumption
  <2> DEFINE reason == Complaint(file, i)
             status == IF reason = "none" THEN "pending" ELSE "failed"
  <2>3. reason \in Reasons
    BY DEF Complaint, Reasons
  <2>4. status \in RowStatuses /\ status # "success"
    BY DEF RowStatuses
  <2>5. Parse(file)[i] = [guest |-> file[i].phone, quantity |-> file[i].quantity,
                          status |-> status, reason |-> reason]
    BY DEF Parse
  <2> HIDE DEF reason, status
  <2> QED
    BY <2>1, <2>2, <2>3, <2>4, <2>5 DEF RowRecords
<1>2. DOMAIN Parse(file) = DOMAIN file /\ Parse(file) = [i \in DOMAIN file |-> Parse(file)[i]]
  BY DEF Parse
<1>3. Parse(file) \in [DOMAIN file -> RowRecords]
  BY <1>1, <1>2
<1> QED
  BY <1>1, <1>2, <1>3 DEF Tables, RowsIn

\* Lines that are in one state are finitely many.
LEMMA LinesAreFinite ==
    ASSUME NEW table \in Tables, NEW status
    PROVE  IsFiniteSet(RowsIn(table, status)) /\ Cardinality(RowsIn(table, status)) \in Nat
<1>1. IsFiniteSet(DOMAIN table) /\ RowsIn(table, status) \subseteq DOMAIN table
  BY TableLines DEF RowsIn
<1> QED
  BY <1>1, FS_Subset, FS_CardinalityType

------------------------------------------------------------------------------

\* What a report under way has read: no more than has been counted since.
ReportRead ==
    report # Closed =>
        /\ report.job \in Jobs /\ Started(report.job)
        /\ report.success \in Nat /\ report.success <= job[report.job].success
        /\ report.failed \in Nat /\ report.failed <= job[report.job].failed

\* The report says what the lines say.
LEMMA LinesMakeReport ==
    ASSUME ImportInv, ReportRead
    PROVE  ReportIsTrue
<1> SUFFICES ASSUME report # Closed
             PROVE  LET j       == report.job
                        summary == Summary(report, rows[j])
                        results == Results(rows[j])
                        Key(i)  == <<"row", j, i>>
                        Lines(label) == {i \in DOMAIN results : results[i] = label}
                        made == {i \in DOMAIN results : Key(i) \in DOMAIN booking}
                        booked == Cardinality(Lines("Booked"))
                        failed == Cardinality(Lines("Not booked"))
                    IN  /\ \A i \in Lines("Booked") :
                               /\ i \in made
                               /\ booking[Key(i)].guest = rows[j][i].guest
                               /\ booking[Key(i)].quantity = rows[j][i].quantity
                        /\ \A i \in Lines("Not booked") \cap made :
                               rows[j][i].reason = "timeout" \/ begun[j] > 1
                        /\ summary.booked <= booked /\ summary.failed <= failed
                        /\ job[j].success = report.success /\ job[j].failed = report.failed =>
                               summary.booked = booked /\ summary.failed = failed
                        /\ summary.collected <=
                               SumFunctionOnSet([i \in made |-> booking[Key(i)].quantity], made)
  BY DEF ReportIsTrue
<1> DEFINE j == report.job
           line == rows[j]
           summary == Summary(report, line)
           results == Results(line)
           Key(i) == <<"row", j, i>>
           Lines(label) == {i \in DOMAIN results : results[i] = label}
           made == {i \in DOMAIN results : Key(i) \in DOMAIN booking}
           taken == [i \in made |-> booking[Key(i)].quantity]
           seats == [i \in DOMAIN line |-> line[i].quantity]
           sold == RowsIn(line, "success")
<1>0. /\ j \in Jobs /\ Started(j)
      /\ report.success \in Nat /\ report.success <= job[j].success
      /\ report.failed \in Nat /\ report.failed <= job[j].failed
  BY DEF ReportRead
<1>1. line \in Tables /\ LinesTrue(j) /\ begun[j] \in Nat
  BY <1>0 DEF ImportInv, ImportTypeOK, ImportLines
<1>2. DOMAIN line \subseteq Nat /\ IsFiniteSet(DOMAIN line) /\ line \in [DOMAIN line -> RowRecords]
  BY <1>1, TableLines
<1>3. \A i \in DOMAIN line : line[i].status \in RowStatuses /\ line[i].quantity \in Nat
  BY <1>2, RowParts
<1>4. results = [i \in DOMAIN line |-> Label(line[i].status)]
  BY DEF Results
<1>5. DOMAIN results = DOMAIN line
  BY <1>4
<1>6. Lines("Booked") = sold /\ Lines("Not booked") = RowsIn(line, "failed")
  BY <1>3, <1>4, <1>5 DEF Label, RowsIn, RowStatuses
<1>7. \A i \in sold : Matches(j, i) /\ i \in made
  BY <1>1, <1>5 DEF LinesTrue, RowsIn, Matches, Has
<1>8. \A i \in Lines("Not booked") \cap made : line[i].reason = "timeout" \/ begun[j] > 1
  <2>1. \A i \in RowsIn(line, "failed") : begun[j] <= 1 => ~Has(j, i) \/ line[i].reason = "timeout"
    BY <1>1 DEF LinesTrue, RowsIn
  <2>2. begun[j] <= 1 \/ begun[j] > 1
    BY <1>1
  <2> QED
    BY <1>6, <2>1, <2>2 DEF Has
<1>9. summary.booked = report.success /\ summary.failed = report.failed
      /\ summary.collected = IF job[j].mode = "offline" THEN BookedSeats(line) ELSE 0
  BY DEF Summary
<1>10. BookedSeats(line) <= SumFunctionOnSet(taken, made) /\ 0 <= SumFunctionOnSet(taken, made)
  <2>1. made \subseteq DOMAIN line /\ IsFiniteSet(made)
    BY <1>2, <1>5, FS_Subset
  <2>2. sold \in SUBSET made /\ IsFiniteSet(sold)
    BY <1>7, <2>1, FS_Subset
  <2>3. \A i \in made : taken[i] \in Nat
    BY DEF ImportInv, ImportTypeOK, BookingRecords
  <2>4. \A i \in sold : seats[i] = taken[i]
    BY <1>7 DEF RowsIn, Matches
  <2>5. BookedSeats(line) = SumFunctionOnSet(seats, sold)
    BY DEF BookedSeats
  <2> HIDE DEF taken, seats, made, sold, line
  <2>6. SumFunctionOnSet(seats, sold) = SumFunctionOnSet(taken, sold)
    BY <2>2, <2>4, SumSame
  <2>7. SumFunctionOnSet(taken, sold) <= SumFunctionOnSet(taken, made)
    BY <2>1, <2>2, <2>3, SumSubset
  <2>8. SumFunctionOnSet(taken, made) \in Nat
    BY <2>1, <2>3, SumNat
  <2> QED
    BY <2>5, <2>6, <2>7, <2>8
<1>11. summary.collected <= SumFunctionOnSet(taken, made)
  <2> HIDE DEF summary, taken, made, line
  <2> QED
    BY <1>9, <1>10
<1>12. Cardinality(Lines("Booked")) = job[j].success /\ Cardinality(Lines("Not booked")) = job[j].failed
  BY <1>1, <1>6 DEF LinesTrue
<1>13. \A i \in Lines("Booked") :
           /\ i \in made
           /\ booking[Key(i)].guest = rows[j][i].guest
           /\ booking[Key(i)].quantity = rows[j][i].quantity
  BY <1>6, <1>7 DEF Matches
<1>14. /\ summary.booked <= Cardinality(Lines("Booked"))
       /\ summary.failed <= Cardinality(Lines("Not booked"))
       /\ job[j].success = report.success /\ job[j].failed = report.failed =>
              /\ summary.booked = Cardinality(Lines("Booked"))
              /\ summary.failed = Cardinality(Lines("Not booked"))
  <2> HIDE DEF summary, results, j
  <2> QED
    BY <1>0, <1>9, <1>12
<1> QED
  BY <1>8, <1>11, <1>13, <1>14
------------------------------------------------------------------------------

\* Who works on what, when one worker does something.
LEMMA OthersWorkOn ==
    ASSUME ImportTypeOK, NEW p \in Workers, NEW to,
           worker' = [worker EXCEPT ![p] = to]
    PROVE  /\ worker'[p] = to
           /\ \A q \in Workers : \A j : q # p => worker'[q] = worker[q] /\ (Worked(q, j)' <=> Worked(q, j))
<1>1. worker'[p] = to /\ \A q \in Workers : q # p => worker'[q] = worker[q]
  BY DEF ImportTypeOK
<1>2. \A q \in Workers : \A j : q # p => (Worked(q, j)' <=> Worked(q, j))
  BY <1>1 DEF Worked
<1> QED
  BY <1>1, <1>2

\* A step that hands out nothing, and after which nobody has taken a job up.
LEMMA ScheduleKept ==
    ASSUME Schedule, tasks' = tasks, begun' = begun,
           \A j \in Jobs : Started(j)' <=> Started(j),
           \A q \in Workers, j \in Jobs : Worked(q, j)' => Worked(q, j)
    PROVE  Schedule'
<1>1. \A j \in Jobs : Started(j)' <=> Started(j)
  OBVIOUS
<1>2. \A q \in Workers, j \in Jobs : Worked(q, j)' => Worked(q, j)
  OBVIOUS
<1>3. \A j \in Jobs : ~Started(j)' => tasks'[j] = 0 /\ begun'[j] = 0
  BY <1>1 DEF Schedule
<1>4. \A j \in Jobs, q \in Workers : Worked(q, j)' => Started(j)' /\ begun'[j] > 0
  BY <1>1, <1>2 DEF Schedule
<1>5. \A j \in Jobs, q, r \in Workers :
          begun'[j] <= 1 /\ Worked(q, j)' /\ Worked(r, j)' => q = r
  BY <1>2 DEF Schedule
<1> QED
  BY <1>3, <1>4, <1>5 DEF Schedule

\* The lines of a job depend on its table, its counters, how often it was
\* begun, and the bookings of its lines.
LEMMA LinesKept ==
    ASSUME NEW j \in Jobs, LinesTrue(j), rows'[j] = rows[j],
           job'[j].success = job[j].success, job'[j].failed = job[j].failed,
           begun'[j] = begun[j] \/ (begun[j] \in Nat /\ begun'[j] = begun[j] + 1),
           \A i \in DOMAIN rows[j] : Has(j, i)' <=> Has(j, i),
           \A i \in DOMAIN rows[j] : Matches(j, i) => Matches(j, i)'
    PROVE  LinesTrue(j)'
<1>1. \A i \in DOMAIN rows[j] : Has(j, i)' <=> Has(j, i)
  OBVIOUS
<1>2. \A i \in DOMAIN rows[j] : Matches(j, i) => Matches(j, i)'
  OBVIOUS
<1>3. begun'[j] <= 1 => begun[j] <= 1
  OBVIOUS
<1>4. PICK table : table = rows[j] /\ table = rows'[j]
  OBVIOUS
<1>5. /\ job'[j].success = Cardinality(RowsIn(table, "success"))
      /\ job'[j].failed = Cardinality(RowsIn(table, "failed"))
  BY <1>4 DEF LinesTrue
<1>6. \A i \in DOMAIN rows'[j] :
          /\ rows'[j][i].status = "success" => Matches(j, i)'
          /\ rows'[j][i].status = "failed" /\ begun'[j] <= 1 =>
                 ~Has(j, i)' \/ rows'[j][i].reason = "timeout"
  BY <1>1, <1>2, <1>3 DEF LinesTrue
<1> QED
  BY <1>4, <1>5, <1>6 DEF LinesTrue

\* And so does what is true of a worker that stays where it is.
LEMMA WorkKept ==
    ASSUME NEW p \in Workers, NEW j \in Jobs, WorkTrue(p, j), rows'[j] = rows[j],
           worker'[p] = worker[p], begun'[j] = begun[j],
           \A i \in DOMAIN rows[j] : Has(j, i)' <=> Has(j, i),
           \A i \in DOMAIN rows[j] : Matches(j, i) => Matches(j, i)'
    PROVE  WorkTrue(p, j)'
<1>1. \A i \in DOMAIN rows[j] : Has(j, i)' <=> Has(j, i)
  OBVIOUS
<1>2. \A i \in DOMAIN rows[j] : Matches(j, i) => Matches(j, i)'
  OBVIOUS
<1>3. \A i : (AnswerIs(p, i)' <=> AnswerIs(p, i)) /\ (TimedOut(p, i)' <=> TimedOut(p, i))
  BY DEF AnswerIs, TimedOut, Row
<1>4. worker[p].step # "list" => RowsTrue(p, j)'
  BY <1>1, <1>2, <1>3 DEF WorkTrue, RowsTrue
<1> QED
  BY <1>1, <1>4 DEF WorkTrue

\* A step that leaves the import's state alone, and the bookings of its lines.
LEMMA ImportStands ==
    ASSUME ImportInv, UNCHANGED <<jobs, tasks, worker>>,
           \A k \in DOMAIN booking' : booking'[k] \in BookingRecords,
           \A j \in Jobs : \A i : Has(j, i)' <=> Has(j, i),
           \A j \in Jobs : \A i : Has(j, i) =>
               /\ booking'[<<"row", j, i>>].guest = booking[<<"row", j, i>>].guest
               /\ booking'[<<"row", j, i>>].quantity = booking[<<"row", j, i>>].quantity
    PROVE  ImportInv'
<1> USE DEF jobs
<1>1. \A j \in Jobs : \A i : Has(j, i)' <=> Has(j, i)
  OBVIOUS
<1>2. \A j \in Jobs : \A i : Matches(j, i) => Matches(j, i)'
  BY <1>1 DEF Matches
<1>3. ImportTypeOK'
  BY DEF ImportInv, ImportTypeOK, Started
<1>4. Schedule'
  BY ScheduleKept DEF ImportInv, Started, Worked
<1>5. \A j \in Jobs : begun'[j] = 0 => \A i \in Nat : ~Has(j, i)'
  BY <1>1 DEF ImportInv, ImportLines
<1>6. \A j \in Jobs : Started(j)' => LinesTrue(j)'
  <2> TAKE j \in Jobs
  <2> HAVE Started(j)'
  <2>1. LinesTrue(j)
    BY DEF ImportInv, ImportLines, Started
  <2> QED
    BY <1>1, <1>2, <2>1, LinesKept
<1>7. \A j \in Jobs, p \in Workers : Worked(p, j)' => WorkTrue(p, j)'
  <2> TAKE j \in Jobs, p \in Workers
  <2> HAVE Worked(p, j)'
  <2>1. WorkTrue(p, j)
    BY DEF ImportInv, ImportLines, Worked
  <2> QED
    BY <1>1, <1>2, <2>1, WorkKept
<1> QED
  BY <1>3, <1>4, <1>5, <1>6, <1>7 DEF ImportInv, ImportLines

\* What happens at the door, short of a booking, is not seen by the import.
LEMMA DoorKept ==
    ASSUME ImportInv, UNCHANGED <<jobs, tasks, worker, booking>>
    PROVE  ImportInv'
<1>1. \A k \in DOMAIN booking' : booking'[k] \in BookingRecords
  BY DEF ImportInv, ImportTypeOK
<1>2. \A j \in Jobs : \A i : Has(j, i)' <=> Has(j, i)
  BY DEF Has
<1> QED
  BY <1>1, <1>2, ImportStands

\* CreateBooking adds the booking it is asked for, and no other.
LEMMA BookingMade ==
    ASSUME ImportTypeOK, NEW key, NEW g \in Guests, NEW n \in Nat, NEW comped, NEW waived,
           key \notin DOMAIN booking, CreateBooking(key, g, n, comped, waived)
    PROVE  /\ DOMAIN booking' = DOMAIN booking \cup {key}
           /\ \A k \in DOMAIN booking : booking'[k] = booking[k]
           /\ booking'[key].guest = g /\ booking'[key].quantity = n
           /\ \A k \in DOMAIN booking' : booking'[k] \in BookingRecords
<1> DEFINE new == [guest |-> g, quantity |-> n, status |-> "confirmed"]
<1>1. new \in BookingRecords /\ new.guest = g /\ new.quantity = n
  BY DEF BookingRecords, BookingStatuses
<1>2. booking' = [k \in DOMAIN booking \cup {key} |-> IF k = key THEN new ELSE booking[k]]
  BY DEF CreateBooking
<1>3. \A k \in DOMAIN booking : booking[k] \in BookingRecords
  BY DEF ImportTypeOK
<1> HIDE DEF new
<1> QED
  BY <1>1, <1>2, <1>3

\* A booking at the door is of no line.
LEMMA BookWalkInKept ==
    ASSUME ImportInv, NEW w \in WalkIns, BookWalkIn(w)
    PROVE  ImportInv'
<1> DEFINE key == <<"door", w>>
<1>1. UNCHANGED <<jobs, tasks, worker>>
  BY DEF BookWalkIn, process
<1>2. CASE booking' = booking
  BY <1>1, <1>2, DoorKept
<1>3. CASE booking' # booking
  <2>1. PICK comped :
            /\ CanBook(key, Party[w].guest, Party[w].quantity, comped, FALSE)
            /\ CreateBooking(key, Party[w].guest, Party[w].quantity, comped, FALSE)
    BY <1>3 DEF BookWalkIn, desk
  <2>2. Party[w].guest \in Guests /\ Party[w].quantity \in Nat /\ key \notin DOMAIN booking
    BY <2>1, ImportAssumption DEF ImportAssumption, Guests, CanBook
  <2>3. /\ DOMAIN booking' = DOMAIN booking \cup {key}
        /\ \A k \in DOMAIN booking : booking'[k] = booking[k]
        /\ \A k \in DOMAIN booking' : booking'[k] \in BookingRecords
    BY <2>1, <2>2, BookingMade DEF ImportInv
  <2>4. \A j \in Jobs : \A i : <<"row", j, i>> # key
    BY KeysDiffer
  <2> HIDE DEF key
  <2>5. \A j \in Jobs : \A i : Has(j, i)' <=> Has(j, i)
    BY <2>3, <2>4 DEF Has
  <2>6. \A j \in Jobs : \A i : Has(j, i) => booking'[<<"row", j, i>>] = booking[<<"row", j, i>>]
    BY <2>3 DEF Has
  <2> QED
    BY <1>1, <2>3, <2>5, <2>6, ImportStands
<1> QED
  BY <1>2, <1>3

\* A booking that is cancelled is still there, for its guest and its seats.
LEMMA CancelBookingKept ==
    ASSUME ImportInv, NEW k, CancelBooking(k)
    PROVE  ImportInv'
<1> DEFINE given == [booking[k] EXCEPT !.status = "cancelled"]
<1>1. k \in DOMAIN booking /\ booking[k] \in BookingRecords
  BY DEF ImportInv, ImportTypeOK, CancelBooking, Active
<1>2. given \in BookingRecords
      /\ given.guest = booking[k].guest /\ given.quantity = booking[k].quantity
  BY <1>1 DEF BookingRecords, BookingStatuses
<1>3. booking' = [booking EXCEPT ![k] = given]
  BY DEF CancelBooking
<1> HIDE DEF given
<1>4. DOMAIN booking' = DOMAIN booking
      /\ \A n \in DOMAIN booking : booking'[n] = IF n = k THEN given ELSE booking[n]
  BY <1>3
<1>5. \A n \in DOMAIN booking' : booking'[n] \in BookingRecords
  BY <1>2, <1>4 DEF ImportInv, ImportTypeOK
<1>6. \A n \in DOMAIN booking :
          booking'[n].guest = booking[n].guest /\ booking'[n].quantity = booking[n].quantity
  BY <1>2, <1>4
<1>7. \A j \in Jobs : \A i : Has(j, i)' <=> Has(j, i)
  BY <1>4 DEF Has
<1>8. UNCHANGED <<jobs, tasks, worker>>
  BY DEF CancelBooking, process
<1> QED
  BY <1>5, <1>6, <1>7, <1>8, ImportStands DEF Has

\* A job that is uploaded counts its wrong lines, and has booked none.
LEMMA StartImportKept ==
    ASSUME ImportInv, NEW j \in Jobs, NEW file \in Files, NEW comped \in BOOLEAN,
           NEW acknowledged, StartImport(j, file, comped, acknowledged)
    PROVE  ImportInv'
<1> DEFINE new == [status |-> "pending", mode |-> Mode(comped), code |-> comped, success |-> 0,
                   failed |-> Cardinality(RowsIn(Parse(file), "failed"))]
<1>1. PICK table : table = Parse(file)
  OBVIOUS
<1>2. table \in Tables /\ RowsIn(table, "success") = {}
  BY <1>1, ParseIsTable
<1>3. Cardinality(RowsIn(table, "failed")) \in Nat
  BY <1>2, LinesAreFinite
<1>4. Mode(comped) \in Modes
  BY DEF Mode, Modes
<1>5. new \in JobRecords /\ new.status = "pending" /\ new.success = 0
      /\ new.failed = Cardinality(RowsIn(table, "failed"))
  BY <1>1, <1>3, <1>4 DEF JobRecords, JobStatuses
<1>6. rows' = [rows EXCEPT ![j] = table] /\ job' = [job EXCEPT ![j] = new]
  BY <1>1 DEF StartImport, CreateJobWithRows
<1>7. ~Started(j) /\ tasks' = [tasks EXCEPT ![j] = 1]
      /\ UNCHANGED <<old, begun, worker, booking>>
  BY DEF StartImport, Started, desk
<1> HIDE DEF new
<1>8. /\ rows'[j] = table /\ job'[j] = new /\ DOMAIN rows' = Jobs
      /\ \A k \in Jobs : k # j => rows'[k] = rows[k] /\ job'[k] = job[k] /\ tasks'[k] = tasks[k]
      /\ Started(j)' /\ \A k \in Jobs : k # j => (Started(k)' <=> Started(k))
  BY <1>5, <1>6, <1>7 DEF ImportInv, ImportTypeOK, Started
<1>9. begun[j] = 0 /\ \A p \in Workers : ~Worked(p, j)
  BY <1>7 DEF ImportInv, Schedule
<1>10. ImportTypeOK'
  <2>1. job' \in [Jobs -> {NewJob} \cup JobRecords] /\ tasks' \in [Jobs -> Nat]
    BY <1>5, <1>6, <1>7 DEF ImportInv, ImportTypeOK
  <2>2. \A k \in Jobs : Started(k)' => job'[k] \in JobRecords /\ rows'[k] \in Tables
    BY <1>2, <1>5, <1>8 DEF ImportInv, ImportTypeOK
  <2> QED
    BY <1>7, <1>8, <2>1, <2>2 DEF ImportInv, ImportTypeOK
<1>11. \A k, p : Worked(p, k)' <=> Worked(p, k)
  BY <1>7 DEF Worked
<1>12. Schedule'
  BY <1>7, <1>8, <1>9, <1>11 DEF ImportInv, Schedule
<1>13. \A k, i : Has(k, i)' <=> Has(k, i)
  BY <1>7 DEF Has
<1>14. \A k \in Jobs : \A i : k # j => (Matches(k, i)' <=> Matches(k, i))
  BY <1>7, <1>8, <1>13 DEF Matches
<1>15. LinesTrue(j)'
  <2>1. Cardinality(RowsIn(table, "success")) = 0
    BY <1>2, FS_EmptySet
  <2>2. \A i \in DOMAIN table : table[i].status # "success"
    BY <1>2 DEF RowsIn
  <2>3. \A i \in DOMAIN table : ~Has(j, i)'
    BY <1>2, <1>9, <1>13, TableLines DEF ImportInv, ImportLines
  <2> QED
    BY <1>5, <1>8, <2>1, <2>2, <2>3 DEF LinesTrue
<1>16. \A k \in Jobs : Started(k)' => LinesTrue(k)'
  <2> TAKE k \in Jobs
  <2> HAVE Started(k)'
  <2>1. CASE k = j
    BY <1>15, <2>1
  <2>2. CASE k # j
    <3>1. LinesTrue(k)
      BY <1>8, <2>2 DEF ImportInv, ImportLines
    <3> QED
      BY <1>7, <1>8, <1>13, <1>14, <2>2, <3>1, LinesKept
  <2> QED
    BY <2>1, <2>2
<1>17. \A k \in Jobs, p \in Workers : Worked(p, k)' => WorkTrue(p, k)'
  <2> TAKE k \in Jobs, p \in Workers
  <2> HAVE Worked(p, k)'
  <2>1. WorkTrue(p, k) /\ k # j
    BY <1>9, <1>11 DEF ImportInv, ImportLines
  <2> QED
    BY <1>7, <1>8, <1>13, <1>14, <2>1, WorkKept
<1> QED
  BY <1>7, <1>10, <1>12, <1>13, <1>16, <1>17 DEF ImportInv, ImportLines

\* Once a second worker has begun a job, of one that stays where it is only its
\* answer has to be shown.
LEMMA SecondWorker ==
    ASSUME NEW q \in Workers, NEW j \in Jobs, WorkTrue(q, j), worker'[q] = worker[q],
           ~(begun'[j] <= 1), DOMAIN rows'[j] = DOMAIN rows[j],
           \A i \in DOMAIN rows[j] : Matches(j, i) => Matches(j, i)'
    PROVE  WorkTrue(q, j)'
<1>1. \A i : AnswerIs(q, i)' <=> AnswerIs(q, i)
  BY DEF AnswerIs, Row
<1>2. worker[q].step # "list" => RowsTrue(q, j)'
  BY <1>1 DEF WorkTrue, RowsTrue
<1> QED
  BY <1>2 DEF WorkTrue

\* A worker takes a job up: it is the first, or the counts allow for two.
LEMMA BeginJobKept ==
    ASSUME ImportInv, NEW p \in Workers, NEW j \in Jobs, BeginJob(p, j)
    PROVE  ImportInv'
<1> DEFINE put == [job[j] EXCEPT !.status = "processing"]
           to == [step |-> "list", job |-> j]
<1>1. Started(j) /\ tasks[j] > 0 /\ worker[p] = Idle
  BY DEF BeginJob, ImportInv, Schedule
<1>2. job[j] \in JobRecords /\ rows[j] \in Tables
  BY <1>1 DEF ImportInv, ImportTypeOK
<1>3. put \in JobRecords /\ put.status # "none"
      /\ put.success = job[j].success /\ put.failed = job[j].failed
  BY <1>2 DEF JobRecords, JobStatuses
<1>4. /\ job' = [job EXCEPT ![j] = put] /\ worker' = [worker EXCEPT ![p] = to]
      /\ tasks' = [tasks EXCEPT ![j] = tasks[j] - 1] /\ begun' = [begun EXCEPT ![j] = begun[j] + 1]
      /\ old' = old \ {j} /\ UNCHANGED <<rows, booking>>
  BY DEF BeginJob, ImportInv, ImportTypeOK, desk
<1>5. DOMAIN rows[j] \subseteq Nat
  BY <1>2, TableLines
<1>6. to \in Listing /\ to.step = "list" /\ to.job = j /\ to # Idle
  BY DEF Listing, Idle
<1> HIDE DEF put, to
<1>7. /\ worker'[p] = to
      /\ \A q \in Workers : \A k : q # p => worker'[q] = worker[q] /\ (Worked(q, k)' <=> Worked(q, k))
  BY <1>4, OthersWorkOn DEF ImportInv
<1>8. \A k \in Jobs : Started(k)' <=> Started(k)
  BY <1>1, <1>3, <1>4 DEF ImportInv, ImportTypeOK, Started
<1>9. \A k : Worked(p, k)' <=> k = j
  BY <1>6, <1>7 DEF Worked
<1>10. begun[j] \in Nat /\ begun'[j] = begun[j] + 1
       /\ \A k \in Jobs : k # j => begun'[k] = begun[k] /\ tasks'[k] = tasks[k] /\ job'[k] = job[k]
  BY <1>4 DEF ImportInv, ImportTypeOK
<1>11. job'[j] = put
  BY <1>4 DEF ImportInv, ImportTypeOK
<1>12. ImportTypeOK'
  <2>1. job' \in [Jobs -> {NewJob} \cup JobRecords]
    BY <1>3, <1>4 DEF ImportInv, ImportTypeOK
  <2>2. tasks' \in [Jobs -> Nat] /\ begun' \in [Jobs -> Nat]
    BY <1>1, <1>4 DEF ImportInv, ImportTypeOK
  <2>3. worker' \in [Workers -> {Idle} \cup Listing \cup Checking \cup Answering]
    BY <1>4, <1>6 DEF ImportInv, ImportTypeOK
  <2>4. \A k \in Jobs : Started(k)' => job'[k] \in JobRecords /\ rows'[k] \in Tables
    BY <1>3, <1>4, <1>8, <1>10, <1>11 DEF ImportInv, ImportTypeOK
  <2> QED
    BY <1>4, <2>1, <2>2, <2>3, <2>4 DEF ImportInv, ImportTypeOK
<1>13. Schedule'
  <2>1. \A k \in Jobs : ~Started(k)' => tasks'[k] = 0 /\ begun'[k] = 0
    BY <1>1, <1>4, <1>8, <1>10 DEF ImportInv, Schedule
  <2>2. \A k \in Jobs, q \in Workers : Worked(q, k)' => Started(k)' /\ begun'[k] > 0
    <3> TAKE k \in Jobs, q \in Workers
    <3> HAVE Worked(q, k)'
    <3>1. CASE q = p
      BY <1>1, <1>4, <1>8, <1>9, <1>10, <3>1
    <3>2. CASE q # p
      <4>1. Started(k) /\ begun[k] > 0
        BY <1>7, <3>2 DEF ImportInv, Schedule
      <4> QED
        BY <1>4, <1>8, <1>10, <4>1
    <3> QED
      BY <3>1, <3>2
  <2>3. \A k \in Jobs, q, r \in Workers :
            begun'[k] <= 1 /\ Worked(q, k)' /\ Worked(r, k)' => q = r
    <3> TAKE k \in Jobs, q, r \in Workers
    <3> HAVE begun'[k] <= 1 /\ Worked(q, k)' /\ Worked(r, k)'
    <3>1. CASE k = j
      <4>1. begun[j] = 0
        BY <1>10, <3>1
      <4>2. \A s \in Workers : ~Worked(s, j)
        BY <4>1 DEF ImportInv, Schedule
      <4> QED
        BY <1>7, <3>1, <4>2
    <3>2. CASE k # j
      <4>1. q # p /\ r # p
        BY <1>9, <3>2
      <4>2. begun[k] <= 1 /\ Worked(q, k) /\ Worked(r, k)
        BY <1>7, <1>10, <3>2, <4>1
      <4> QED
        BY <4>2 DEF ImportInv, Schedule
    <3> QED
      BY <3>1, <3>2
  <2> QED
    BY <2>1, <2>2, <2>3 DEF Schedule
<1>14. \A k, i : Has(k, i)' <=> Has(k, i)
  BY <1>4 DEF Has
<1>15. \A k, i : Matches(k, i)' <=> Matches(k, i)
  BY <1>4, <1>14 DEF Matches
<1>16. \A k \in Jobs : Started(k)' => LinesTrue(k)'
  <2> TAKE k \in Jobs
  <2> HAVE Started(k)'
  <2>1. LinesTrue(k)
    BY <1>8 DEF ImportInv, ImportLines
  <2>2. job'[k].success = job[k].success /\ job'[k].failed = job[k].failed
    BY <1>3, <1>10, <1>11
  <2> QED
    BY <1>4, <1>10, <1>14, <1>15, <2>1, <2>2, LinesKept
<1>17. \A k \in Jobs, q \in Workers : Worked(q, k)' => WorkTrue(q, k)'
  <2> TAKE k \in Jobs, q \in Workers
  <2> HAVE Worked(q, k)'
  <2>1. CASE q = p
    <3>1. k = j
      BY <1>9, <2>1
    <3>3. ASSUME begun'[j] <= 1, NEW i \in DOMAIN rows[j] PROVE ~Has(j, i)'
      <4>1. begun[j] = 0 /\ i \in Nat
        BY <1>5, <1>10, <3>3
      <4> QED
        BY <1>14, <4>1 DEF ImportInv, ImportLines
    <3>4. rows'[j] = rows[j]
      BY <1>4
    <3> QED
      BY <1>6, <1>7, <2>1, <3>1, <3>3, <3>4 DEF WorkTrue
  <2>2. CASE q # p
    <3>1. WorkTrue(q, k) /\ worker'[q] = worker[q] /\ Worked(q, k)
      BY <1>7, <2>2 DEF ImportInv, ImportLines
    <3>2. CASE k = j
      <4>1. begun[j] > 0
        BY <3>1, <3>2 DEF ImportInv, Schedule
      <4>2. ~(begun'[j] <= 1)
        BY <1>10, <4>1
      <4> QED
        BY <1>4, <1>15, <3>1, <3>2, <4>2, SecondWorker
    <3>3. CASE k # j
      BY <1>4, <1>10, <1>14, <1>15, <3>1, <3>3, WorkKept
    <3> QED
      BY <3>2, <3>3
  <2> QED
    BY <2>1, <2>2
<1>18. \A k \in Jobs : begun'[k] = 0 => \A i \in Nat : ~Has(k, i)'
  BY <1>10, <1>14 DEF ImportInv, ImportLines
<1> QED
  BY <1>12, <1>13, <1>16, <1>17, <1>18 DEF ImportInv, ImportLines

\* Worker p stays on its job j: what has to be shown of it, and of that job's
\* lines; the other jobs and their workers are where they were.
LEMMA WorkerGoesOn ==
    ASSUME ImportInv, NEW p \in Workers, NEW j \in Jobs, NEW to \in Checking \cup Answering,
           worker[p] # Idle, worker[p].job = j, to.job = j,
           worker' = [worker EXCEPT ![p] = to],
           UNCHANGED <<tasks, begun>>, old' \subseteq old, DOMAIN rows' = Jobs,
           job' \in [Jobs -> {NewJob} \cup JobRecords], Started(j)',
           rows'[j] \in Tables,
           \A k \in Jobs : k # j => rows'[k] = rows[k] /\ job'[k] = job[k],
           \A k \in DOMAIN booking' : booking'[k] \in BookingRecords,
           \A k \in Jobs : \A i : k # j => /\ Has(k, i)' <=> Has(k, i)
                                           /\ Matches(k, i) => Matches(k, i)',
           LinesTrue(j)', WorkTrue(p, j)',
           begun[j] > 1 => \A q \in Workers : q # p /\ Worked(q, j) => WorkTrue(q, j)'
    PROVE  ImportInv'
<1>1. /\ worker'[p] = to
      /\ \A q \in Workers : \A k : q # p => worker'[q] = worker[q] /\ (Worked(q, k)' <=> Worked(q, k))
  BY OthersWorkOn DEF ImportInv
<1>2. to # Idle
  BY DEF Checking, Answering, Idle
<1>3. Worked(p, j) /\ \A k : Worked(p, k)' <=> k = j
  BY <1>1, <1>2 DEF Worked
<1>4. Started(j) /\ begun[j] > 0
  BY <1>3 DEF ImportInv, Schedule
<1>5. \A k \in Jobs : Started(k)' <=> Started(k)
  BY <1>4 DEF Started
<1>6. ImportTypeOK'
  <2>1. worker' \in [Workers -> {Idle} \cup Listing \cup Checking \cup Answering]
    BY DEF ImportInv, ImportTypeOK
  <2>2. \A k \in Jobs : Started(k)' => job'[k] \in JobRecords /\ rows'[k] \in Tables
    <3>1. job'[j] \in JobRecords
      BY DEF Started, NewJob
    <3> QED
      BY <1>5, <3>1 DEF ImportInv, ImportTypeOK
  <2> QED
    BY <2>1, <2>2 DEF ImportInv, ImportTypeOK
<1>7. \A q \in Workers, k \in Jobs : Worked(q, k)' => Worked(q, k)
  BY <1>1, <1>3
<1>8. Schedule'
  BY <1>5, <1>7, ScheduleKept DEF ImportInv
<1>9. \A k \in Jobs : begun'[k] = 0 => \A i \in Nat : ~Has(k, i)'
  BY <1>4 DEF ImportInv, ImportLines
<1>10. \A k \in Jobs : Started(k)' => LinesTrue(k)'
  <2> TAKE k \in Jobs
  <2> HAVE Started(k)'
  <2>1. CASE k # j
    <3>1. LinesTrue(k)
      BY <1>5 DEF ImportInv, ImportLines
    <3> QED
      BY <2>1, <3>1, LinesKept
  <2> QED
    BY <2>1
<1>11. \A k \in Jobs, q \in Workers : Worked(q, k)' => WorkTrue(q, k)'
  <2> TAKE k \in Jobs, q \in Workers
  <2> HAVE Worked(q, k)'
  <2>1. CASE q = p
    BY <1>3, <2>1
  <2>2. CASE q # p /\ k = j
    <3>1. Worked(q, j)
      BY <1>1, <2>2
    <3>2. begun[j] > 1
      <4>1. begun[j] \in Nat
        BY DEF ImportInv, ImportTypeOK
      <4>2. ~(begun[j] <= 1)
        BY <1>3, <2>2, <3>1 DEF ImportInv, Schedule
      <4> QED
        BY <4>1, <4>2
    <3> QED
      BY <2>2, <3>1, <3>2
  <2>3. CASE q # p /\ k # j
    <3>1. WorkTrue(q, k) /\ worker'[q] = worker[q]
      BY <1>1, <2>3 DEF ImportInv, ImportLines
    <3> QED
      BY <2>3, <3>1, WorkKept
  <2> QED
    BY <2>1, <2>2, <2>3
<1> QED
  BY <1>6, <1>8, <1>9, <1>10, <1>11 DEF ImportInv, ImportLines

\* A worker's job, and what is true of both.
LEMMA AtWork ==
    ASSUME ImportInv, NEW p \in Workers, worker[p] # Idle
    PROVE  \E j \in Jobs :
               /\ worker[p].job = j /\ Worked(p, j) /\ Started(j)
               /\ begun[j] \in Nat /\ begun[j] > 0
               /\ job[j] \in JobRecords /\ rows[j] \in Tables
               /\ LinesTrue(j) /\ WorkTrue(p, j)
<1>1. PICK j \in Jobs : worker[p].job = j
  BY WorkerParts DEF ImportInv
<1>2. Worked(p, j)
  BY <1>1 DEF Worked
<1>3. Started(j) /\ begun[j] > 0
  BY <1>2 DEF ImportInv, Schedule
<1>4. begun[j] \in Nat /\ job[j] \in JobRecords /\ rows[j] \in Tables
  BY <1>3 DEF ImportInv, ImportTypeOK
<1> QED
  BY <1>1, <1>2, <1>3, <1>4 DEF ImportInv, ImportLines

\* A turn that books nothing: a refusal, or the decision to book.
LEMMA TurnsKept ==
    ASSUME ImportInv, NEW p \in Workers, NEW step \in {"book", "mark"}, NEW outcome \in Reasons,
           worker[p].step \in {"row", "book"}, worker[p].todo # {}, outcome # "booked",
           Turns(p, step, outcome), UNCHANGED <<jobs, tasks, booking>>
    PROVE  ImportInv'
<1> DEFINE to == [step |-> step, job |-> worker[p].job, todo |-> worker[p].todo, outcome |-> outcome]
<1>1. worker[p] # Idle /\ worker[p].todo \in SUBSET Nat /\ worker[p].job \in Jobs
  BY WorkerParts DEF ImportInv
<1>2. PICK j \in Jobs :
          /\ worker[p].job = j /\ Worked(p, j) /\ Started(j)
          /\ begun[j] \in Nat /\ begun[j] > 0
          /\ job[j] \in JobRecords /\ rows[j] \in Tables
          /\ LinesTrue(j) /\ RowsTrue(p, j)
  BY <1>1, AtWork DEF WorkTrue
<1>3. to \in Answering /\ to.job = j /\ to.todo = worker[p].todo
      /\ to.step = step /\ to.outcome = outcome
  BY <1>1, <1>2 DEF Answering
<1>4. worker' = [worker EXCEPT ![p] = to]
  BY DEF Turns
<1> HIDE DEF to
<1>5. worker'[p] = to
  BY <1>4 DEF ImportInv, ImportTypeOK
<1>6. \A k, i : (Has(k, i)' <=> Has(k, i)) /\ (Matches(k, i)' <=> Matches(k, i))
  BY DEF Has, Matches, jobs
<1>7. \A i : ~AnswerIs(p, i) /\ ~TimedOut(p, i) /\ ~AnswerIs(p, i)'
  BY <1>3, <1>5 DEF AnswerIs, TimedOut
<1>8. WorkTrue(p, j)'
  <2>1. RowsTrue(p, j)'
    BY <1>2, <1>3, <1>5, <1>6, <1>7 DEF RowsTrue, jobs
  <2> QED
    BY <1>3, <1>5, <2>1 DEF WorkTrue
<1>9. LinesTrue(j)'
  BY <1>2, <1>6, LinesKept DEF jobs
<1>10. \A q \in Workers : q # p /\ Worked(q, j) => WorkTrue(q, j)'
  <2> TAKE q \in Workers
  <2> HAVE q # p /\ Worked(q, j)
  <2>1. WorkTrue(q, j) /\ worker'[q] = worker[q]
    BY <1>4 DEF ImportInv, ImportLines, ImportTypeOK
  <2> QED
    BY <1>6, <2>1, WorkKept DEF jobs
<1>11. /\ UNCHANGED <<tasks, begun>> /\ old' \subseteq old /\ DOMAIN rows' = Jobs
       /\ job' \in [Jobs -> {NewJob} \cup JobRecords] /\ Started(j)' /\ rows'[j] \in Tables
       /\ \A k \in Jobs : rows'[k] = rows[k] /\ job'[k] = job[k]
       /\ \A k \in DOMAIN booking' : booking'[k] \in BookingRecords
  BY <1>2 DEF jobs, ImportInv, ImportTypeOK, Started
<1> QED
  BY <1>1, <1>2, <1>3, <1>4, <1>6, <1>8, <1>9, <1>10, <1>11, WorkerGoesOn

\* A worker decides on a line.
LEMMA CheckRowKept ==
    ASSUME ImportInv, NEW p \in Workers, CheckRow(p)
    PROVE  ImportInv'
<1>1. UNCHANGED <<jobs, tasks, booking>> /\ worker[p].step = "row" /\ worker[p].todo # {}
  BY DEF CheckRow, desk
<1>2. \A g, n, c : Refusal(g, n, c) \in Reasons \ {"booked"}
  BY DEF Refusal, Reasons
<1>3. PICK step, outcome :
          /\ step \in {"book", "mark"} /\ outcome \in Reasons \ {"booked"}
          /\ Turns(p, step, outcome)
  <2> DEFINE no == Refusal(rows[worker[p].job][Row(p)].guest, rows[worker[p].job][Row(p)].quantity,
                           job[worker[p].job].code)
  <2>1. \/ Turns(p, "mark", no) \/ Turns(p, "mark", "changed") \/ Turns(p, "book", "none")
        \/ Turns(p, "mark", "timeout")
    BY DEF CheckRow, PaidAnswer
  <2>2. no \in Reasons \ {"booked"}
    BY <1>2
  <2>3. {"changed", "none", "timeout"} \subseteq Reasons \ {"booked"}
    BY DEF Reasons
  <2> HIDE DEF no
  <2> QED
    BY <2>1, <2>2, <2>3
<1> QED
  BY <1>1, <1>3, TurnsKept

\* A worker books a line: from here until it is marked, its booking is there and
\* the line is pending.
LEMMA BookRowKept ==
    ASSUME ImportInv, NEW p \in Workers, BookRow(p)
    PROVE  ImportInv'
<1>1. worker[p].step = "book" /\ UNCHANGED <<jobs, tasks>>
  BY DEF BookRow
<1>2. worker[p] # Idle /\ worker[p].todo \in SUBSET Nat /\ worker[p].job \in Jobs
  BY <1>1, WorkerParts DEF ImportInv
<1>3. PICK j \in Jobs :
          /\ worker[p].job = j /\ Worked(p, j) /\ Started(j)
          /\ begun[j] \in Nat /\ begun[j] > 0
          /\ job[j] \in JobRecords /\ rows[j] \in Tables
          /\ LinesTrue(j) /\ RowsTrue(p, j)
  BY <1>1, <1>2, AtWork DEF WorkTrue
<1>4. worker[p].todo # {} /\ worker[p].todo \subseteq DOMAIN rows[j]
  BY <1>1, <1>3 DEF RowsTrue
<1>5. PICK i : i = Row(p)
  OBVIOUS
<1>6. i \in worker[p].todo /\ i \in DOMAIN rows[j]
  BY <1>1, <1>4, <1>5, RowIsAhead DEF ImportInv
<1> DEFINE key == <<"row", j, i>>
           row == rows[j][i]
           comped == job[j].code
           waived == job[j].mode = "offline"
<1>7. \/ /\ CanBook(key, row.guest, row.quantity, comped, waived)
         /\ CreateBooking(key, row.guest, row.quantity, comped, waived)
         /\ Turns(p, "mark", "booked") \/ Turns(p, "mark", "timeout")
      \/ (Turns(p, "mark", "rejected") \/ Turns(p, "mark", "timeout")) /\ UNCHANGED booking
  BY <1>3, <1>5 DEF BookRow, desk
<1>8. CASE (Turns(p, "mark", "rejected") \/ Turns(p, "mark", "timeout")) /\ UNCHANGED booking
  <2>1. "rejected" \in Reasons /\ "timeout" \in Reasons
    BY DEF Reasons
  <2> QED
    BY <1>1, <1>4, <1>8, <2>1, TurnsKept
<1>9. ASSUME CanBook(key, row.guest, row.quantity, comped, waived),
             CreateBooking(key, row.guest, row.quantity, comped, waived),
             NEW answer \in {"booked", "timeout"}, Turns(p, "mark", answer)
      PROVE  ImportInv'
  <2> DEFINE to == [step |-> "mark", job |-> worker[p].job, todo |-> worker[p].todo,
                    outcome |-> answer]
  <2>1. row.guest \in Guests /\ row.quantity \in Nat
    BY <1>3, <1>6, TableLines, RowParts
  <2>2. key \notin DOMAIN booking
    BY <1>9 DEF CanBook
  <2>3. /\ DOMAIN booking' = DOMAIN booking \cup {key}
        /\ \A k \in DOMAIN booking : booking'[k] = booking[k]
        /\ booking'[key].guest = row.guest /\ booking'[key].quantity = row.quantity
        /\ \A k \in DOMAIN booking' : booking'[k] \in BookingRecords
    <3> HIDE DEF key, row, comped, waived
    <3> QED
      BY <1>9, <2>1, <2>2, BookingMade DEF ImportInv
  <2>4. to \in Answering /\ to.job = j /\ to.todo = worker[p].todo /\ to.step = "mark"
        /\ to.outcome = answer
    BY <1>2, <1>3 DEF Answering, Reasons
  <2>5. worker' = [worker EXCEPT ![p] = to]
    BY <1>9 DEF Turns
  <2> HIDE DEF to
  <2>6. worker'[p] = to /\ \A q \in Workers : q # p => worker'[q] = worker[q]
    BY <2>5 DEF ImportInv, ImportTypeOK
  <2>7. \A k, n : ~(k = j /\ n = i) => <<"row", k, n>> # key
    BY KeysDiffer
  <2>8. Has(j, i)' /\ Matches(j, i)'
    BY <1>1, <2>3 DEF Has, Matches, jobs
  <2>9. \A k, n : ~(k = j /\ n = i) => (Has(k, n)' <=> Has(k, n))
    <3> HIDE DEF key
    <3> QED
      BY <2>3, <2>7 DEF Has
  <2>10. \A k, n : Matches(k, n) => Matches(k, n)'
    <3> HIDE DEF key
    <3> QED
      BY <1>1, <2>3 DEF Has, Matches, jobs
  <2>11. ~Has(j, i)
    BY <2>2 DEF Has
  <2>12. Row(p)' = i
    BY <1>5, <2>4, <2>6 DEF Row
  <2>13. \A n : /\ AnswerIs(p, n)' => n = i
                /\ AnswerIs(p, n)' \/ TimedOut(p, n)' <=> n = i
    BY <2>4, <2>6, <2>12 DEF AnswerIs, TimedOut
  <2>14. \A n : ~AnswerIs(p, n) /\ ~TimedOut(p, n)
    BY <1>1 DEF AnswerIs, TimedOut
  <2>15. WorkTrue(p, j)'
    <3>1. \A n \in worker[p].todo : begun[j] <= 1 => rows[j][n].status = "pending" /\ ~Has(j, n)
      BY <1>3, <2>14 DEF RowsTrue
    <3> HIDE DEF key, row
    <3>2. RowsTrue(p, j)'
      BY <1>1, <1>4, <2>4, <2>6, <2>8, <2>9, <2>13, <3>1 DEF RowsTrue, jobs
    <3> QED
      BY <2>4, <2>6, <3>2 DEF WorkTrue
  <2>16. rows[j][i].status # "success"
    BY <1>3, <1>6, <2>11 DEF LinesTrue, Matches
  <2>17. begun[j] <= 1 => rows[j][i].status = "pending"
    BY <1>3, <1>6 DEF RowsTrue
  <2>18. LinesTrue(j)'
    <3>1. PICK table : table = rows[j] /\ table = rows'[j]
      BY <1>1 DEF jobs
    <3>2. job'[j] = job[j] /\ begun'[j] = begun[j]
      BY <1>1 DEF jobs
    <3>3. /\ job'[j].success = Cardinality(RowsIn(table, "success"))
          /\ job'[j].failed = Cardinality(RowsIn(table, "failed"))
      BY <1>3, <3>1, <3>2 DEF LinesTrue
    <3>4. \A n \in DOMAIN table :
              /\ table[n].status = "success" => Matches(j, n)'
              /\ table[n].status = "failed" /\ begun'[j] <= 1 =>
                     ~Has(j, n)' \/ table[n].reason = "timeout"
      <4> TAKE n \in DOMAIN table
      <4>1. CASE n = i
        BY <2>16, <2>17, <3>1, <3>2, <4>1
      <4>2. CASE n # i
        BY <1>3, <2>9, <2>10, <3>1, <3>2, <4>2 DEF LinesTrue
      <4> QED
        BY <4>1, <4>2
    <3> QED
      BY <3>1, <3>3, <3>4 DEF LinesTrue
  <2>19. begun[j] > 1 => \A q \in Workers : q # p /\ Worked(q, j) => WorkTrue(q, j)'
    <3> HAVE begun[j] > 1
    <3> TAKE q \in Workers
    <3> HAVE q # p /\ Worked(q, j)
    <3>1. WorkTrue(q, j) /\ worker'[q] = worker[q]
      BY <2>6 DEF ImportInv, ImportLines
    <3>2. ~(begun'[j] <= 1) /\ rows'[j] = rows[j]
      BY <1>1, <1>3 DEF jobs
    <3> QED
      BY <2>10, <3>1, <3>2, SecondWorker
  <2>20. /\ UNCHANGED <<tasks, begun>> /\ old' \subseteq old /\ DOMAIN rows' = Jobs
         /\ job' \in [Jobs -> {NewJob} \cup JobRecords] /\ Started(j)' /\ rows'[j] \in Tables
         /\ \A k \in Jobs : rows'[k] = rows[k] /\ job'[k] = job[k]
    BY <1>1, <1>3 DEF jobs, ImportInv, ImportTypeOK, Started
  <2>21. \A k \in Jobs : \A n : k # j => /\ Has(k, n)' <=> Has(k, n)
                                         /\ Matches(k, n) => Matches(k, n)'
    BY <2>9, <2>10
  <2>22. \A k \in DOMAIN booking' : booking'[k] \in BookingRecords
    BY <2>3
  <2> HIDE DEF key, row, comped, waived
  <2> QED
    BY <1>2, <1>3, <2>4, <2>5, <2>15, <2>18, <2>19, <2>20, <2>21, <2>22, WorkerGoesOn
<1> QED
  BY <1>7, <1>8, <1>9

\* A worker leaves a line behind; the lines before it stay as they were.
LEMMA NextRowTrue ==
    ASSUME ImportInv, NEW p \in Workers, NEW j \in Jobs, NEW i, i = Row(p),
           worker[p].step = "mark", worker[p].job = j, RowsTrue(p, j),
           NextRow(p), UNCHANGED <<booking, begun>>, DOMAIN rows'[j] = DOMAIN rows[j],
           \A n \in DOMAIN rows[j] : n # i => rows'[j][n] = rows[j][n]
    PROVE  \E to \in Checking :
               /\ to.job = j /\ worker' = [worker EXCEPT ![p] = to]
               /\ WorkTrue(p, j)'
<1> DEFINE to == [step |-> "row", job |-> worker[p].job, todo |-> worker[p].todo \ {i}]
<1>1. worker[p].todo \in SUBSET Nat
  BY WorkerParts DEF ImportInv
<1>2. to \in Checking /\ to.step = "row" /\ to.job = j /\ to.todo = worker[p].todo \ {i}
  BY <1>1 DEF Checking
<1>3. worker' = [worker EXCEPT ![p] = to]
  BY DEF NextRow
<1> HIDE DEF to
<1>4. worker'[p] = to
  BY <1>3 DEF ImportInv, ImportTypeOK
<1>5. \A n : ~AnswerIs(p, n)'
  BY <1>2, <1>4 DEF AnswerIs
<1>6. \A n \in worker[p].todo : n # i /\ begun[j] <= 1 => rows[j][n].status = "pending" /\ ~Has(j, n)
  BY DEF RowsTrue, AnswerIs, TimedOut
<1>7. \A n : Has(j, n)' <=> Has(j, n)
  BY DEF Has
<1>8. WorkTrue(p, j)'
  <2>1. RowsTrue(p, j)'
    BY <1>2, <1>4, <1>5, <1>6, <1>7 DEF RowsTrue
  <2> QED
    BY <1>2, <1>4, <2>1 DEF WorkTrue
<1> QED
  BY <1>2, <1>3, <1>8

\* A result that cannot be written: the line stays pending, and is passed over.
LEMMA MarkRowFailsKept ==
    ASSUME ImportInv, NEW p \in Workers, worker[p].step = "mark",
           NextRow(p), UNCHANGED <<jobs, tasks, booking>>
    PROVE  ImportInv'
<1>1. worker[p] # Idle
  BY WorkerParts DEF ImportInv
<1>2. PICK j \in Jobs :
          /\ worker[p].job = j /\ Worked(p, j) /\ Started(j)
          /\ begun[j] \in Nat /\ begun[j] > 0
          /\ job[j] \in JobRecords /\ rows[j] \in Tables
          /\ LinesTrue(j) /\ RowsTrue(p, j)
  BY <1>1, AtWork DEF WorkTrue
<1>3. PICK i : i = Row(p)
  OBVIOUS
<1>4. PICK to \in Checking :
          /\ to.job = j /\ worker' = [worker EXCEPT ![p] = to] /\ WorkTrue(p, j)'
  BY <1>2, <1>3, NextRowTrue DEF jobs
<1>5. \A k, n : (Has(k, n)' <=> Has(k, n)) /\ (Matches(k, n)' <=> Matches(k, n))
  BY DEF Has, Matches, jobs
<1>6. LinesTrue(j)'
  BY <1>2, <1>5, LinesKept DEF jobs
<1>7. \A q \in Workers : q # p /\ Worked(q, j) => WorkTrue(q, j)'
  <2> TAKE q \in Workers
  <2> HAVE q # p /\ Worked(q, j)
  <2>1. WorkTrue(q, j) /\ worker'[q] = worker[q]
    BY <1>4 DEF ImportInv, ImportLines, ImportTypeOK
  <2> QED
    BY <1>5, <2>1, WorkKept DEF jobs
<1>8. /\ UNCHANGED <<tasks, begun>> /\ old' \subseteq old /\ DOMAIN rows' = Jobs
      /\ job' \in [Jobs -> {NewJob} \cup JobRecords] /\ Started(j)' /\ rows'[j] \in Tables
      /\ \A k \in Jobs : rows'[k] = rows[k] /\ job'[k] = job[k]
      /\ \A k \in DOMAIN booking' : booking'[k] \in BookingRecords
  BY <1>2 DEF jobs, ImportInv, ImportTypeOK, Started
<1> QED
  BY <1>1, <1>2, <1>4, <1>5, <1>6, <1>7, <1>8, WorkerGoesOn

\* A pending line that is resolved joins one of the two counts.
LEMMA CountsAfterMark ==
    ASSUME NEW table \in Tables, NEW i \in DOMAIN table, table[i].status = "pending",
           NEW status \in {"success", "failed"}, NEW line \in RowRecords, line.status = status,
           NEW other \in {"success", "failed"}, other # status
    PROVE  LET after == [table EXCEPT ![i] = line] IN
           /\ after \in Tables /\ DOMAIN after = DOMAIN table
           /\ \A n \in DOMAIN table : after[n] = IF n = i THEN line ELSE table[n]
           /\ Cardinality(RowsIn(after, status)) = Cardinality(RowsIn(table, status)) + 1
           /\ Cardinality(RowsIn(after, other)) = Cardinality(RowsIn(table, other))
<1> DEFINE after == [table EXCEPT ![i] = line]
<1>1. PICK file \in Files : table \in [DOMAIN file -> RowRecords]
  BY DEF Tables
<1>2. after \in [DOMAIN file -> RowRecords] /\ DOMAIN after = DOMAIN table
      /\ \A n \in DOMAIN table : after[n] = IF n = i THEN line ELSE table[n]
  BY <1>1
<1> HIDE DEF after
<1>3. after \in Tables
  BY <1>2 DEF Tables
<1>4. RowsIn(after, status) = RowsIn(table, status) \cup {i}
  BY <1>2 DEF RowsIn
<1>5. RowsIn(after, other) = RowsIn(table, other)
  BY <1>2 DEF RowsIn
<1>6. i \notin RowsIn(table, status) /\ IsFiniteSet(RowsIn(table, status))
  BY LinesAreFinite DEF RowsIn
<1>7. Cardinality(RowsIn(table, status) \cup {i}) = Cardinality(RowsIn(table, status)) + 1
  BY <1>6, FS_AddElement
<1> QED
  BY <1>2, <1>3, <1>4, <1>5, <1>7 DEF after

\* A result is written, and counted with it.
LEMMA MarkRowKept ==
    ASSUME ImportInv, NEW p \in Workers, MarkRow(p)
    PROVE  ImportInv'
<1>1. worker[p].step = "mark" /\ NextRow(p) /\ UNCHANGED <<begun, tasks, booking>>
  BY DEF MarkRow, desk
<1>2. worker[p] # Idle /\ worker[p] \in Answering
  BY <1>1, WorkerParts DEF ImportInv
<1>3. PICK j \in Jobs :
          /\ worker[p].job = j /\ Worked(p, j) /\ Started(j)
          /\ begun[j] \in Nat /\ begun[j] > 0
          /\ job[j] \in JobRecords /\ rows[j] \in Tables
          /\ LinesTrue(j) /\ RowsTrue(p, j)
  BY <1>1, <1>2, AtWork DEF WorkTrue
<1>4. PICK i : i = Row(p)
  OBVIOUS
<1>5. i \in worker[p].todo /\ i \in DOMAIN rows[j] /\ rows[j][i] \in RowRecords
  <2>1. worker[p].todo # {} /\ worker[p].todo \subseteq DOMAIN rows[j]
    BY <1>1, <1>3 DEF RowsTrue
  <2>2. i \in worker[p].todo
    BY <1>1, <1>4, <2>1, RowIsAhead DEF ImportInv
  <2> QED
    BY <1>3, <2>1, <2>2, TableLines
<1>6. CASE ~Resolves(j, i)
  <2>1. UNCHANGED <<jobs, tasks, booking>>
    BY <1>1, <1>3, <1>4, <1>6 DEF MarkRow, jobs
  <2> QED
    BY <1>1, <2>1, MarkRowFailsKept
<1>7. CASE Resolves(j, i)
  <2> DEFINE done == worker[p].outcome = "booked"
             status == IF done THEN "success" ELSE "failed"
             other == IF done THEN "failed" ELSE "success"
             line == [rows[j][i] EXCEPT !.status = status, !.reason = worker[p].outcome]
             won == job[j].success + (IF done THEN 1 ELSE 0)
             gone == job[j].failed + (IF done THEN 0 ELSE 1)
             put == [job[j] EXCEPT !.success = won, !.failed = gone]
             after == [rows[j] EXCEPT ![i] = line]
  <2>1. /\ rows' = [rows EXCEPT ![j] = after] /\ job' = [job EXCEPT ![j] = put]
        /\ old' = old \ {j}
    <3>1. /\ rows' = [rows EXCEPT ![j][i].status = status, ![j][i].reason = worker[p].outcome]
          /\ job' = [job EXCEPT ![j].success = @ + (IF done THEN 1 ELSE 0),
                               ![j].failed  = @ + (IF done THEN 0 ELSE 1)]
          /\ old' = old \ {j}
      BY <1>3, <1>4, <1>7 DEF MarkRow
    <3>2. DOMAIN rows = Jobs /\ DOMAIN job = Jobs
      BY DEF ImportInv, ImportTypeOK
    <3>3. job' = [job EXCEPT ![j] = put]
      BY <1>3, <3>1, <3>2
    <3>4. rows' = [rows EXCEPT ![j] = after]
      <4> HIDE DEF status
      <4> QED
        BY <1>5, <3>1, <3>2
    <3> QED
      BY <3>1, <3>3, <3>4
  <2>2. worker[p].outcome \in Reasons
    BY <1>2 DEF Answering
  <2>3. /\ status \in {"success", "failed"} /\ other \in {"success", "failed"} /\ other # status
        /\ status \in RowStatuses
        /\ status = "success" <=> done
    BY DEF RowStatuses
  <2>4. won \in Nat /\ gone \in Nat
    BY <1>3, JobParts
  <2> HIDE DEF won, gone, status, other
  <2>5. line \in RowRecords /\ line.status = status /\ line.reason = worker[p].outcome
        /\ line.guest = rows[j][i].guest /\ line.quantity = rows[j][i].quantity
    BY <1>5, <2>2, <2>3 DEF RowRecords
  <2>6. put \in JobRecords /\ put.success = won /\ put.failed = gone /\ put.status # "none"
    BY <1>3, <2>4 DEF JobRecords, JobStatuses
  <2> HIDE DEF line, put
  <2>7. /\ after \in Tables /\ DOMAIN after = DOMAIN rows[j]
        /\ \A n \in DOMAIN rows[j] : after[n] = IF n = i THEN line ELSE rows[j][n]
        /\ Cardinality(RowsIn(after, status)) = Cardinality(RowsIn(rows[j], status)) + 1
        /\ Cardinality(RowsIn(after, other)) = Cardinality(RowsIn(rows[j], other))
    <3>1. rows[j][i].status = "pending"
      BY <1>7 DEF Resolves
    <3>2. PICK table : table = rows[j]
      OBVIOUS
    <3> QED
      BY <1>3, <1>5, <2>3, <2>5, <3>1, <3>2, CountsAfterMark
  <2> HIDE DEF after
  <2>8. /\ rows'[j] = after /\ job'[j] = put /\ DOMAIN rows' = Jobs
        /\ \A k \in Jobs : k # j => rows'[k] = rows[k] /\ job'[k] = job[k]
    BY <2>1 DEF ImportInv, ImportTypeOK
  <2>9. \A k, n : Has(k, n)' <=> Has(k, n)
    BY <1>1 DEF Has
  <2>10. \A k \in Jobs : \A n : k # j => (Matches(k, n) => Matches(k, n)')
    BY <1>1, <2>8, <2>9 DEF Matches
  <2>11. \A n \in DOMAIN rows[j] : Matches(j, n) => Matches(j, n)'
    BY <1>1, <2>5, <2>7, <2>8, <2>9 DEF Matches
  <2>12. PICK to \in Checking :
             /\ to.job = j /\ worker' = [worker EXCEPT ![p] = to] /\ WorkTrue(p, j)'
    BY <1>1, <1>3, <1>4, <2>7, <2>8, NextRowTrue
  <2>13. (AnswerIs(p, i) <=> done) /\ (TimedOut(p, i) <=> worker[p].outcome = "timeout")
    BY <1>1, <1>4 DEF AnswerIs, TimedOut
  <2>14. done => Matches(j, i)
    BY <1>3, <1>5, <2>13 DEF RowsTrue
  <2>15. ~done /\ begun[j] <= 1 => ~Has(j, i) \/ line.reason = "timeout"
    BY <1>3, <1>5, <2>5, <2>13 DEF RowsTrue
  <2>16. LinesTrue(j)'
    <3>1. /\ won = Cardinality(RowsIn(after, "success"))
          /\ gone = Cardinality(RowsIn(after, "failed"))
      <4>1. /\ job[j].success = Cardinality(RowsIn(rows[j], "success"))
            /\ job[j].failed = Cardinality(RowsIn(rows[j], "failed"))
            /\ job[j].success \in Nat /\ job[j].failed \in Nat
        BY <1>3, JobParts DEF LinesTrue
      <4>2. CASE done
        BY <2>7, <4>1, <4>2 DEF won, gone, status, other
      <4>3. CASE ~done
        BY <2>7, <4>1, <4>3 DEF won, gone, status, other
      <4> QED
        BY <4>2, <4>3
    <3>2. \A n \in DOMAIN after :
              /\ after[n].status = "success" => Matches(j, n)'
              /\ after[n].status = "failed" /\ begun'[j] <= 1 =>
                     ~Has(j, n)' \/ after[n].reason = "timeout"
      <4> TAKE n \in DOMAIN after
      <4>1. n \in DOMAIN rows[j]
        BY <2>7
      <4>2. CASE n = i
        <5>1. after[n].status = status /\ after[n].reason = line.reason
          BY <2>5, <2>7, <4>1, <4>2
        <5>2. status = "failed" => ~done
          BY <2>3
        <5> QED
          BY <1>1, <2>3, <2>9, <2>11, <2>14, <2>15, <4>1, <4>2, <5>1, <5>2
      <4>3. CASE n # i
        <5>1. after[n] = rows[j][n]
          BY <2>7, <4>1, <4>3
        <5> QED
          BY <1>1, <1>3, <2>9, <2>11, <4>1, <5>1 DEF LinesTrue
      <4> QED
        BY <4>2, <4>3
    <3> QED
      BY <2>6, <2>8, <3>1, <3>2 DEF LinesTrue
  <2>17. begun[j] > 1 => \A q \in Workers : q # p /\ Worked(q, j) => WorkTrue(q, j)'
    <3> HAVE begun[j] > 1
    <3> TAKE q \in Workers
    <3> HAVE q # p /\ Worked(q, j)
    <3>1. WorkTrue(q, j) /\ worker'[q] = worker[q]
      BY <2>12 DEF ImportInv, ImportLines, ImportTypeOK
    <3>2. ~(begun'[j] <= 1) /\ DOMAIN rows'[j] = DOMAIN rows[j]
      BY <1>1, <1>3, <2>7, <2>8
    <3> QED
      BY <2>11, <3>1, <3>2, SecondWorker
  <2>18. /\ UNCHANGED <<tasks, begun>> /\ old' \subseteq old
         /\ job' \in [Jobs -> {NewJob} \cup JobRecords] /\ Started(j)' /\ rows'[j] \in Tables
         /\ \A k \in DOMAIN booking' : booking'[k] \in BookingRecords
    BY <1>1, <2>1, <2>6, <2>7, <2>8 DEF ImportInv, ImportTypeOK, Started
  <2> QED
    BY <1>2, <1>3, <2>8, <2>9, <2>10, <2>12, <2>16, <2>17, <2>18, WorkerGoesOn
<1> QED
  BY <1>6, <1>7

\* A step after which fewer jobs, or the same, are worked on, and each worker
\* that still works does what it did; the lines and bookings stay.
LEMMA WorkersLeave ==
    ASSUME ImportInv, ImportTypeOK', Schedule', UNCHANGED <<rows, begun, booking>>,
           \A k \in Jobs : /\ Started(k)' <=> Started(k)
                           /\ Started(k) => /\ job'[k].success = job[k].success
                                            /\ job'[k].failed = job[k].failed,
           \A k \in Jobs, q \in Workers :
               Worked(q, k)' => Worked(q, k) /\ worker'[q] = worker[q]
    PROVE  ImportInv'
<1>1. \A k, n : (Has(k, n)' <=> Has(k, n)) /\ (Matches(k, n)' <=> Matches(k, n))
  BY DEF Has, Matches
<1>2. \A k \in Jobs : begun'[k] = 0 => \A i \in Nat : ~Has(k, i)'
  BY <1>1 DEF ImportInv, ImportLines
<1>3. \A k \in Jobs : Started(k)' => LinesTrue(k)'
  <2> TAKE k \in Jobs
  <2> HAVE Started(k)'
  <2>1. LinesTrue(k) /\ job'[k].success = job[k].success /\ job'[k].failed = job[k].failed
    BY DEF ImportInv, ImportLines
  <2> QED
    BY <1>1, <2>1, LinesKept
<1>4. \A k \in Jobs, q \in Workers : Worked(q, k)' => WorkTrue(q, k)'
  <2> TAKE k \in Jobs, q \in Workers
  <2> HAVE Worked(q, k)'
  <2>1. WorkTrue(q, k) /\ worker'[q] = worker[q]
    BY DEF ImportInv, ImportLines
  <2> QED
    BY <1>1, <2>1, WorkKept
<1> QED
  BY <1>2, <1>3, <1>4 DEF ImportInv, ImportLines

\* A worker is done with a job, and gives it another status or leaves it.
LEMMA WorkerDone ==
    ASSUME ImportInv, NEW p \in Workers, NEW j \in Jobs, worker[p] # Idle, worker[p].job = j,
           NEW status \in JobStatuses,
           job' = [job EXCEPT ![j].status = status] \/ job' = job,
           worker' = [worker EXCEPT ![p] = Idle],
           old' \subseteq old, UNCHANGED <<rows, begun, booking, tasks>>
    PROVE  ImportInv'
<1>1. Started(j) /\ job[j] \in JobRecords
  <2>1. Worked(p, j)
    BY DEF Worked
  <2> QED
    BY <2>1 DEF ImportInv, Schedule, ImportTypeOK
<1>2. PICK put \in JobRecords :
          /\ put.status # "none" /\ put.success = job[j].success /\ put.failed = job[j].failed
          /\ job' = [job EXCEPT ![j] = put]
  <2>1. CASE job' = job
    <3>1. job' = [job EXCEPT ![j] = job[j]]
      BY <2>1 DEF ImportInv, ImportTypeOK
    <3> QED
      BY <1>1, <3>1 DEF Started
  <2>2. CASE job' = [job EXCEPT ![j].status = status]
    <3> DEFINE put == [job[j] EXCEPT !.status = status]
    <3>1. put \in JobRecords /\ put.status # "none"
          /\ put.success = job[j].success /\ put.failed = job[j].failed
      BY <1>1 DEF JobRecords, JobStatuses
    <3>2. job' = [job EXCEPT ![j] = put]
      BY <1>1, <2>2
    <3> HIDE DEF put
    <3> QED
      BY <3>1, <3>2
  <2> QED
    BY <2>1, <2>2
<1>3. put # NewJob
  BY <1>2 DEF NewJob
<1>4. UNCHANGED <<rows, begun, booking, tasks>>
  OBVIOUS
<1>5. job'[j] = put /\ \A k \in Jobs : k # j => job'[k] = job[k]
  BY <1>2 DEF ImportInv, ImportTypeOK
<1>6. \A k \in Jobs : /\ Started(k)' <=> Started(k)
                      /\ Started(k) => /\ job'[k].success = job[k].success
                                       /\ job'[k].failed = job[k].failed
  BY <1>1, <1>2, <1>5 DEF Started
<1>7. \A k \in Jobs, q \in Workers : Worked(q, k)' => Worked(q, k) /\ worker'[q] = worker[q]
  <2>1. worker'[p] = Idle /\ \A q \in Workers : q # p => worker'[q] = worker[q]
    BY DEF ImportInv, ImportTypeOK
  <2> QED
    BY <2>1 DEF Worked
<1>8. Schedule'
  BY <1>4, <1>6, <1>7, ScheduleKept DEF ImportInv
<1>9. ImportTypeOK'
  <2>1. job' \in [Jobs -> {NewJob} \cup JobRecords]
    BY <1>2 DEF ImportInv, ImportTypeOK
  <2>2. \A k \in Jobs : Started(k)' => job'[k] \in JobRecords /\ rows'[k] \in Tables
    BY <1>2, <1>3, <1>4, <1>5, <1>6 DEF ImportInv, ImportTypeOK
  <2>3. worker' \in [Workers -> {Idle} \cup Listing \cup Checking \cup Answering]
    BY <1>4 DEF ImportInv, ImportTypeOK
  <2> QED
    BY <1>4, <2>1, <2>2, <2>3 DEF ImportInv, ImportTypeOK
<1> QED
  BY <1>4, <1>6, <1>7, <1>8, <1>9, WorkersLeave

\* Its row list, its two hours or its last status end a worker's job.
LEMMA JobEnds ==
    ASSUME ImportInv, NEW p \in Workers, ListFails(p) \/ LeaveJob(p) \/ FinishJob(p)
    PROVE  ImportInv'
<1>1. PICK j : j = worker[p].job
  OBVIOUS
<1>2. /\ worker[p] # Idle /\ worker' = [worker EXCEPT ![p] = Idle]
      /\ old' \subseteq old /\ UNCHANGED <<rows, begun, booking, tasks>>
      /\ \/ job' = [job EXCEPT ![j].status = "failed"]
         \/ job' = [job EXCEPT ![j].status = "completed"]
         \/ job' = job
  <2>1. worker[p].step \in {"list", "row"}
    BY DEF ListFails, LeaveJob, FinishJob
  <2>2. worker[p] # Idle
    BY <2>1, WorkerParts DEF ImportInv
  <2> QED
    BY <1>1, <2>2 DEF ListFails, LeaveJob, FinishJob, jobs, desk
<1>3. j \in Jobs /\ {"failed", "completed"} \subseteq JobStatuses
  BY <1>1, <1>2, WorkerParts DEF ImportInv, JobStatuses
<1> QED
  BY <1>1, <1>2, <1>3, WorkerDone

\* A task is dropped: its job stays as it was.
LEMMA BeginFailsKept ==
    ASSUME ImportInv, NEW p \in Workers, NEW j \in Jobs, BeginFails(p, j)
    PROVE  ImportInv'
<1>1. /\ tasks' = [tasks EXCEPT ![j] = tasks[j] - 1] /\ tasks[j] > 0
      /\ UNCHANGED <<job, rows, old, begun, worker, booking>>
  BY DEF BeginFails, jobs, desk, ImportInv, ImportTypeOK
<1>2. tasks' \in [Jobs -> Nat] /\ \A k \in Jobs : tasks[k] = 0 => tasks'[k] = 0
  BY <1>1 DEF ImportInv, ImportTypeOK
<1>3. \A k \in Jobs : Started(k)' <=> Started(k)
  BY <1>1 DEF Started
<1>4. \A k \in Jobs, q \in Workers : Worked(q, k)' <=> Worked(q, k)
  BY <1>1 DEF Worked
<1>5. Schedule'
  BY <1>1, <1>2, <1>3, <1>4 DEF ImportInv, Schedule
<1>6. ImportTypeOK'
  BY <1>1, <1>2, <1>3 DEF ImportInv, ImportTypeOK
<1> QED
  BY <1>1, <1>3, <1>4, <1>5, <1>6, WorkersLeave

\* A worker lists the lines that are pending.
LEMMA ListRowsKept ==
    ASSUME ImportInv, NEW p \in Workers, ListRows(p)
    PROVE  ImportInv'
<1>1. worker[p].step = "list" /\ UNCHANGED <<jobs, tasks, booking>>
  BY DEF ListRows, desk
<1>2. worker[p] # Idle /\ worker[p].job \in Jobs
  BY <1>1, WorkerParts DEF ImportInv
<1>3. PICK j \in Jobs :
          /\ worker[p].job = j /\ Worked(p, j) /\ Started(j)
          /\ begun[j] \in Nat /\ begun[j] > 0
          /\ job[j] \in JobRecords /\ rows[j] \in Tables
          /\ LinesTrue(j) /\ WorkTrue(p, j)
  BY <1>2, AtWork
<1> DEFINE ahead == RowsIn(rows[j], "pending")
           to == [step |-> "row", job |-> j, todo |-> ahead]
<1>4. ahead \subseteq DOMAIN rows[j] /\ ahead \in SUBSET Nat
      /\ \A i \in ahead : rows[j][i].status = "pending"
  BY <1>3, TableLines DEF RowsIn
<1>5. to \in Checking /\ to.step = "row" /\ to.job = j /\ to.todo = ahead
  BY <1>4 DEF Checking
<1>6. worker' = [worker EXCEPT ![p] = to]
  BY <1>3 DEF ListRows
<1> HIDE DEF to, ahead
<1>7. worker'[p] = to /\ \A q \in Workers : q # p => worker'[q] = worker[q]
  BY <1>6 DEF ImportInv, ImportTypeOK
<1>8. \A k, n : (Has(k, n)' <=> Has(k, n)) /\ (Matches(k, n)' <=> Matches(k, n))
  BY <1>1 DEF Has, Matches, jobs
<1>9. WorkTrue(p, j)'
  <2>1. \A n : ~AnswerIs(p, n)'
    BY <1>5, <1>7 DEF AnswerIs
  <2>2. \A n \in ahead : begun[j] <= 1 => ~Has(j, n)
    BY <1>1, <1>3, <1>4 DEF WorkTrue
  <2>3. RowsTrue(p, j)'
    BY <1>1, <1>4, <1>5, <1>7, <1>8, <2>1, <2>2 DEF RowsTrue, jobs
  <2> QED
    BY <1>5, <1>7, <2>3 DEF WorkTrue
<1>10. LinesTrue(j)'
  BY <1>1, <1>3, <1>8, LinesKept DEF jobs
<1>11. \A q \in Workers : q # p /\ Worked(q, j) => WorkTrue(q, j)'
  <2> TAKE q \in Workers
  <2> HAVE q # p /\ Worked(q, j)
  <2>1. WorkTrue(q, j) /\ worker'[q] = worker[q]
    BY <1>7 DEF ImportInv, ImportLines
  <2> QED
    BY <1>1, <1>8, <2>1, WorkKept DEF jobs
<1>12. /\ UNCHANGED <<tasks, begun>> /\ old' \subseteq old /\ DOMAIN rows' = Jobs
       /\ job' \in [Jobs -> {NewJob} \cup JobRecords] /\ Started(j)' /\ rows'[j] \in Tables
       /\ \A k \in Jobs : rows'[k] = rows[k] /\ job'[k] = job[k]
       /\ \A k \in DOMAIN booking' : booking'[k] \in BookingRecords
  BY <1>1, <1>3 DEF jobs, ImportInv, ImportTypeOK, Started
<1> QED
  BY <1>2, <1>3, <1>5, <1>6, <1>8, <1>9, <1>10, <1>11, <1>12, WorkerGoesOn

\* The process dies: nobody works, and lines that were booked and not marked stay
\* pending.
LEMMA CrashKept ==
    ASSUME ImportInv, Crash
    PROVE  ImportInv'
<1>1. /\ tasks' = [j \in Jobs |-> 0] /\ worker' = [p \in Workers |-> Idle]
      /\ UNCHANGED <<job, rows, old, begun, booking>>
  BY DEF Crash, jobs, desk
<1>2. \A k \in Jobs, q \in Workers : ~Worked(q, k)'
  BY <1>1 DEF Worked
<1>3. \A k \in Jobs : Started(k)' <=> Started(k)
  BY <1>1 DEF Started
<1>4. Schedule'
  BY <1>1, <1>2, <1>3 DEF ImportInv, Schedule
<1>5. ImportTypeOK'
  BY <1>1, <1>3 DEF ImportInv, ImportTypeOK
<1> QED
  BY <1>1, <1>2, <1>3, <1>4, <1>5, WorkersLeave

\* Nothing has touched a job for five minutes.
LEMMA AgeKept ==
    ASSUME ImportInv, NEW j \in Jobs, Age(j)
    PROVE  ImportInv'
<1>1. /\ old' = old \cup {j} /\ UNCHANGED <<job, rows, begun, tasks, worker, booking>>
      /\ Started(j)
  BY DEF Age, process, desk, Started
<1>2. \A k \in Jobs, q \in Workers : Worked(q, k)' <=> Worked(q, k)
  BY <1>1 DEF Worked
<1>3. \A k \in Jobs : Started(k)' <=> Started(k)
  BY <1>1 DEF Started
<1>4. Schedule'
  BY <1>1, <1>2, <1>3 DEF ImportInv, Schedule
<1>5. ImportTypeOK'
  BY <1>1, <1>3 DEF ImportInv, ImportTypeOK
<1> QED
  BY <1>1, <1>2, <1>3, <1>4, <1>5, WorkersLeave

\* A process starts and hands the stale jobs out again.
LEMMA BootKept ==
    ASSUME ImportInv, Boot
    PROVE  ImportInv'
<1> DEFINE Put(k) == IF Stale(k) THEN [job[k] EXCEPT !.status = "pending"] ELSE job[k]
           Handed(k) == tasks[k] + (IF Stale(k) THEN 1 ELSE 0)
<1>1. /\ tasks' = [k \in Jobs |-> Handed(k)] /\ job' = [k \in Jobs |-> Put(k)]
      /\ old' \subseteq old /\ UNCHANGED <<rows, begun, worker, booking>>
  BY DEF Boot, desk
<1>2. \A k \in Jobs : Stale(k) => Started(k)
  BY DEF Stale, Started
<1>3. \A k \in Jobs : Started(k) =>
          /\ Put(k) \in JobRecords /\ Put(k).status # "none"
          /\ Put(k).success = job[k].success /\ Put(k).failed = job[k].failed
  <2> TAKE k \in Jobs
  <2> HAVE Started(k)
  <2>1. job[k] \in JobRecords
    BY DEF ImportInv, ImportTypeOK
  <2>2. CASE Stale(k)
    <3> DEFINE put == [job[k] EXCEPT !.status = "pending"]
    <3>1. put \in JobRecords /\ put.status # "none"
          /\ put.success = job[k].success /\ put.failed = job[k].failed
      BY <2>1 DEF JobRecords, JobStatuses
    <3> QED
      BY <2>2, <3>1
  <2>3. CASE ~Stale(k)
    BY <2>1, <2>3, JobParts
  <2> QED
    BY <2>2, <2>3
<1>4. \A k \in Jobs : ~Started(k) => Put(k) = job[k]
  BY <1>2
<1>5. \A k \in Jobs : Handed(k) \in Nat /\ (~Started(k) => Handed(k) = tasks[k])
  BY <1>2 DEF ImportInv, ImportTypeOK
<1> HIDE DEF Put, Handed
<1>6. \A k \in Jobs : Started(k)' <=> Started(k)
  BY <1>1, <1>3, <1>4 DEF Started
<1>7. \A k \in Jobs : Put(k) \in {NewJob} \cup JobRecords
  BY <1>3, <1>4 DEF ImportInv, ImportTypeOK
<1>8. ImportTypeOK'
  <2>1. job' \in [Jobs -> {NewJob} \cup JobRecords] /\ tasks' \in [Jobs -> Nat]
    BY <1>1, <1>5, <1>7
  <2>2. \A k \in Jobs : Started(k)' => job'[k] \in JobRecords /\ rows'[k] \in Tables
    BY <1>1, <1>3, <1>6 DEF ImportInv, ImportTypeOK
  <2> QED
    BY <1>1, <2>1, <2>2 DEF ImportInv, ImportTypeOK
<1>9. \A k \in Jobs, q \in Workers : Worked(q, k)' <=> Worked(q, k)
  BY <1>1 DEF Worked
<1>10. Schedule'
  <2>1. \A k \in Jobs : ~Started(k)' => tasks'[k] = 0 /\ begun'[k] = 0
    BY <1>1, <1>5, <1>6 DEF ImportInv, Schedule
  <2>2. \A k \in Jobs, q \in Workers : Worked(q, k)' => Started(k)' /\ begun'[k] > 0
    BY <1>1, <1>6, <1>9 DEF ImportInv, Schedule
  <2>3. \A k \in Jobs, q, r \in Workers :
            begun'[k] <= 1 /\ Worked(q, k)' /\ Worked(r, k)' => q = r
    BY <1>1, <1>9 DEF ImportInv, Schedule
  <2> QED
    BY <2>1, <2>2, <2>3 DEF Schedule
<1>11. \A k \in Jobs : Started(k) => /\ job'[k].success = job[k].success
                                     /\ job'[k].failed = job[k].failed
  BY <1>1, <1>3
<1> QED
  BY <1>1, <1>6, <1>8, <1>9, <1>10, <1>11, WorkersLeave

\* Every step.
LEMMA ImportStep == ASSUME ImportInv, ImportNext PROVE ImportInv'
<1>1. CASE JobSteps
  <2>1. CASE \E j \in Jobs, file \in Files, comped, acknowledged \in BOOLEAN :
                 StartImport(j, file, comped, acknowledged)
    BY <2>1, StartImportKept
  <2>2. CASE \E p \in Workers, j \in Jobs : BeginJob(p, j) \/ BeginFails(p, j)
    BY <2>2, BeginJobKept, BeginFailsKept
  <2>3. ASSUME NEW p \in Workers, ListRows(p) \/ ListFails(p) \/ LeaveJob(p) \/ FinishJob(p)
        PROVE  ImportInv'
    BY <2>3, ListRowsKept, JobEnds
  <2>4. ASSUME NEW p \in Workers, CheckRow(p) \/ BookRow(p) \/ MarkRow(p) PROVE ImportInv'
    BY <2>4, CheckRowKept, BookRowKept, MarkRowKept
  <2>5. ASSUME NEW p \in Workers, MarkRowFails(p) PROVE ImportInv'
    <3>1. /\ worker[p].step = "mark" /\ NextRow(p) /\ UNCHANGED <<jobs, tasks, booking>>
      BY <2>5 DEF MarkRowFails, desk
    <3> QED
      BY <3>1, MarkRowFailsKept
  <2> QED
    BY <1>1, <2>1, <2>2, <2>3, <2>4, <2>5 DEF JobSteps
<1>2. CASE Restarts
  BY <1>2, CrashKept, BootKept, AgeKept DEF Restarts
<1>3. CASE Reports
  BY <1>3, DoorKept DEF Reports, OpenReport, BuildReport, desk
<1>4. CASE AtTheDoor
  <2>1. ASSUME NEW w \in WalkIns, NEW comped \in BOOLEAN, InitiateWalkIn(w, comped) PROVE ImportInv'
    BY <2>1, DoorKept DEF InitiateWalkIn, process, desk
  <2>2. ASSUME NEW w \in WalkIns, PayWalkIn(w) \/ CompleteWalkIn(w) PROVE ImportInv'
    BY <2>2, DoorKept DEF PayWalkIn, CompleteWalkIn, process, desk
  <2>3. ASSUME NEW w \in WalkIns, BookWalkIn(w) PROVE ImportInv'
    BY <2>3, BookWalkInKept
  <2> QED
    BY <1>4, <2>1, <2>2, <2>3 DEF AtTheDoor
<1>5. CASE \E k \in Keys : CancelBooking(k)
  BY <1>5, CancelBookingKept
<1>6. CASE \E to \in {"free", "priced", "tiered"} : RevisePrices(to)
  BY <1>6, DoorKept DEF RevisePrices, process, desk
<1> QED
  BY <1>1, <1>2, <1>3, <1>4, <1>5, <1>6 DEF ImportNext, Changes

\* The inductive invariant of the import.
THEOREM ImportInvariant == ImportSpec => []ImportInv
<1>1. ImportInit => ImportInv
  <2> SUFFICES ASSUME ImportInit PROVE ImportInv
    OBVIOUS
  <2>1. \A j \in Jobs : ~Started(j) /\ job[j] \in {NewJob}
    BY DEF ImportInit, Started, NewJob
  <2>2. \A p \in Workers : \A j : ~Worked(p, j)
    BY DEF ImportInit, Worked
  <2>3. DOMAIN booking = {}
    BY DEF ImportInit
  <2>4. ImportTypeOK
    BY <2>1, <2>3 DEF ImportInit, ImportTypeOK, NewJob
  <2>5. Schedule
    BY <2>1, <2>2 DEF ImportInit, Schedule
  <2>6. ImportLines
    BY <2>1, <2>2, <2>3 DEF ImportLines, Has
  <2> QED
    BY <2>4, <2>5, <2>6 DEF ImportInv
<1>2. ImportInv /\ [ImportNext]_importVars => ImportInv'
  <2> SUFFICES ASSUME ImportInv, [ImportNext]_importVars PROVE ImportInv'
    OBVIOUS
  <2>1. CASE UNCHANGED importVars
    BY <2>1, DoorKept DEF importVars, jobs, process, desk
  <2> QED
    BY <2>1, ImportStep
<1> QED
  BY <1>1, <1>2, PTL DEF ImportSpec

\* A job that was uploaded stays, and what is counted stays counted.
LEMMA CountsGrow ==
    ASSUME ImportInv, [ImportNext]_importVars, NEW j \in Jobs, Started(j)
    PROVE  Started(j)' /\ job[j].success <= job'[j].success /\ job[j].failed <= job'[j].failed
<1>0. job[j] \in JobRecords /\ job \in [Jobs -> {NewJob} \cup JobRecords]
  BY DEF ImportInv, ImportTypeOK
<1>1. /\ job[j].success \in Nat /\ job[j].failed \in Nat /\ job[j].status # "none"
      /\ DOMAIN job = Jobs
  BY <1>0, JobParts
<1>2. CASE job'[j] = job[j]
  BY <1>1, <1>2 DEF Started
<1>3. ASSUME NEW status \in JobStatuses, job'[j] = [job[j] EXCEPT !.status = status]
      PROVE  Started(j)' /\ job[j].success <= job'[j].success /\ job[j].failed <= job'[j].failed
  <2>1. /\ job'[j].status # "none"
        /\ job'[j].success = job[j].success /\ job'[j].failed = job[j].failed
    BY <1>0, <1>3 DEF JobRecords, JobStatuses
  <2> QED
    BY <1>1, <2>1 DEF Started
<1>4. ASSUME NEW won \in Nat, NEW gone \in Nat,
             job'[j] = [job[j] EXCEPT !.success = @ + won, !.failed = @ + gone]
      PROVE  Started(j)' /\ job[j].success <= job'[j].success /\ job[j].failed <= job'[j].failed
  <2>1. /\ job'[j].status = job[j].status
        /\ job'[j].success = job[j].success + won /\ job'[j].failed = job[j].failed + gone
    BY <1>0, <1>4 DEF JobRecords
  <2> QED
    BY <1>1, <2>1 DEF Started
<1>5. {"pending", "processing", "completed", "failed"} \subseteq JobStatuses
  BY DEF JobStatuses
<1>6. ASSUME NEW k \in Jobs, NEW file \in Files, NEW comped, NEW acknowledged,
             StartImport(k, file, comped, acknowledged)
      PROVE  job'[j] = job[j]
  BY <1>1, <1>6 DEF StartImport, CreateJobWithRows, Started
<1>7. ASSUME NEW p \in Workers, NEW k \in Jobs, BeginJob(p, k)
      PROVE  job'[j] = job[j] \/ job'[j] = [job[j] EXCEPT !.status = "processing"]
  BY <1>1, <1>7 DEF BeginJob
<1>8. ASSUME NEW p \in Workers, ListFails(p) \/ FinishJob(p)
      PROVE  \/ job'[j] = job[j]
             \/ job'[j] = [job[j] EXCEPT !.status = "failed"]
             \/ job'[j] = [job[j] EXCEPT !.status = "completed"]
  BY <1>1, <1>8 DEF ListFails, FinishJob
<1>9. ASSUME NEW p \in Workers, MarkRow(p)
      PROVE  \/ job'[j] = job[j]
             \/ \E won, gone \in Nat :
                    job'[j] = [job[j] EXCEPT !.success = @ + won, !.failed = @ + gone]
  <2> DEFINE done == worker[p].outcome = "booked"
             won == IF done THEN 1 ELSE 0
             gone == IF done THEN 0 ELSE 1
  <2>1. \/ job' = job
        \/ job' = [job EXCEPT ![worker[p].job].success = @ + won,
                              ![worker[p].job].failed  = @ + gone]
    BY <1>9 DEF MarkRow
  <2>2. won \in Nat /\ gone \in Nat
    OBVIOUS
  <2> HIDE DEF won, gone
  <2> QED
    BY <1>1, <2>1, <2>2
<1>10. ASSUME Boot
       PROVE  job'[j] = job[j] \/ job'[j] = [job[j] EXCEPT !.status = "pending"]
  BY <1>10 DEF Boot
<1>11. CASE JobSteps
  <2>1. ASSUME NEW p \in Workers,
               ListRows(p) \/ LeaveJob(p) \/ CheckRow(p) \/ BookRow(p) \/ MarkRowFails(p)
        PROVE  job' = job
    BY <2>1 DEF ListRows, LeaveJob, CheckRow, BookRow, MarkRowFails, jobs
  <2>2. ASSUME NEW p \in Workers, NEW k \in Jobs, BeginFails(p, k) PROVE job' = job
    BY <2>2 DEF BeginFails, jobs
  <2> QED
    BY <1>2, <1>3, <1>4, <1>5, <1>6, <1>7, <1>8, <1>9, <1>11, <2>1, <2>2 DEF JobSteps
<1>12. CASE Restarts
  <2>1. (Crash \/ \E k \in Jobs : Age(k)) => job' = job
    BY DEF Crash, Age, jobs
  <2> QED
    BY <1>2, <1>3, <1>5, <1>10, <1>12, <2>1 DEF Restarts
<1>13. CASE Reports \/ AtTheDoor \/ Changes \/ UNCHANGED importVars
  <2>1. job' = job
    BY <1>13 DEF Reports, OpenReport, BuildReport, AtTheDoor, InitiateWalkIn, PayWalkIn,
                 CompleteWalkIn, BookWalkIn, Changes, CancelBooking, RevisePrices, importVars, jobs
  <2> QED
    BY <1>2, <2>1
<1> QED
  BY <1>11, <1>12, <1>13 DEF ImportNext

\* Only a report that is opened reads, and it reads what is counted.
LEMMA ReportReadKept ==
    ASSUME ImportInv, ReportRead, [ImportNext]_importVars
    PROVE  ReportRead'
<1>1. CASE report' = report
  <2>1. ASSUME NEW j \in Jobs, report # Closed, j = report.job
        PROVE  /\ Started(j)'
               /\ report.success \in Nat /\ report.success <= job'[j].success
               /\ report.failed \in Nat /\ report.failed <= job'[j].failed
    <3>1. /\ Started(j)
          /\ report.success \in Nat /\ report.success <= job[j].success
          /\ report.failed \in Nat /\ report.failed <= job[j].failed
      BY <2>1 DEF ReportRead
    <3>2. /\ Started(j)' /\ job[j].success <= job'[j].success /\ job[j].failed <= job'[j].failed
      BY <3>1, CountsGrow
    <3>3. ImportInv'
      BY ImportStep, DoorKept DEF importVars, process, desk
    <3>4. job[j] \in JobRecords /\ job'[j] \in JobRecords
      BY <3>1, <3>2, <3>3 DEF ImportInv, ImportTypeOK
    <3>5. /\ job[j].success \in Nat /\ job'[j].success \in Nat
          /\ job[j].failed \in Nat /\ job'[j].failed \in Nat
      BY <3>4, JobParts
    <3> QED
      BY <3>1, <3>2, <3>5
  <2>2. report # Closed => report.job \in Jobs
    BY DEF ReportRead
  <2>3. \A j \in Jobs : Started(j)' <=> job'[j].status # "none"
    BY DEF Started
  <2> QED
    BY <1>1, <2>1, <2>2, <2>3 DEF ReportRead, Started
<1>2. CASE report' = Closed
  BY <1>2 DEF ReportRead
<1>3. ASSUME NEW j \in Jobs, OpenReport(j) PROVE ReportRead'
  <2>1. /\ report'.job = j /\ report'.success = job[j].success /\ report'.failed = job[j].failed
        /\ job' = job /\ Started(j)
    BY <1>3 DEF OpenReport, jobs
  <2>2. job[j].success \in Nat /\ job[j].failed \in Nat
    BY <2>1, JobParts DEF ImportInv, ImportTypeOK
  <2> QED
    BY <2>1, <2>2 DEF ReportRead, Started
<1>4. report' = report \/ report' = Closed \/ \E j \in Jobs : OpenReport(j)
  <2>1. CASE JobSteps
    BY <2>1 DEF JobSteps, StartImport, BeginJob, BeginFails, ListRows, ListFails, LeaveJob,
                CheckRow, BookRow, MarkRow, MarkRowFails, FinishJob
  <2>2. CASE Restarts
    BY <2>2 DEF Restarts, Crash, Boot, Age, process
  <2>3. CASE Reports
    BY <2>3 DEF Reports, BuildReport
  <2>4. CASE AtTheDoor \/ Changes \/ UNCHANGED importVars
    BY <2>4 DEF AtTheDoor, InitiateWalkIn, PayWalkIn, CompleteWalkIn, BookWalkIn, Changes,
                CancelBooking, RevisePrices, importVars, process
  <2> QED
    BY <2>1, <2>2, <2>3, <2>4 DEF ImportNext
<1> QED
  BY <1>1, <1>2, <1>3, <1>4

\* For any files, workers, timeouts, crashes, restarts and cancellations: the report
\* a host downloads calls a line "Booked" only with its booking, "Not booked" only
\* without one unless its attempt timed out or a second worker began the job; its
\* counts are never ahead of its lines, and it never asks for more than the seats
\* booked (BuildReport in booking_import_service.go).
THEOREM ReportAlwaysTrue == ImportSpec => []ReportIsTrue
<1>1. ImportInit => ReportRead
  BY DEF ImportInit, ReportRead
<1>2. ImportInv /\ ReportRead /\ [ImportNext]_importVars => ReportRead'
  BY ReportReadKept
<1>3. ImportInv /\ ReportRead => ReportIsTrue
  BY LinesMakeReport
<1> QED
  BY <1>1, <1>2, <1>3, ImportInvariant, PTL DEF ImportSpec
===============================================================================
