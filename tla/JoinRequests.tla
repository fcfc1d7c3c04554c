------------------------------ MODULE JoinRequests ------------------------------
(***************************************************************************)
(* Requests to join the sessions of one private event whose host vets the  *)
(* guests (internal/service/join_request_service.go, its repository, and   *)
(* the private-event gate of CreateBooking).                               *)
(***************************************************************************)
EXTENDS FiniteSets, Naturals

CONSTANTS
    Requests,  \* submissions
    By,        \* the guest who sends each
    For,       \* the session it asks for
    Reviewers  \* the host, a co-host, an administrator

ASSUME RequestAssumption ==
    /\ IsFiniteSet(Requests)
    /\ DOMAIN By = Requests /\ DOMAIN For = Requests

VARIABLES
    request,    \* event_join_requests.status; "none" before it is written
    submitting, \* submissions that found no live request
    reviewing,  \* decisions under way: <<reviewer, request, approve>>
    telling,    \* decisions that were written, whose guest is yet to be told
    told,       \* what the guest was told of each request
    gated,      \* bookings that passed the private-event gate
    admitted    \* guests and sessions booked

joinVars == <<request, submitting, reviewing, telling, told, gated, admitted>>

Seats == {<<By[r], For[r]>> : r \in Requests}

Live(g, s) ==
    {r \in Requests : By[r] = g /\ For[r] = s /\ request[r] \in {"pending", "approved"}}

JoinInit ==
    /\ request = [r \in Requests |-> "none"]
    /\ submitting = {} /\ reviewing = {} /\ telling = {}
    /\ told = [r \in Requests |-> {}]
    /\ gated = {} /\ admitted = {}

\* Submit: GetLiveForUser, and then Create.
ReadLive(r) ==
    /\ request[r] = "none"
    /\ Live(By[r], For[r]) = {}
    /\ submitting' = submitting \cup {r}
    /\ UNCHANGED <<request, reviewing, telling, told, gated, admitted>>

\* Fault: the check alone, without the unique index behind it.
Unindexed(r) == TRUE

\* event_join_requests_active_key: one live request per guest and session.
Unique(r) == Live(By[r], For[r]) = {}

CreateRequest(r) ==
    /\ r \in submitting
    /\ submitting' = submitting \ {r}
    /\ request' = IF Unique(r) THEN [request EXCEPT ![r] = "pending"] ELSE request
    /\ UNCHANGED <<reviewing, telling, told, gated, admitted>>

\* Fault: the WHERE clause without its status.
DecidedOrNot(r) == request[r] # "none"

\* The WHERE clause of Review and of Withdraw.
Undecided(r) == request[r] = "pending"

WithdrawRequest(r) ==
    /\ Undecided(r)
    /\ request' = [request EXCEPT ![r] = "withdrawn"]
    /\ UNCHANGED <<submitting, reviewing, telling, told, gated, admitted>>

\* A reviewer opens a request, whatever its status, and decides it later.
OpenReview(v, r, approve) ==
    /\ request[r] # "none"
    /\ \A d \in reviewing \cup telling : d[1] # v
    /\ reviewing' = reviewing \cup {<<v, r, approve>>}
    /\ UNCHANGED <<request, submitting, telling, told, gated, admitted>>

Verdict(approve) == IF approve THEN "approved" ELSE "rejected"

\* The decision: the second of two reviewers matches no row, and has nobody to
\* tell.
Review(v, r, approve) ==
    /\ <<v, r, approve>> \in reviewing
    /\ reviewing' = reviewing \ {<<v, r, approve>>}
    /\ IF Undecided(r)
       THEN /\ request' = [request EXCEPT ![r] = Verdict(approve)]
            /\ telling' = telling \cup {<<v, r, approve>>}
       ELSE UNCHANGED <<request, telling>>
    /\ UNCHANGED <<submitting, told, gated, admitted>>

\* The request is read again and its guest written to, if the answer of the
\* UPDATE came, the read succeeds and the message gets through.
TellGuest(v, r, approve) ==
    /\ <<v, r, approve>> \in telling
    /\ telling' = telling \ {<<v, r, approve>>}
    /\ \/ told' = [told EXCEPT ![r] = @ \cup {Verdict(approve)}]
       \/ UNCHANGED told
    /\ UNCHANGED <<request, submitting, reviewing, gated, admitted>>

\* HasApproved, and the gate of CreateBooking: it reads one live request.
HasApproved(g, s) ==
    LET live == Live(g, s) IN live # {} /\ request[CHOOSE r \in live : TRUE] = "approved"

PassGate(g, s) ==
    /\ HasApproved(g, s)
    /\ gated' = gated \cup {<<g, s>>}
    /\ UNCHANGED <<request, submitting, reviewing, telling, told, admitted>>

\* The transaction of CreateBooking does not look again.
BookGated(g, s) ==
    /\ <<g, s>> \in gated
    /\ gated' = gated \ {<<g, s>>}
    /\ admitted' = admitted \cup {<<g, s>>}
    /\ UNCHANGED <<request, submitting, reviewing, telling, told>>

JoinNext ==
    \/ \E r \in Requests : ReadLive(r) \/ CreateRequest(r) \/ WithdrawRequest(r)
    \/ \E v \in Reviewers, r \in Requests, approve \in BOOLEAN :
           OpenReview(v, r, approve) \/ Review(v, r, approve) \/ TellGuest(v, r, approve)
    \/ \E seat \in Seats : PassGate(seat[1], seat[2]) \/ BookGated(seat[1], seat[2])

JoinSpec == JoinInit /\ [][JoinNext]_joinVars

------------------------------------------------------------------------------
JoinTypeOK ==
    /\ request \in [Requests -> {"none", "pending", "approved", "rejected", "withdrawn"}]
    /\ submitting \subseteq Requests
    /\ reviewing \cup telling \subseteq Reviewers \X Requests \X BOOLEAN
    /\ told \in [Requests -> SUBSET {"approved", "rejected"}]
    /\ gated \subseteq Seats /\ admitted \subseteq Seats

\* Whatever two reviewers and the guest do at the same time, a guest is told
\* one verdict at most, and it is the one the request keeps; of a request that
\* was withdrawn, or is not decided, nothing is said.
OneVerdict ==
    \A r \in Requests :
        told[r] \subseteq IF request[r] \in {"approved", "rejected"} THEN {request[r]} ELSE {}

\* The gate is read before the booking's transaction and not again: a guest
\* let in still has the approval for that session, and no second request next
\* to it for the gate to read instead.
AdmittedStaysApproved ==
    \A seat \in gated \cup admitted :
        \E r \in Requests : Live(seat[1], seat[2]) = {r} /\ request[r] = "approved"
==============================================================================
