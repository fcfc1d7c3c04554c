------------------------------ MODULE HostProfile ------------------------------
(***************************************************************************)
(* One host's row: the application and its review, profile edits, the      *)
(* background Instagram scrape and the reviews                             *)
(* (internal/service/host_service.go, review_service.go, the host          *)
(* repository and the administrators' controller).                         *)
(*                                                                         *)
(* Most requests read the whole row, change it in memory and write it back *)
(* (hostRepository.Update); nothing locks it in between.                   *)
(***************************************************************************)
EXTENDS Naturals, Sequences, FiniteSetsExt

CONSTANTS
    Owners,     \* requests of the host, at once
    Staff,      \* requests of administrators
    Guests,     \* reviewers
    Handles,    \* Instagram profiles
    Stars,      \* the reviews the host's events get, in order
    MaxEdits    \* bound: times the row is written

ASSUME HostAssumption == Stars \in Seq(1 .. 5) /\ MaxEdits \in Nat

VARIABLES
    row,      \* the columns of hosts that Update writes
    flags,    \* those it does not: is_active and instagram_scraped_at
    verified, \* users.is_verified
    lapsed,   \* a host was approved and the statement that verifies the user lost
    editing,  \* what each request has in memory
    scrapes,  \* goroutines fetching from Instagram: with the photo, or only posts
    reviews,  \* how many of the reviews are written
    rating,   \* how far each reviewer's request has come
    edits     \* how often the row was written

hpVars == <<row, flags, verified, lapsed, editing, scrapes, reviews, rating, edits>>

Requesters  == Owners \cup Staff
Statuses == {"draft", "pending", "under_review", "approved", "rejected"}
Idle     == [step |-> "idle"]

NoRow ==
    [status |-> "none", fee |-> "default", avatar |-> "none", fromInstagram |-> FALSE,
     handle |-> "none", sum |-> 0, count |-> 0]

\* A host approved long ago, or a user who never applied.
HostInit ==
    /\ row \in {NoRow, [NoRow EXCEPT !.status = "approved"]}
    /\ verified = (row.status = "approved")
    /\ flags = [active |-> TRUE, scraped |-> FALSE]
    /\ lapsed = FALSE
    /\ editing = [p \in Requesters |-> Idle]
    /\ scrapes = {}
    /\ reviews = 0 /\ rating = [g \in Guests |-> [step |-> "idle", seen |-> 0]]
    /\ edits = 0

------------------------------------------------------------------------------
(* A request reads the row and works out what to write.                    *)

Open(p, copy, next) ==
    /\ editing[p] = Idle
    /\ editing' = [editing EXCEPT ![p] =
           [step |-> "save", read |-> row, copy |-> copy,
            scraped |-> flags.scraped, next |-> next]]
    /\ UNCHANGED <<row, flags, verified, lapsed, scrapes, reviews, rating, edits>>

\* Fault: an application is taken whatever became of the last one.
AppliesAnyTime(status) == TRUE

\* saveHostApplication: only a draft or a rejected application is reopened.
MayApply(status) == status \in {"none", "draft", "rejected"}

\* The photo is replaced by the request's, if any; where it came from is not.
Apply(p, submit, avatar, handle) ==
    /\ MayApply(row.status)
    /\ Open(p, [row EXCEPT !.status = IF submit THEN "pending" ELSE "draft",
                           !.avatar = avatar, !.handle = handle],
            IF submit THEN "submit" ELSE "done")

\* applyProfileUpdate, for the host and for an administrator.
UpdateAvatar(p, avatar) ==
    /\ row.status # "none"
    /\ Open(p, [row EXCEPT !.avatar = avatar, !.fromInstagram = FALSE], "done")

\* Columns that nothing here depends on: the row is written all the same.
UpdateProfile(p) == row.status # "none" /\ Open(p, row, "done")

\* UpdateProfile with another link, ConnectSocial and DisconnectSocial.
SetInstagram(p, handle) ==
    /\ row.status # "none"
    /\ Open(p, [row EXCEPT !.handle = handle],
            IF handle \notin {"none", row.handle} THEN "rescrape" ELSE "done")

Reviewable == row.status \in {"pending", "under_review"}

ApproveApplication(p) ==
    Reviewable /\ Open(p, [row EXCEPT !.status = "approved"], "verify")

RejectApplication(p) == Reviewable /\ Open(p, [row EXCEPT !.status = "rejected"], "done")

\* Fault: the administrator's override forgets the user.
OverrideThen(status) == "override"

\* Entering "approved" applies the side effects of ApproveApplication.
AfterStatus(status) == IF status = "approved" THEN "verify" ELSE "override"

SetApplicationStatus(p, status) ==
    /\ row.status \notin {"none", status}
    /\ Open(p, [row EXCEPT !.status = status], AfterStatus(status))

------------------------------------------------------------------------------
(* It writes the row back.                                                 *)

\* Fault: a column is missing from the statement.
UpdateWithoutCount(copy) == [copy EXCEPT !.count = row.count]

\* hostRepository.Update: the whole row as it was read and changed.
Update(copy) == copy

\* A scrape fetches the photo only if the copy it was given would take it.
Scrape(copy) == copy.avatar = "none" \/ copy.fromInstagram

\* maybeScrapeInstagramMedia after a submission, rescrapeInstagram after a
\* change of link.
Spawned(edit) ==
    CASE edit.next = "rescrape" -> {Scrape(edit.copy)}
      [] edit.next = "submit" /\ ~edit.scraped /\ edit.copy.avatar = "none"
                              /\ edit.copy.handle # "none" -> {Scrape(edit.copy)}
      [] OTHER -> {}

\* A user has one row: the second of two first applications fails.
Save(p) ==
    /\ editing[p].step = "save" /\ edits < MaxEdits
    /\ LET edit == editing[p] IN
       IF edit.read.status = "none" /\ row.status # "none"
       THEN /\ editing' = [editing EXCEPT ![p] = Idle]
            /\ UNCHANGED <<row, scrapes, edits>>
       ELSE /\ row' = Update(edit.copy)
            /\ scrapes' = scrapes \cup Spawned(edit)
            /\ editing' = [editing EXCEPT ![p] =
                   IF edit.next = "verify" THEN [step |-> "verify"] ELSE Idle]
            /\ edits' = edits + 1
    /\ UNCHANGED <<flags, verified, lapsed, reviews, rating>>

\* userRepository.SetVerified, a statement of its own.
VerifyUser(p) ==
    /\ editing[p].step = "verify"
    /\ verified' = TRUE
    /\ editing' = [editing EXCEPT ![p] = Idle]
    /\ UNCHANGED <<row, flags, lapsed, scrapes, reviews, rating, edits>>

\* The request is cut off, or its next statement fails.
CutOff(p) ==
    /\ editing[p] # Idle
    /\ lapsed' = (lapsed \/ editing[p].step = "verify")
    /\ editing' = [editing EXCEPT ![p] = Idle]
    /\ UNCHANGED <<row, flags, verified, scrapes, reviews, rating, edits>>

\* Statements that write one column and leave the others alone.
SetPlatformFee(fee) ==
    /\ row.status # "none" /\ edits < MaxEdits
    /\ row' = [row EXCEPT !.fee = fee] /\ edits' = edits + 1
    /\ UNCHANGED <<flags, verified, lapsed, editing, scrapes, reviews, rating>>

SetActive(on) ==
    /\ row.status # "none" /\ edits < MaxEdits
    /\ flags' = [flags EXCEPT !.active = on] /\ edits' = edits + 1
    /\ UNCHANGED <<row, verified, lapsed, editing, scrapes, reviews, rating>>

------------------------------------------------------------------------------
(* Instagram.                                                              *)

\* cmd/backfill-instagram: hosts that were never scraped, or with -refresh
\* those that were.
Backfill ==
    /\ row.handle # "none" /\ edits < MaxEdits
    /\ flags.scraped \/ row.avatar = "none"
    /\ scrapes' = scrapes \cup {Scrape(row)} /\ edits' = edits + 1
    /\ UNCHANGED <<row, flags, verified, lapsed, editing, reviews, rating>>

MayReplaceAvatar == row.avatar = "none" \/ row.fromInstagram

\* ScrapeInstagramMedia: what it could fetch, and SaveInstagramMedia.
FinishScrape(avatar, photo, posts) ==
    LET replaces == avatar /\ photo /\ MayReplaceAvatar IN
    /\ avatar \in scrapes
    /\ scrapes' = scrapes \ {avatar}
    /\ IF (avatar /\ photo) \/ posts
       THEN /\ row' = [row EXCEPT
                   !.avatar        = IF replaces THEN "scraped" ELSE @,
                   !.fromInstagram = @ \/ replaces]
            /\ flags' = [flags EXCEPT !.scraped = TRUE]
       ELSE UNCHANGED <<row, flags>>
    /\ UNCHANGED <<verified, lapsed, editing, reviews, rating, edits>>

------------------------------------------------------------------------------
(* Reviews: inserted, listed, and averaged over what was listed.           *)

Total(n) == SumFunctionOnSet(Stars, 1 .. n)

CreateReview(g) ==
    /\ rating[g].step = "idle" /\ reviews < Len(Stars) /\ row.status = "approved"
    /\ reviews' = reviews + 1
    /\ rating' = [rating EXCEPT ![g].step = "list"]
    /\ UNCHANGED <<row, flags, verified, lapsed, editing, scrapes, edits>>

ListReviews(g) ==
    /\ rating[g].step = "list"
    /\ rating' = [rating EXCEPT ![g] = [step |-> "write", seen |-> reviews]]
    /\ UNCHANGED <<row, flags, verified, lapsed, editing, scrapes, reviews, edits>>

UpdateAverageRating(g) ==
    /\ rating[g].step = "write"
    /\ rating' = [rating EXCEPT ![g].step = "idle"]
    /\ row' = [row EXCEPT !.sum = Total(rating[g].seen), !.count = rating[g].seen]
    /\ UNCHANGED <<flags, verified, lapsed, editing, scrapes, reviews, edits>>

------------------------------------------------------------------------------
HostNext ==
    \/ \E p \in Owners :
           \/ \E submit \in BOOLEAN, avatar \in {"none", "own"},
                 handle \in Handles \cup {"none"} : Apply(p, submit, avatar, handle)
           \/ \E handle \in Handles \cup {"none"} : SetInstagram(p, handle)
    \/ \E p \in Requesters, avatar \in {"none", "own"} : UpdateAvatar(p, avatar)
    \/ \E p \in Requesters : UpdateProfile(p)
    \/ \E p \in Staff :
           \/ ApproveApplication(p) \/ RejectApplication(p)
           \/ \E status \in Statuses : SetApplicationStatus(p, status)
    \/ \E p \in Requesters : Save(p) \/ VerifyUser(p) \/ CutOff(p)
    \/ SetPlatformFee("special")
    \/ SetActive(FALSE)
    \/ Backfill
    \/ \E avatar \in scrapes, photo, posts \in BOOLEAN : FinishScrape(avatar, photo, posts)
    \/ \E g \in Guests : CreateReview(g) \/ ListReviews(g) \/ UpdateAverageRating(g)

HostSpec == HostInit /\ [][HostNext]_hpVars

------------------------------------------------------------------------------
(* Properties.                                                             *)

\* An approved host is withdrawn only by an administrator who chose another
\* status, or by a request that read the row before it last changed: the
\* host's own edits, scrapes and reviews never do it by themselves.
ApprovalStands ==
    [][row.status = "approved" /\ row'.status # "approved" =>
           \E p \in Requesters :
               /\ editing[p].step = "save" /\ editing'[p] # editing[p]
               /\ editing[p].read # row \/ editing[p].next = "override"]_hpVars

\* Whoever is shown as approved is a verified user, however the approval came
\* about and whatever was undone and redone since, unless the statement that
\* verifies was lost.
ApprovedIsVerified ==
    row.status = "approved" /\ ~lapsed =>
        verified \/ \E p \in Requesters : editing[p].step = "verify"

\* The rating shown was, at some moment, the exact average of all the reviews
\* there were: stale perhaps, and brought back by an old copy of the row, but
\* never of some reviews and the count of others.
RatingWasTrue == row.count <= reviews /\ row.sum = Total(row.count)

\* What a host's page shows is true: the approval and the rating.
ProfileIsTrue == ApprovedIsVerified /\ RatingWasTrue

==============================================================================
