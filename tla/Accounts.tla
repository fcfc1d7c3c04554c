-------------------------------- MODULE Accounts --------------------------------
(***************************************************************************)
(* How a person comes to have a row in `users`, and finds it again: signing*)
(* up with an e-mail, logging in by phone, being registered by an          *)
(* administrator or as a walk-in (internal/service/user_service.go,        *)
(* walkin_service.go, internal/repository/user_repository.go).             *)
(*                                                                         *)
(* Only auth_uid is UNIQUE.  Every way looks the row up in one statement   *)
(* and writes in another.                                                  *)
(***************************************************************************)
EXTENDS Integers

CONSTANTS
    Visits,      \* requests that may make a row, one each
    Way,         \* "signup", "login", "admin" or "walkin"
    PhoneOf,     \* the phone given, as [number, form]; number NoPhone if none
    EmailOf,     \* the e-mail given, NoEmail if none
    NoPhone, NoEmail, NoVisit

ASSUME AccountsAssumption ==
    /\ Way \in [Visits -> {"signup", "login", "admin", "walkin"}]
    /\ NoVisit \notin Visits
    /\ \A v \in Visits : Way[v] = "signup" => EmailOf[v] # NoEmail
    /\ \A v \in Visits : Way[v] # "signup" => PhoneOf[v].number # NoPhone
    /\ \A v \in Visits : DOMAIN PhoneOf[v] = {"number", "form"}

VARIABLES
    users,    \* the row each visit made: auth_uid, and created_at
    visit,    \* what each visit is doing
    claimed,  \* rows that a sign-up took over
    tokens,   \* the tokens phone logins were given: the uid in it, and the row
    verified, \* users.is_phone_verified
    instant   \* the clock that stamps created_at

acVars == <<users, visit, claimed, tokens, verified, instant>>

NoUser == [uid |-> <<>>, born |-> 0]
Rows   == {v \in Visits : users[v] # NoUser}
Waiting == [pc |-> "new", row |-> NoVisit, uid |-> <<>>, born |-> 0, knew |-> {}]

------------------------------------------------------------------------------
(* Look-ups.                                                               *)

\* GetByPhone compares the last ten digits, whatever the form.
\* Fault: it compares the text.
SamePhoneExactly(v, w) == PhoneOf[v] = PhoneOf[w]
SamePhone(v, w)        == PhoneOf[v].number = PhoneOf[w].number

\* The oldest row of that phone, and any row of that e-mail.
ByPhone(v) ==
    {r \in Rows : SamePhone(v, r)
                    /\ \A s \in Rows : SamePhone(v, s) => users[r].born <= users[s].born}
ByEmail(v) == {r \in Rows : EmailOf[v] # NoEmail /\ EmailOf[r] = EmailOf[v]}
ByUid(uid) == {r \in Rows : users[r].uid = uid}

\* An administrator's form is normalised; a login's is taken as it comes.
Normal(phone) == [phone EXCEPT !.form = "+91"]
NewUid(v) ==
    CASE Way[v] = "signup" -> <<"firebase", EmailOf[v]>>
      [] Way[v] = "walkin" -> <<"walkin", v>>
      [] Way[v] = "admin"  -> <<"phone", Normal(PhoneOf[v])>>
      [] Way[v] = "login"  -> <<"phone", PhoneOf[v]>>
Placeholder(r) == users[r].uid[1] = "phone"

------------------------------------------------------------------------------
(* A visit.                                                                *)

Proceed(v, pc) == visit' = [visit EXCEPT ![v].pc = pc]

\* It knows its row, and the uid it has read there.
Found(v, pc, r, uid) ==
    visit' = [visit EXCEPT ![v].pc = pc, ![v].row = r, ![v].uid = uid]

Visit(v, pc) == visit[v].pc = pc

\* No row is there: the new one is stamped, and inserted later.  knew: the rows
\* the look-up could see.
Prepare(v) ==
    /\ visit' = [visit EXCEPT ![v].pc = "creating", ![v].born = instant + 1, ![v].knew = Rows]
    /\ instant' = instant + 1
    /\ UNCHANGED <<users, claimed, tokens, verified>>

Meet(v, pc, r) ==
    /\ Found(v, pc, r, users[r].uid)
    /\ UNCHANGED <<users, claimed, tokens, verified, instant>>

\* SignUp looks at the e-mail only: a placeholder is claimed, a real account
\* refused.
SignUp(v) ==
    /\ Visit(v, "new") /\ Way[v] = "signup"
    /\ \/ ByEmail(v) = {} /\ Prepare(v)
       \/ \E r \in ByEmail(v) : Meet(v, IF Placeholder(r) THEN "claiming" ELSE "done", r)

\* SendLoginOTP; and the provider's answer about the code the guest types.
SendLoginOTP(v) ==
    /\ Visit(v, "new") /\ Way[v] = "login"
    /\ Proceed(v, "coded")
    /\ UNCHANGED <<users, claimed, tokens, verified, instant>>

VerifyOTP(v) ==
    /\ Visit(v, "coded")
    /\ \E pc \in {"proved", "done"} : Proceed(v, pc)
    /\ UNCHANGED <<users, claimed, tokens, verified, instant>>

\* VerifyLoginOTP, once the code is accepted.
VerifyLoginOTP(v) ==
    /\ Visit(v, "proved")
    /\ \/ ByPhone(v) = {} /\ Prepare(v)
       \/ \E r \in ByPhone(v) : Meet(v, "issuing", r)

\* CreateUserByPhone refuses a phone or an e-mail that is there.
CreateUserByPhone(v) ==
    /\ Visit(v, "new") /\ Way[v] = "admin"
    /\ \/ ByPhone(v) \cup ByEmail(v) = {} /\ Prepare(v)
       \/ \E r \in ByPhone(v) \cup ByEmail(v) : Meet(v, "done", r)

\* findOrCreateGuest takes the row that is there.
FindOrCreateGuest(v) ==
    /\ Visit(v, "new") /\ Way[v] = "walkin"
    /\ \/ ByPhone(v) = {} /\ Prepare(v)
       \/ \E r \in ByPhone(v) : Meet(v, "done", r)

\* Create; a uid that is there is an error.  The INSERT leaves
\* is_phone_verified at its default.
Create(v) ==
    /\ Visit(v, "creating")
    /\ IF ByUid(NewUid(v)) = {}
       THEN /\ users' = [users EXCEPT ![v] = [uid |-> NewUid(v), born |-> visit[v].born]]
            /\ Found(v, IF Way[v] = "login" THEN "issuing" ELSE "done", v, NewUid(v))
       ELSE UNCHANGED users /\ Proceed(v, "done")
    /\ UNCHANGED <<claimed, tokens, verified, instant>>

\* SetAuthUID, whatever the row's uid has become.
Claim(v) ==
    LET r == visit[v].row IN
    /\ Visit(v, "claiming")
    /\ Proceed(v, "done")
    /\ IF ByUid(NewUid(v)) \subseteq {r}
       THEN /\ users' = [users EXCEPT ![r].uid = NewUid(v)]
            /\ claimed' = claimed \cup {r}
       ELSE UNCHANGED <<users, claimed>>
    /\ UNCHANGED <<tokens, verified, instant>>

\* The token carries the uid that was read; a row met again is marked verified.
IssueToken(v) ==
    LET r == visit[v].row IN
    /\ Visit(v, "issuing")
    /\ Proceed(v, "done")
    /\ tokens' = tokens \cup {[uid |-> visit[v].uid, row |-> r]}
    /\ verified' = IF r = v THEN verified ELSE verified \cup {r}
    /\ UNCHANGED <<users, claimed, instant>>

\* A request that fails, or dies with its process.
GiveUpVisit(v) ==
    /\ ~Visit(v, "new") /\ ~Visit(v, "done")
    /\ Proceed(v, "done")
    /\ UNCHANGED <<users, claimed, tokens, verified, instant>>

AccountsInit ==
    /\ users = [v \in Visits |-> NoUser]
    /\ visit = [v \in Visits |-> Waiting]
    /\ claimed = {} /\ tokens = {} /\ verified = {}
    /\ instant = 0

AccountsNext ==
    \E v \in Visits :
       \/ SignUp(v) \/ CreateUserByPhone(v) \/ FindOrCreateGuest(v)
       \/ SendLoginOTP(v) \/ VerifyOTP(v) \/ VerifyLoginOTP(v)
       \/ Create(v) \/ Claim(v) \/ IssueToken(v) \/ GiveUpVisit(v)

AccountsSpec == AccountsInit /\ [][AccountsNext]_acVars

------------------------------------------------------------------------------
(* Properties.                                                             *)

\* Two rows neither of which the other's look-up could have seen.
Overlapped(r, s) == r \notin visit[s].knew /\ s \notin visit[r].knew

\* A phone has two rows only if two requests made them at the same time, or a
\* sign-up, which does not look at phones, made one of them: whatever form the
\* number is written in.  A login goes to the oldest of them, by when it was
\* prepared.
OneRowPerPhone ==
    \A r, s \in Rows :
        r # s /\ SamePhone(r, s) /\ PhoneOf[r].number # NoPhone =>
            Overlapped(r, s) \/ "signup" \in {Way[r], Way[s]}

\* A phone login's token, good for a month, leads to the row it was issued for
\* until a sign-up claims that row; from then on to none, and to another only
\* if that one was made at the same time and is of the same phone.
TokenKeepsItsRow ==
    \A t \in tokens :
        \/ ByUid(t.uid) = {t.row}
        \/ /\ t.row \in claimed
           /\ \A r \in ByUid(t.uid) : SamePhone(r, t.row) /\ Overlapped(r, t.row)

\* A person keeps one row, and the way back to it.
PeopleKeepTheirRows == OneRowPerPhone /\ TokenKeepsItsRow

==============================================================================
