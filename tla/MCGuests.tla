-------------------------------- MODULE MCGuests --------------------------------
(* Guests' accounts, the import of bookings, requests to join a private      *)
(* event, reminders, the chat assistant and the schema's migrations share no *)
(* state here: a behaviour moves one of them, chosen at the start, so that   *)
(* one run explores the sum of their states.                                 *)
EXTENDS Accounts, BookingImport, JoinRequests, Notices, KnowledgeBase, Migrations, TLC

CONSTANTS ann, bob, j1, j2, p1, p2, w1, q1, q2, q3, host, admin,
          n1, n2, a1, a2, a3, i1, i2, c1, c2,
          v1, v2, v3, v4, v5, num, mail, d1, d2

VARIABLE focus

Line(g, q) == [named |-> TRUE, phone |-> g, quantity |-> q]

\* Two guests; and a guest listed twice, first with a quantity that is wrong,
\* after a line without a phone.
mcFiles == {<<Line(ann, 1), Line(bob, 2)>>,
            <<Line(Nobody, 1), Line(ann, 0), Line(ann, 1), Line(bob, 1)>>}
mcParty == (w1 :> [guest |-> ann, quantity |-> 1])

\* A guest asks for one session twice, and for another.
mcBy  == [q \in {q1, q2, q3} |-> ann]
mcFor == (q1 :> 1) @@ (q2 :> 1) @@ (q3 :> 2)

\* A guest with both channels and one without a mailbox; three accounts, of
\* which two share a telephone and two a mailbox.
mcReachable == (n1 :> Channels) @@ (n2 :> {"whatsapp"})
mcPhone     == (a1 :> "phone1") @@ (a2 :> "phone1") @@ (a3 :> "phone2")
mcEmail     == (a1 :> "mail1") @@ (a2 :> "mail2") @@ (a3 :> "mail1")

\* Two hosts, of which a query returns one, and a document of two chunks.
mcTable  == <<"hosts", "hosts", "documents">>
mcLength == <<2, 2, 5>>

\* One person's five ways to a row; only the sign-up and the administrator know
\* the mailbox.
Given(way) == [number |-> num, form |-> way]
mcWay     == (v1 :> "signup") @@ (v2 :> "login") @@ (v3 :> "admin") @@ (v4 :> "walkin")
             @@ (v5 :> "login")
mcPhoneOf == [v \in {v1, v2, v3} |-> Given("0")] @@ [v \in {v4, v5} |-> Given("+91")]
mcEmailOf == [v \in {v1, v3} |-> mail] @@ [v \in {v2, v4, v5} |-> NoEmail]

\* A migration with its way back, one with nothing to execute, and one with
\* nothing between its markers; a deployment of a branch without the first.
mcText     == <<<<"up", "create", "down", "drop">>, <<"up", "", "down", "drop">>,
                <<"up", "down", "drop">>>>
mcCheckout == (d1 :> {2, 3}) @@ (d2 :> {1, 2, 3})

Init ==
    /\ focus \in {"account", "import", "door", "join", "remind", "promote", "ingest", "chat", "migrate"}
    /\ AccountsInit /\ ImportInit /\ JoinInit /\ NoticeInit /\ KnowledgeInit /\ MigrationsInit
    /\ focus \notin {"import", "door"} => prices = "free"
    /\ focus # "ingest" => stored = {}
    /\ focus \notin {"ingest", "chat"} => index = {}

Next ==
    /\ \/ focus = "account" /\ AccountsNext
          /\ UNCHANGED <<importVars, joinVars, noticeVars, kbVars, migrationVars>>
       \/ focus = "import" /\ (JobSteps \/ Restarts \/ Reports \/ Changes)
          /\ UNCHANGED <<acVars, joinVars, noticeVars, kbVars, migrationVars>>
       \/ focus = "door" /\ (JobSteps \/ Reports \/ AtTheDoor \/ Changes)
          /\ UNCHANGED <<acVars, joinVars, noticeVars, kbVars, migrationVars>>
       \/ focus = "join" /\ JoinNext
          /\ UNCHANGED <<acVars, importVars, noticeVars, kbVars, migrationVars>>
       \/ focus = "remind" /\ RemindNext
          /\ UNCHANGED <<acVars, importVars, joinVars, kbVars, migrationVars>>
       \/ focus = "promote" /\ PromoteNext
          /\ UNCHANGED <<acVars, importVars, joinVars, kbVars, migrationVars>>
       \/ focus = "ingest" /\ IngestNext
          /\ UNCHANGED <<acVars, importVars, joinVars, noticeVars, migrationVars>>
       \/ focus = "chat" /\ ChatNext
          /\ UNCHANGED <<acVars, importVars, joinVars, noticeVars, migrationVars>>
       \/ focus = "migrate" /\ MigrationsNext
          /\ UNCHANGED <<acVars, importVars, joinVars, noticeVars, kbVars>>
    /\ UNCHANGED focus

Spec == Init /\ [][Next]_<<acVars, importVars, joinVars, noticeVars, kbVars, migrationVars, focus>>

Symmetry == Permutations(Workers)
==============================================================================
