------------------------------- MODULE Migrations -------------------------------
(***************************************************************************)
(* The migration runner of a deployment (cmd/migrate/run.go): the files of *)
(* its checkout that schema_migrations does not know are executed in the   *)
(* order of their names, and recorded.  A file's statements run in the     *)
(* implicit transaction of one call; its record is a second call.          *)
(*                                                                         *)
(* A file is a sequence of lines: the two markers, statements and blanks.  *)
(* Two deployments may overlap, and each may be cut off by its deadline,   *)
(* by an error or by its host.                                             *)
(***************************************************************************)
EXTENDS Integers, Sequences, FiniteSetsExt

CONSTANTS
    Names,       \* migrations, by the rank of their file's name
    Text,        \* their lines: "up", "down", a statement, or ""
    Runners,     \* deployments
    Checkout,    \* the migrations in each one's directory
    MaxRuns      \* bound: how often a deployment is run

ASSUME MigrationsAssumption ==
    /\ Names \subseteq Nat
    /\ \A r \in Runners : Checkout[r] \subseteq Names
    /\ MaxRuns \in Nat

VARIABLES
    recorded,    \* schema_migrations
    executed,    \* how often each migration's statements were committed
    runner,      \* each deployment: what it is doing and what it has pending
    cuts,        \* how often a migration was executed and not recorded
    tries        \* how often each deployment was run

migrationVars == <<recorded, executed, runner, cuts, tries>>

Absent == [step |-> "absent", pending |-> {}]

------------------------------------------------------------------------------
(* extractUpSQL.                                                           *)

Marked(n, marker) == {i \in DOMAIN Text[n] : Text[n][i] = marker}

\* The first "down" ends the search, and the last "up" before it counts.
UpMarkers(n) == {i \in Marked(n, "up") : \A j \in Marked(n, "down") : i < j}

\* A file without an "up" is taken whole; a "down" on the very next line does
\* not end what is taken.
UpLines(n) ==
    IF UpMarkers(n) = {} THEN DOMAIN Text[n]
    ELSE LET up == Max(UpMarkers(n)) IN
         {i \in DOMAIN Text[n] :
             i > up /\ \A j \in Marked(n, "down") : i < j \/ Text[n][up + 1] = "down"}

\* Whatever is not blank is executed, comments and markers included.
HasStatements(n) == \E i \in UpLines(n) : Text[n][i] # ""

------------------------------------------------------------------------------

MigrationsInit ==
    /\ recorded = {}
    /\ executed = [n \in Names |-> 0]
    /\ runner = [r \in Runners |-> Absent]
    /\ cuts = [n \in Names |-> 0]
    /\ tries = [r \in Runners |-> 0]

\* Fault: what is older than the newest record counts as applied.
Newer(n)   == \A m \in recorded : n > m
Pending(n) == n \notin recorded

BeginMigrate(r) ==
    /\ runner[r].step \in {"absent", "finished"} /\ tries[r] < MaxRuns
    /\ runner' = [runner EXCEPT ![r] =
           [step |-> "executing", pending |-> {n \in Checkout[r] : Pending(n)}]]
    /\ tries' = [tries EXCEPT ![r] = @ + 1]
    /\ UNCHANGED <<recorded, executed, cuts>>

At(r, step) == runner[r].step = step /\ runner[r].pending # {}
File(r)     == Min(runner[r].pending)

\* A file with nothing to execute goes straight to its record.
Execute(r) ==
    /\ At(r, "executing")
    /\ executed' = [executed EXCEPT ![File(r)] = @ + IF HasStatements(File(r)) THEN 1 ELSE 0]
    /\ runner' = [runner EXCEPT ![r].step = "recording"]
    /\ UNCHANGED <<recorded, cuts, tries>>

\* ON CONFLICT DO NOTHING.
Record(r) ==
    /\ At(r, "recording")
    /\ recorded' = recorded \cup {File(r)}
    /\ runner' = [runner EXCEPT ![r] = [step |-> "executing", pending |-> @.pending \ {File(r)}]]
    /\ UNCHANGED <<executed, cuts, tries>>

FinishMigrate(r) ==
    /\ runner[r] = [step |-> "executing", pending |-> {}]
    /\ runner' = [runner EXCEPT ![r] = [step |-> "finished", pending |-> {}]]
    /\ UNCHANGED <<recorded, executed, cuts, tries>>

\* log.Fatalf, the deadline of thirty seconds for all files together, or the
\* process dies: before a file's statements commit, or before its record does.
CutOff(r) ==
    /\ runner[r].step \in {"executing", "recording"}
    /\ cuts' = IF At(r, "recording") THEN [cuts EXCEPT ![File(r)] = @ + 1] ELSE cuts
    /\ runner' = [runner EXCEPT ![r] = Absent]
    /\ UNCHANGED <<recorded, executed, tries>>

MigrationsNext ==
    \E r \in Runners :
        BeginMigrate(r) \/ Execute(r) \/ Record(r) \/ FinishMigrate(r) \/ CutOff(r)

MigrationsSpec == MigrationsInit /\ [][MigrationsNext]_migrationVars

------------------------------------------------------------------------------
(* Properties.                                                             *)

\* A deployment that finished has left nothing of its checkout out, also not a
\* file that was merged under an older name than one already applied; and no
\* file's statements ran more often than the runs that overlapped or were cut
\* off between the statements and their record account for.
MigrationsComplete ==
    /\ \A r \in Runners : runner[r].step = "finished" =>
           \A n \in Checkout[r] : n \in recorded /\ (HasStatements(n) => executed[n] > 0)
    /\ \A n \in Names : executed[n] <= cuts[n] + Cardinality(Runners)

==============================================================================
