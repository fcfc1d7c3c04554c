----------------------------- MODULE KnowledgeBase -----------------------------
(***************************************************************************)
(* The chat assistant: records of the database are cut into chunks and     *)
(* indexed, questions are answered from the index, and each conversation   *)
(* keeps its last messages in memory (internal/lib/rag, the RAG            *)
(* controllers).                                                           *)
(***************************************************************************)
EXTENDS Naturals, Sequences, FiniteSetsExt

CONSTANTS
    Records,    \* rows and uploaded documents, 1 .. n
    Table,      \* the table each is in
    Length,     \* bytes of its text, cut as the loaders cut it
    Unreadable, \* rows whose Scan fails: a user without a location
    NoBio,      \* users who say nothing of themselves
    EventLimit, \* rows one query returns: 1000 events
    RowLimit,   \* and 500 hosts, users or blogs
    ChunkSize,  \* 1000
    Overlap,    \* 200
    BatchSize,  \* vectors per Upsert: 100
    Ingests,    \* requests to ingest
    Chats,      \* questions answered at once in one conversation
    Lifetimes,  \* bound: times that conversation is created
    MaxMemory,  \* messages a conversation remembers
    MaxSeen     \* bound: no question is appended to a longer history

ASSUME KnowledgeAssumption ==
    /\ Records = 1 .. Cardinality(Records)
    /\ \A d \in Records :
          Table[d] \in {"events", "hosts", "users", "blogs", "documents"} /\ Length[d] \in Nat
    /\ ChunkSize \in Nat /\ Overlap \in 0 .. (ChunkSize - 1)
    /\ {BatchSize, MaxMemory, Lifetimes, MaxSeen, EventLimit, RowLimit} \subseteq Nat \ {0}

VARIABLES
    stored,   \* records in the database
    ingest,   \* what each ingestion is at
    index,    \* the vectors of the external index
    current,  \* the conversation's object in the map; 0 when it has none
    messages, \* how many messages each object made so far keeps
    chat      \* what each question is at

kbVars == <<stored, ingest, index, current, messages, chat>>

NoOne  == [step |-> "idle"]

\* A vector of an ingestion before the server's last start.
Leftover == [by |-> "before", chunk |-> [record |-> 1, from |-> 0, upto |-> 1], content |-> 0]

KnowledgeInit ==
    /\ stored \in SUBSET Records
    /\ index \in {{}, {Leftover}}
    /\ ingest = [a \in Ingests |-> NoOne]
    /\ current = 0 /\ messages = <<>>
    /\ chat = [c \in Chats |-> NoOne]

------------------------------------------------------------------------------
(* Ingestion.                                                              *)

StoreDocument(d) ==
    /\ d \notin stored /\ stored' = stored \cup {d}
    /\ UNCHANGED <<ingest, index, current, messages, chat>>

\* The row goes; its vectors stay.
DeleteDocument(d) ==
    /\ d \in stored /\ stored' = stored \ {d}
    /\ UNCHANGED <<ingest, index, current, messages, chat>>

Loading(a, table) == ingest[a].step = "load" /\ ingest[a].table = table

StartIngest(a) ==
    /\ ingest[a] = NoOne
    /\ ingest' = [ingest EXCEPT ![a] = [step |-> "load", table |-> "events", records |-> {}]]
    /\ UNCHANGED <<stored, index, current, messages, chat>>

\* One query after another.  A row that Scan refuses is skipped; a query that
\* fails is a warning.
Load(a, table, found, next) ==
    /\ Loading(a, table)
    /\ \E read \in {{}, found \ Unreadable} :
          ingest' = [ingest EXCEPT ![a].table = next, ![a].records = @ \cup read]
    /\ UNCHANGED <<stored, index, current, messages, chat>>

In(table) == {d \in stored : Table[d] = table}

\* LIMIT without an order: any so many rows.
Limited(rows, limit) == kSubset(Min({limit, Cardinality(rows)}), rows)

LoadEvents(a)    == \E found \in Limited(In("events"), EventLimit) : Load(a, "events", found, "hosts")
LoadHosts(a)     == \E found \in Limited(In("hosts"), RowLimit) : Load(a, "hosts", found, "users")
LoadUsers(a)     == \E found \in Limited(In("users") \ NoBio, RowLimit) : Load(a, "users", found, "blogs")
LoadBlogs(a)     == \E found \in Limited(In("blogs"), RowLimit) : Load(a, "blogs", found, "documents")
LoadDocuments(a) == Load(a, "documents", In("documents"), "none")

Stride == ChunkSize - Overlap

\* A chunk begins at i unless the one before it reached the end.
Begins(i, n) == i = 0 \/ i - Stride + ChunkSize < n

Chunks(d) ==
    LET n == Length[d] IN
    {[record |-> d, from |-> i, upto |-> Min({i + ChunkSize, n})] :
        i \in {j \in 0 .. (n - 1) : j % Stride = 0 /\ Begins(j, n)}}

\* chunkDocuments. All chunks of a record share its metadata, a map that does
\* not hold a text yet.
ChunkDocuments(a) ==
    LET records == ingest[a].records IN
    /\ Loading(a, "none")
    /\ ingest' = [ingest EXCEPT ![a] =
           [step |-> "embed", plan |-> UNION {Chunks(d) : d \in records},
            todo |-> UNION {Chunks(d) : d \in records}, vectors |-> {},
            content |-> [d \in Records |-> 0], errors |-> 0]]
    /\ UNCHANGED <<stored, index, current, messages, chat>>

Before(x, y) == x.record < y.record \/ (x.record = y.record /\ x.from < y.from)

InOrder(chunks, n) ==
    {x \in chunks : Cardinality({y \in chunks : Before(y, x)}) < n}

\* GetDocumentEmbedding; the chunk's text is put into the shared map.
EmbedChunk(a, ok) ==
    /\ ingest[a].step = "embed"
    /\ \E x \in InOrder(ingest[a].todo, 1) :
           ingest' = [ingest EXCEPT
               ![a].todo = @ \ {x},
               ![a].vectors = IF ok THEN @ \cup {x} ELSE @,
               ![a].content[x.record] = IF ok THEN x.from ELSE @,
               ![a].errors = IF ok THEN @ ELSE @ + 1]
    /\ UNCHANGED <<stored, index, current, messages, chat>>

\* Upsert of the next batch: stored, refused, or stored without an answer.
UpsertBatch(a, outcome) ==
    LET batch == InOrder(ingest[a].vectors, BatchSize) IN
    /\ ingest[a].step = "embed" /\ ingest[a].todo = {} /\ batch # {}
    /\ index' = IF outcome = "refused" THEN index ELSE index \cup
           {[by |-> a, chunk |-> x, content |-> ingest[a].content[x.record]] : x \in batch}
    /\ ingest' = [ingest EXCEPT
           ![a].vectors = @ \ batch,
           ![a].errors = IF outcome = "stored" THEN @ ELSE @ + 1]
    /\ UNCHANGED <<stored, current, messages, chat>>

FinishIngest(a) ==
    /\ ingest[a].step = "embed" /\ ingest[a].todo = {} /\ ingest[a].vectors = {}
    /\ ingest' = [ingest EXCEPT ![a].step = "report"]
    /\ UNCHANGED <<stored, index, current, messages, chat>>

------------------------------------------------------------------------------
(* Chat. Conversation.Messages is read and written without the mutex:      *)
(* another question, or a clear, may come between any read and its write.  *)

\* getOrCreateConversation.
AskQuestion(c) ==
    /\ chat[c] = NoOne
    /\ IF current = 0
       THEN /\ Len(messages) < Lifetimes
            /\ messages' = Append(messages, 0) /\ current' = Len(messages')
       ELSE UNCHANGED <<messages, current>>
    /\ chat' = [chat EXCEPT ![c] = [step |-> "search", of |-> current', read |-> 0]]
    /\ UNCHANGED <<stored, ingest, index>>

Leave(c) == chat' = [chat EXCEPT ![c] = NoOne]

Goto(c, step, read) == chat' = [chat EXCEPT ![c].step = step, ![c].read = read]

\* The embedding, the index or the model fails: nothing is remembered.
ChatFails(c) ==
    /\ chat[c].step \in {"search", "generate"} /\ Leave(c)
    /\ UNCHANGED <<stored, ingest, index, current, messages>>

\* An empty index is answered without the model.
SearchIndex(c) ==
    /\ chat[c].step = "search"
    /\ Goto(c, IF index = {} THEN "read 1" ELSE "generate", 0)
    /\ UNCHANGED <<stored, ingest, index, current, messages>>

GenerateAnswer(c) ==
    /\ chat[c].step = "generate" /\ Goto(c, "read 1", 0)
    /\ UNCHANGED <<stored, ingest, index, current, messages>>

\* append of the question, and append of the answer.
ReadHistory(c) ==
    /\ chat[c] # NoOne => messages[chat[c].of] < MaxSeen
    /\ \/ chat[c].step = "read 1" /\ Goto(c, "write 1", messages[chat[c].of])
       \/ chat[c].step = "read 2" /\ Goto(c, "write 2", messages[chat[c].of])
    /\ UNCHANGED <<stored, ingest, index, current, messages>>

WriteHistory(c) ==
    /\ \/ chat[c].step = "write 1" /\ Goto(c, "read 2", 0)
       \/ chat[c].step = "write 2" /\ Goto(c, "trim", 0)
    /\ messages' = [messages EXCEPT ![chat[c].of] = chat[c].read + 1]
    /\ UNCHANGED <<stored, ingest, index, current>>

\* Fault: an answer the model did not write is not followed by the cut.
TrimsAnswers(n) == n > MaxMemory /\ index # {}

\* Either branch cuts a history that is too long.
TooLong(n) == n > MaxMemory

ReadToTrim(c) ==
    /\ chat[c].step = "trim"
    /\ IF TooLong(messages[chat[c].of]) THEN Goto(c, "cut", 0) ELSE Leave(c)
    /\ UNCHANGED <<stored, ingest, index, current, messages>>

\* The length that was compared is used, or read again: a history cleared
\* since is then too short to cut, and the request panics.
Trim(c) ==
    LET of == chat[c].of IN
    /\ chat[c].step = "cut" /\ Leave(c)
    /\ \/ messages' = [messages EXCEPT ![of] = MaxMemory]
       \/ messages[of] < MaxMemory /\ UNCHANGED messages
    /\ UNCHANGED <<stored, ingest, index, current>>

ClearConversation ==
    /\ current # 0 /\ messages' = [messages EXCEPT ![current] = 0]
    /\ UNCHANGED <<stored, ingest, index, current, chat>>

\* A question under way keeps the object.
DeleteConversation ==
    /\ current # 0 /\ current' = 0
    /\ UNCHANGED <<stored, ingest, index, messages, chat>>

------------------------------------------------------------------------------
IngestNext ==
    \/ \E d \in Records : StoreDocument(d) \/ DeleteDocument(d)
    \/ \E a \in Ingests :
           \/ StartIngest(a) \/ ChunkDocuments(a) \/ FinishIngest(a)
           \/ LoadEvents(a) \/ LoadHosts(a) \/ LoadUsers(a) \/ LoadBlogs(a) \/ LoadDocuments(a)
           \/ \E ok \in BOOLEAN : EmbedChunk(a, ok)
           \/ \E outcome \in {"stored", "refused", "unanswered"} : UpsertBatch(a, outcome)

ChatNext ==
    \/ \E c \in Chats :
           \/ AskQuestion(c) \/ ChatFails(c) \/ SearchIndex(c) \/ GenerateAnswer(c)
           \/ ReadHistory(c) \/ WriteHistory(c) \/ ReadToTrim(c) \/ Trim(c)
    \/ ClearConversation \/ DeleteConversation

KnowledgeNext == IngestNext \/ ChatNext
KnowledgeSpec == KnowledgeInit /\ [][KnowledgeNext]_kbVars

------------------------------------------------------------------------------
(* Properties.                                                             *)

\* Once nobody is asking, a conversation remembers no more than it may, for
\* all that questions answered at once read and write it past each other.
HistoryBounded ==
    \A k \in 1 .. Len(messages) :
        (\A c \in Chats : chat[c] = NoOne \/ chat[c].of # k) => messages[k] <= MaxMemory

\* ingestion.go:33: an ingestion without an error has put every chunk of what
\* it loaded into the index, under its own text.
EveryChunkStored ==
    \A a \in Ingests : ingest[a].step = "report" /\ ingest[a].errors = 0 =>
        \A x \in ingest[a].plan :
            \E v \in index : v.by = a /\ v.chunk = x /\ v.content = x.from
==============================================================================
