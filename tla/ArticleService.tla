--------------------------- MODULE ArticleService ---------------------------
(***************************************************************************)
(* Articles of one knowledge store (src/knowledge/articles.rs): rows in    *)
(* the record store, a document row and chunk rows in the vector store,    *)
(* and the queue of duplicates.  No transaction spans the two stores; only *)
(* the embedding model is behind a mutex.                                  *)
(*                                                                         *)
(* A call is an HTTP request or a `dedup review` command.  Each action is  *)
(* what a call does up to its next await.  Entity extraction writes none of *)
(* this state, but it keeps the model to itself while it lasts.            *)
(***************************************************************************)
EXTENDS Integers, FiniteSets

CONSTANTS
  Articles,    \* article ids: fresh uuids
  Contents,    \* texts of articles
  HashOf,      \* content_hash of each text: texts that differ only in white
               \* space or case share it
  Calls,       \* every request and command of a behaviour
  Kinds,       \* the kinds of calls that may happen
  Width,       \* how many calls may be in flight at once
  PieceCount,  \* chunks per article
  None

ASSUME ArticleServiceAssumption ==
  /\ HashOf \in [Contents -> Contents]
  /\ Kinds \subseteq {"create", "update", "delete", "merge", "reject"}
  /\ Width \in Nat \ {0}
  /\ PieceCount \in Nat \ {0}
  /\ None \notin Articles \cup Contents \cup Calls
  /\ None \notin {"create", "update", "delete", "merge", "reject"}

Pieces == 1..PieceCount

VARIABLES
  rows,    \* article table: None or [content, embedded]
  docs,    \* documents table of the vector store: the texts filed per article
  chunks,  \* chunks table: the [content, piece] rows per article
  queue,   \* dedup_queue: per create call None or [content, matched, status]
  model,   \* the call that holds the embedding model, or None
  at,      \* where each call stands
  call,    \* its arguments; other is the article a create matched, or the
           \* queue entry a merge works on
  piece,   \* how many chunks it has inserted
  trouble, \* history: what has gone wrong with an article, see below
  unchecked  \* history: articles that got their text past the lookup for
             \* duplicates, see Overtaken and Rewritten

vars == <<rows, docs, chunks, queue, model, at, call, piece, trouble, unchecked>>
vectors == <<docs, chunks>>

Row   == [content : Contents, embedded : BOOLEAN]
Entry == [content : Contents, matched : Articles,
          status : {"pending", "rejected", "merged"}]
Call  == [kind : Kinds \cup {None}, article : Articles \cup {None},
          content : Contents \cup {None}, embedded : BOOLEAN,
          other : Articles \cup Calls \cup {None}]
NoCall == [kind |-> None, article |-> None, content |-> None,
           embedded |-> FALSE, other |-> None]

ASSUME NoneAssumption == None \notin Row /\ None \notin Entry

Ends    == {"idle", "answered", "failed", "lost"}
Modelled == {"reset docs", "reset chunks", "doc", "chunk", "extract"}
Stops   == Ends \cup Modelled \cup
           {"check", "queue", "insert", "drop docs", "drop chunks", "write",
            "wait", "mark", "remove", "resolve"}

InFlight       == {i \in Calls : at[i] \notin Ends}
Working(a)     == {i \in InFlight : call[i].article = a}
Stored(a)      == rows[a] # None
Troubled(a, t) == trouble' = [trouble EXCEPT ![a] = @ \cup {t}]

Goto(i, from, to) == at[i] = from /\ at' = [at EXCEPT ![i] = to]

\* Seeded faults: the lookup compares texts; the index of the last chunk is
\* missed or overrun; the model is used without its mutex, or kept on error;
\* a merge forgets to take the incoming text.
SameText(a, c)     == Stored(a) /\ rows[a].content = c
AllButLast(i)      == piece[i] + 2 < PieceCount
OneTooMany(i)      == piece[i] < PieceCount
ModelUnguarded(i)  == model' = i
ModelKept(i)       == UNCHANGED model
IncomingIgnored(j) == rows[queue[j].matched].content

Matches(a, c)    == Stored(a) /\ HashOf[rows[a].content] = HashOf[c]
MorePieces(i)    == piece[i] + 1 < PieceCount
TakeModel(i)     == model = None /\ model' = i
DropModel(i)     == model' = IF model = i THEN None ELSE model
Incoming(j)      == queue[j].content

Init ==
  /\ rows   = [a \in Articles |-> None]
  /\ docs   = [a \in Articles |-> {}]
  /\ chunks = [a \in Articles |-> {}]
  /\ queue  = [i \in Calls |-> None]
  /\ model  = None
  /\ at     = [i \in Calls |-> "idle"]
  /\ call   = [i \in Calls |-> NoCall]
  /\ piece  = [i \in Calls |-> 0]
  /\ trouble = [a \in Articles |-> {}]
  /\ unchecked = {}

-----------------------------------------------------------------------------
(* Calls arrive.                                                             *)

\* The review command opens the stores for itself: nothing else is running.
Alone == InFlight = {}
Room  == /\ Cardinality(InFlight) < Width
         /\ \A i \in InFlight : call[i].kind # "merge"

\* A call that starts on an article nobody works on leaves its past behind; an
\* update writes everything anew.
Begin(i, from, args) ==
  /\ at[i] = "idle"
  /\ args.kind \in Kinds
  /\ call' = [call EXCEPT ![i] = args]
  /\ at' = [at EXCEPT ![i] = from]
  /\ trouble' = [trouble EXCEPT ![args.article] =
       IF Working(args.article) # {} THEN @ \cup {"raced"}
       ELSE IF args.kind = "delete" THEN @
       ELSE @ \ {"raced", "failed"}]
  /\ UNCHANGED <<rows, vectors, queue, model, piece, unchecked>>

StartCreate(i, a, c) ==
  /\ Room
  /\ \A j \in Calls : call[j].article # a
  /\ Begin(i, "check", [kind |-> "create", article |-> a, content |-> c,
                        embedded |-> FALSE, other |-> None])

\* handle_update_article reads the row; a request without a text keeps the one
\* it read.
StartUpdate(i, a, c) ==
  /\ Room
  /\ Stored(a)
  /\ Begin(i, "drop docs",
           [kind |-> "update", article |-> a,
            content |-> IF c = None THEN rows[a].content ELSE c,
            embedded |-> rows[a].embedded, other |-> None])

StartDelete(i, a) ==
  /\ Room
  /\ Stored(a)
  /\ Begin(i, "drop docs", [kind |-> "delete", article |-> a, content |-> None,
                            embedded |-> FALSE, other |-> None])

\* dedup review merge: the incoming text replaces that of the matched article.
StartMerge(i, j) ==
  /\ Alone
  /\ queue[j] # None /\ queue[j].status = "pending"
  /\ Stored(queue[j].matched)
  /\ Begin(i, "drop docs",
           [kind |-> "merge", article |-> queue[j].matched, content |-> Incoming(j),
            embedded |-> rows[queue[j].matched].embedded, other |-> j])

\* dedup review reject: one row read and written, no one else around.
Reject(i, j) ==
  /\ Alone
  /\ "reject" \in Kinds
  /\ queue[j] # None /\ queue[j].status = "pending"
  /\ Goto(i, "idle", "answered")
  /\ queue' = [queue EXCEPT ![j].status = "rejected"]
  /\ UNCHANGED <<rows, vectors, model, call, piece, trouble, unchecked>>

-----------------------------------------------------------------------------
(* create: look for the hash; queue a duplicate or insert the row.            *)
Find(i, a) ==
  /\ Goto(i, "check", "queue")
  /\ Matches(a, call[i].content)
  /\ call' = [call EXCEPT ![i].other = a]
  /\ UNCHANGED <<rows, vectors, queue, model, piece, trouble, unchecked>>

FindNone(i) ==
  /\ Goto(i, "check", "insert")
  /\ \A a \in Articles : ~Matches(a, call[i].content)
  /\ UNCHANGED <<rows, vectors, queue, model, call, piece, trouble, unchecked>>

\* The handler answers 201 with the article of the request all the same.
QueueDuplicate(i) ==
  /\ Goto(i, "queue", "answered")
  /\ queue' = [queue EXCEPT ![i] = [content |-> call[i].content,
                matched |-> call[i].other, status |-> "pending"]]
  /\ UNCHANGED <<rows, vectors, model, call, piece, trouble, unchecked>>

\* Articles of other creates of the same text that have done their lookup and
\* not yet inserted their row: nothing looks again.
Overtaken(i) ==
  {call[j].article : j \in {k \in Calls \ {i} :
     at[k] = "insert" /\ HashOf[call[k].content] = HashOf[call[i].content]}}

InsertRow(i) ==
  /\ Goto(i, "insert", "wait")
  /\ rows' = [rows EXCEPT ![call[i].article] =
                [content |-> call[i].content, embedded |-> FALSE]]
  /\ unchecked' = unchecked \cup Overtaken(i)
  /\ UNCHANGED <<vectors, queue, model, call, piece, trouble>>

-----------------------------------------------------------------------------
(* The vector store.  delete_document swallows the failure of either delete; *)
(* rows it should have removed then stay, stale, until a delete succeeds.     *)
ClearDocs(i) ==
  LET a == call[i].article IN
  /\ \/ /\ docs' = [docs EXCEPT ![a] = {}]
        /\ trouble' = [trouble EXCEPT ![a] = @ \ {"stale docs"}]
     \/ Troubled(a, "stale docs") /\ UNCHANGED docs
  /\ UNCHANGED <<rows, chunks, queue, model, call, piece, unchecked>>

ClearChunks(i) ==
  LET a == call[i].article IN
  /\ \/ /\ chunks' = [chunks EXCEPT ![a] = {}]
        /\ trouble' = [trouble EXCEPT ![a] = @ \ {"stale chunks"}]
     \/ Troubled(a, "stale chunks") /\ UNCHANGED chunks
  /\ UNCHANGED <<rows, docs, queue, model, call, piece, unchecked>>

\* update and delete start with delete_document, outside the model's mutex.
DropDocs(i)   == Goto(i, "drop docs", "drop chunks") /\ ClearDocs(i)
DropChunks(i) ==
  /\ Goto(i, "drop chunks", IF call[i].kind = "delete" THEN "remove" ELSE "write")
  /\ ClearChunks(i)

\* UPDATE ... MERGE writes nothing if the row is gone.
WriteRow(i, embedded) ==
  LET a == call[i].article IN
  IF Stored(a)
  THEN rows' = [rows EXCEPT ![a] = [content |-> call[i].content, embedded |-> embedded]]
  ELSE UNCHANGED rows

\* An update looks no hash up, even when it changes that of the article.
Rewritten(i) ==
  {a \in Articles : /\ call[i].kind = "update" /\ a = call[i].article /\ Stored(a)
                    /\ HashOf[rows[a].content] # HashOf[call[i].content]}

Write(i) ==
  /\ Goto(i, "write", "wait")
  /\ WriteRow(i, call[i].embedded)
  /\ unchecked' = unchecked \cup Rewritten(i)
  /\ UNCHANGED <<vectors, queue, model, call, piece, trouble>>

Remove(i) ==
  /\ Goto(i, "remove", "answered")
  /\ rows' = [rows EXCEPT ![call[i].article] = None]
  /\ UNCHANGED <<vectors, queue, model, call, piece, trouble, unchecked>>

-----------------------------------------------------------------------------
(* embed_article: the mutex of the model is held from the first embedding,   *)
(* through insert_document, which deletes before it inserts, to the end of   *)
(* entity extraction.                                                        *)
Lock(i) ==
  /\ Goto(i, "wait", "reset docs")
  /\ TakeModel(i)
  /\ UNCHANGED <<rows, vectors, queue, call, piece, trouble, unchecked>>

ResetDocs(i)   == Goto(i, "reset docs", "reset chunks") /\ ClearDocs(i)
ResetChunks(i) == Goto(i, "reset chunks", "doc") /\ ClearChunks(i)

InsertDoc(i) ==
  /\ Goto(i, "doc", "chunk")
  /\ docs' = [docs EXCEPT ![call[i].article] = @ \cup {call[i].content}]
  /\ UNCHANGED <<rows, chunks, queue, model, call, piece, trouble, unchecked>>

InsertChunk(i) ==
  /\ Goto(i, "chunk", IF MorePieces(i) THEN "chunk" ELSE "extract")
  /\ chunks' = [chunks EXCEPT ![call[i].article] =
                  @ \cup {[content |-> call[i].content, piece |-> piece[i] + 1]}]
  /\ piece' = [piece EXCEPT ![i] = @ + 1]
  /\ UNCHANGED <<rows, docs, queue, model, call, trouble, unchecked>>

\* The language model may fail: that is logged and changes nothing here.
Extract(i) ==
  /\ Goto(i, "extract", "mark")
  /\ DropModel(i)
  /\ UNCHANGED <<rows, vectors, queue, call, piece, trouble, unchecked>>

\* The second update_article writes the text again, with embedded_at.
Mark(i) ==
  /\ Goto(i, "mark", IF call[i].kind = "merge" THEN "resolve" ELSE "answered")
  /\ WriteRow(i, TRUE)
  /\ UNCHANGED <<vectors, queue, model, call, piece, trouble, unchecked>>

Resolve(i) ==
  /\ Goto(i, "resolve", "answered")
  /\ queue' = [queue EXCEPT ![call[i].other].status = "merged"]
  /\ UNCHANGED <<rows, vectors, model, call, piece, trouble, unchecked>>

-----------------------------------------------------------------------------
(* Every step of a store or of the model that the code follows with `?`.     *)
Fallible == {"check", "queue", "insert", "write", "reset docs", "doc", "chunk",
             "mark", "remove", "resolve"}

Fail(i) ==
  /\ at[i] \in Fallible
  /\ at' = [at EXCEPT ![i] = "failed"]
  /\ DropModel(i)
  /\ Troubled(call[i].article, "failed")
  /\ UNCHANGED <<rows, vectors, queue, call, piece, unchecked>>

\* The process dies: its calls are lost, both stores stay.
Crash ==
  /\ InFlight # {}
  /\ at' = [i \in Calls |-> IF i \in InFlight THEN "lost" ELSE at[i]]
  /\ model' = None
  /\ trouble' = [a \in Articles |->
       IF Working(a) = {} THEN trouble[a] ELSE trouble[a] \cup {"failed"}]
  /\ UNCHANGED <<rows, vectors, queue, call, piece, unchecked>>

Proceed(i) ==
  \/ (\E a \in Articles : Find(i, a)) \/ FindNone(i) \/ QueueDuplicate(i) \/ InsertRow(i)
  \/ DropDocs(i) \/ DropChunks(i) \/ Write(i) \/ Remove(i)
  \/ ResetDocs(i) \/ ResetChunks(i) \/ InsertDoc(i) \/ InsertChunk(i)
  \/ Extract(i) \/ Mark(i) \/ Resolve(i)

Arrive(i) ==
  \/ \E a \in Articles, c \in Contents : StartCreate(i, a, c)
  \/ \E a \in Articles, c \in Contents \cup {None} : StartUpdate(i, a, c)
  \/ \E a \in Articles : StartDelete(i, a)
  \/ \E j \in Calls : StartMerge(i, j) \/ Reject(i, j)

Next ==
  \/ \E i \in Calls : Arrive(i) \/ Proceed(i) \/ Lock(i) \/ Fail(i)
  \/ Crash

Spec == Init /\ [][Next]_vars

(* The runtime polls every call that can move.  tokio's mutex is first come  *)
(* first served, so a call that waits for the model is not passed over for   *)
(* ever.                                                                     *)
FairSpec == Spec /\ \A i \in Calls : WF_vars(Proceed(i)) /\ SF_vars(Lock(i))

-----------------------------------------------------------------------------
(* The shape of every variable.                                              *)
TypeOK ==
  /\ rows \in [Articles -> Row \cup {None}]
  /\ docs \in [Articles -> SUBSET Contents]
  /\ chunks \in [Articles -> SUBSET [content : Contents, piece : Pieces]]
  /\ queue \in [Calls -> Entry \cup {None}]
  /\ model \in Calls \cup {None}
  /\ at \in [Calls -> Stops]
  /\ call \in [Calls -> Call]
  /\ piece \in [Calls -> 0..PieceCount]
  /\ trouble \in [Articles -> SUBSET {"raced", "failed", "stale docs", "stale chunks"}]
  /\ unchecked \subseteq Articles

(* Only the call that has the model is in the section it protects, so calls  *)
(* never interleave their vectors: what is filed for an article comes from   *)
(* one version of its text, unless a delete failed in the vector store.      *)
Versions(a) == docs[a] \cup {k.content : k \in chunks[a]}

IndexNeverMixesVersions ==
  \A a \in Articles :
    trouble[a] \cap {"stale docs", "stale chunks"} = {} => Cardinality(Versions(a)) <= 1

(* When no call works on an article and the last ones neither overlapped nor *)
(* failed, the vector store holds exactly the text of its row, whatever went *)
(* wrong before them; and nothing at all if the row is gone.                 *)
Indexed(a, c) ==
  docs[a] = {c} /\ chunks[a] = {[content |-> c, piece |-> p] : p \in Pieces}

SettledIndexMatchesRow ==
  \A a \in Articles : Working(a) = {} /\ trouble[a] = {} =>
    IF Stored(a) THEN rows[a].embedded /\ Indexed(a, rows[a].content)
                 ELSE docs[a] = {} /\ chunks[a] = {}

(* Of two articles with the same hash, one was created while another create  *)
(* of that text stood between its lookup and its insertion, or was given a   *)
(* new text by an update, which looks nothing up.  However calls overlap,    *)
(* fail or are retried, duplicates are queued and merged, articles deleted:  *)
(* nothing else stores a text twice.                                         *)
UniqueContent ==
  \A a, b \in Articles :
    Stored(a) /\ Stored(b) /\ a # b /\ HashOf[rows[a].content] = HashOf[rows[b].content] =>
      a \in unchecked \/ b \in unchecked

(* An entry becomes merged only once the incoming text has replaced that of  *)
(* the matched article and has been embedded.                                *)
MergedMeansReplaced ==
  [][\A j \in Calls : queue[j] # None /\ queue'[j].status = "merged" /\ queue'[j] # queue[j] =>
       rows[queue[j].matched] = [content |-> queue[j].content, embedded |-> TRUE]]_vars

(* Every call ends: whatever fails, the model is given back.                 *)
EveryCallEnds == \A i \in Calls : at[i] \notin Ends ~> at[i] \in Ends

(* src/knowledge/articles.rs:126 says delete will "Delete article and its     *)
(* vectors": once it has answered, and the vector store has refused no        *)
(* delete, nothing is left to be found.                                      *)
DeleteRemovesVectors ==
  \A i \in Calls : call[i].kind = "delete" /\ at[i] = "answered" =>
    LET a == call[i].article IN
    Working(a) = {} /\ trouble[a] \subseteq {"raced"} => docs[a] = {} /\ chunks[a] = {}
=============================================================================
