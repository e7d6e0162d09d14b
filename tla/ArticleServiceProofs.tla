------------------------ MODULE ArticleServiceProofs ------------------------
(***************************************************************************)
(* Proofs about ArticleService: its type invariant; that the index never   *)
(* mixes versions; that a settled article is indexed as it is stored; that *)
(* a merged entry was replaced; and which articles alone may hold a text   *)
(* twice.                                                                  *)
(*                                                                         *)
(* The second needs that the stops between taking and giving back the      *)
(* embedding model exclude each other (MutexInv), and what the holder of   *)
(* the model knows of the vectors at each stop (HolderInv).  The third     *)
(* says what the only call on an article has reached at each stop          *)
(* (WorkInv).  A merge runs alone, on its entry's article (MergeInv).  The *)
(* last follows the hash a create has looked up until it inserts: no       *)
(* article has it but those that are marked (TextInv, UniqueInv), since    *)
(* what brings a hash into the table in between leaves a mark, and what is *)
(* past its insertion never comes back (HashesStay, Keeps).                *)
(***************************************************************************)
EXTENDS ArticleService, FiniteSetTheorems, TLAPS

Marks == SUBSET {"raced", "failed", "stale docs", "stale chunks"}

\* What is filed for an article, without what a refused delete left behind.
FreshDocs(a)   == IF "stale docs" \in trouble[a] THEN {} ELSE docs[a]
FreshChunks(a) == IF "stale chunks" \in trouble[a] THEN {} ELSE chunks[a]

AllOf(a, c) == /\ \A d \in FreshDocs(a) : d = c
               /\ \A k \in FreshChunks(a) : k.content = c

OneVersion(a) ==
  /\ \A d, e \in FreshDocs(a) : d = e
  /\ \A k, l \in FreshChunks(a) : k.content = l.content
  /\ \A d \in FreshDocs(a), k \in FreshChunks(a) : d = k.content

MutexInv == \A i \in Calls : at[i] \in Modelled <=> model = i

\* The arguments a call has at each stop.
Embedding == {"check", "queue", "insert", "write", "wait", "reset docs",
              "reset chunks", "doc", "chunk", "extract", "mark", "resolve"}

ArgsInv ==
  \A i \in Calls :
    /\ at[i] \notin Ends => call[i].article \in Articles
    /\ at[i] \in Embedding => call[i].content \in Contents
    /\ at[i] \in {"drop docs", "drop chunks"} /\ call[i].kind # "delete" =>
         call[i].content \in Contents
    /\ at[i] = "queue" => call[i].other \in Articles
    /\ call[i].kind = "merge" => /\ call[i].other \in Calls
                                 /\ queue[call[i].other] \in Entry
    /\ at[i] \in {"check", "queue", "insert"} => call[i].kind = "create"
    /\ at[i] = "resolve" => call[i].kind = "merge"

PieceInv ==
  \A i \in Calls :
    /\ at[i] = "chunk" => piece[i] < PieceCount
    /\ at[i] \notin {"chunk", "extract", "mark", "resolve", "answered", "failed", "lost"} => piece[i] = 0

HolderInv ==
  \A i \in Calls :
    LET a == call[i].article IN
    /\ at[i] = "reset chunks" => FreshDocs(a) = {}
    /\ at[i] = "doc" => FreshDocs(a) = {} /\ FreshChunks(a) = {}
    /\ at[i] = "chunk" => AllOf(a, call[i].content)

VersionInv == \A a \in Articles : OneVersion(a)

ShapeInv == TypeOK /\ MutexInv /\ ArgsInv /\ PieceInv
IInv == ShapeInv /\ HolderInv /\ VersionInv
-----------------------------------------------------------------------------
(* Shapes: types, the mutex, arguments and chunk counters.                   *)

\* What a call that begins must bring with it.
ArgsFit(from, args) ==
  /\ args \in Call
  /\ args.article \in Articles
  /\ \/ from = "check" /\ args.kind = "create" /\ args.content \in Contents
     \/ /\ from = "drop docs" /\ args.kind \in {"update", "merge", "delete"}
        /\ args.kind # "delete" => args.content \in Contents
  /\ args.kind = "merge" => args.other \in Calls /\ queue[args.other] \in Entry

LEMMA BeginShape ==
  ASSUME ShapeInv, NEW i \in Calls, NEW from, NEW args,
         ArgsFit(from, args), Begin(i, from, args)
  PROVE  ShapeInv'
<1>1. TypeOK'
  BY DEF ArgsFit, Begin, ShapeInv, TypeOK, vectors, Stops
<1>2. MutexInv'
  BY DEF ArgsFit, Begin, ShapeInv, TypeOK, MutexInv, Modelled
<1>3. ArgsInv'
  BY DEF ArgsFit, Begin, ShapeInv, TypeOK, ArgsInv, Embedding, Ends
<1>4. PieceInv'
  BY DEF ArgsFit, Begin, ShapeInv, TypeOK, PieceInv
<1> QED
  BY <1>1, <1>2, <1>3, <1>4 DEF ShapeInv

LEMMA ArriveShape ==
  ASSUME ShapeInv, NEW i \in Calls, Arrive(i)
  PROVE  ShapeInv'
<1> USE ArticleServiceAssumption DEF ArgsFit, Call
<1>0. queue \in [Calls -> Entry \cup {None}] /\ rows \in [Articles -> Row \cup {None}]
  BY DEF ShapeInv, TypeOK
<1>1. ASSUME NEW a \in Articles, NEW c \in Contents, StartCreate(i, a, c)
      PROVE  ShapeInv'
  BY <1>1, BeginShape DEF StartCreate, Begin
<1>2. ASSUME NEW a \in Articles, NEW c \in Contents \cup {None}, StartUpdate(i, a, c)
      PROVE  ShapeInv'
  <2>1. rows[a] \in Row
    BY <1>0, <1>2 DEF StartUpdate, Stored
  <2> QED
    BY <1>2, <2>1, BeginShape DEF StartUpdate, Begin, Row
<1>3. ASSUME NEW a \in Articles, StartDelete(i, a)
      PROVE  ShapeInv'
  BY <1>3, BeginShape DEF StartDelete, Begin
<1>4. ASSUME NEW j \in Calls, StartMerge(i, j)
      PROVE  ShapeInv'
  <2>1. queue[j] \in Entry
    BY <1>0, <1>4 DEF StartMerge
  <2>2. rows[queue[j].matched] \in Row
    BY <1>0, <1>4, <2>1 DEF StartMerge, Stored, Entry
  <2> QED
    BY <1>4, <2>1, <2>2, BeginShape DEF StartMerge, Begin, Row, Entry, Incoming
<1>5. ASSUME NEW j \in Calls, Reject(i, j)
      PROVE  ShapeInv'
  <2>1. queue[j] \in Entry
    BY <1>0, <1>5 DEF Reject
  <2>2. [queue[j] EXCEPT !.status = "rejected"] \in Entry
    BY <2>1 DEF Entry
  <2>3. TypeOK'
    BY <1>5, <2>2 DEF Reject, Goto, ShapeInv, TypeOK, vectors, Stops, Ends
  <2>4. \A k \in Calls : queue[k] \in Entry => queue'[k] \in Entry
    BY <1>0, <1>5, <2>2 DEF Reject
  <2>5. ArgsInv'
    BY <1>5, <2>4 DEF Reject, Goto, ShapeInv, TypeOK, ArgsInv, Embedding, Ends
  <2>6. MutexInv' /\ PieceInv'
    BY <1>5 DEF Reject, Goto, ShapeInv, TypeOK, MutexInv, PieceInv, Modelled
  <2> QED
    BY <2>3, <2>5, <2>6 DEF ShapeInv
<1> QED
  BY <1>1, <1>2, <1>3, <1>4, <1>5 DEF Arrive

\* What a step may do to a call, to keep all four parts.
LEMMA ClearingType ==
  ASSUME ShapeInv, NEW i \in Calls, at[i] \notin Ends
  PROVE  /\ ClearDocs(i) => docs' \in [Articles -> SUBSET Contents]
         /\ ClearChunks(i) => chunks' \in [Articles -> SUBSET [content : Contents, piece : Pieces]]
         /\ ClearDocs(i) \/ ClearChunks(i) => trouble' \in [Articles -> Marks]
<1>1. call[i].article \in Articles
  BY DEF ShapeInv, ArgsInv
<1>2. trouble \in [Articles -> Marks]
  BY DEF ShapeInv, TypeOK, Marks
<1>3. docs \in [Articles -> SUBSET Contents]
  BY DEF ShapeInv, TypeOK
<1>4. chunks \in [Articles -> SUBSET [content : Contents, piece : Pieces]]
  BY DEF ShapeInv, TypeOK
<1>5. ClearDocs(i) => docs' \in [Articles -> SUBSET Contents]
  BY <1>1, <1>3 DEF ClearDocs
<1>6. ClearChunks(i) => chunks' \in [Articles -> SUBSET [content : Contents, piece : Pieces]]
  BY <1>1, <1>4 DEF ClearChunks
<1>7. ClearDocs(i) \/ ClearChunks(i) => trouble' \in [Articles -> Marks]
  <2> DEFINE a == call[i].article
  <2>1. /\ trouble[a] \cup {"stale docs"} \in Marks /\ trouble[a] \ {"stale docs"} \in Marks
        /\ trouble[a] \cup {"stale chunks"} \in Marks /\ trouble[a] \ {"stale chunks"} \in Marks
    BY <1>1, <1>2 DEF Marks
  <2>2. ClearDocs(i) \/ ClearChunks(i) =>
          \E s \in Marks : trouble' = [trouble EXCEPT ![a] = s]
    BY <2>1 DEF ClearDocs, ClearChunks, Troubled
  <2> QED
    BY <1>1, <1>2, <2>2
<1> QED
  BY <1>5, <1>6, <1>7

LEMMA RowType ==
  ASSUME ShapeInv, NEW i \in Calls, at[i] \in {"write", "mark"},
         NEW e \in BOOLEAN, WriteRow(i, e)
  PROVE  rows' \in [Articles -> Row \cup {None}]
<1>1. call[i].article \in Articles /\ call[i].content \in Contents
  BY DEF ShapeInv, ArgsInv, Ends, Embedding
<1>2. rows \in [Articles -> Row \cup {None}]
  BY DEF ShapeInv, TypeOK
<1> QED
  BY <1>1, <1>2 DEF WriteRow, Row

LEMMA OvertakenType ==
  ASSUME ShapeInv, NEW i \in Calls
  PROVE  Overtaken(i) \subseteq Articles
<1>1. \A k \in Calls : at[k] = "insert" => call[k].article \in Articles
  BY DEF ShapeInv, ArgsInv, Ends
<1> QED
  BY <1>1 DEF Overtaken


LEMMA CreateShape ==
  ASSUME ShapeInv, NEW i \in Calls,
         \/ \E a \in Articles : Find(i, a)
         \/ FindNone(i) \/ QueueDuplicate(i) \/ InsertRow(i)
  PROVE  ShapeInv'
<1> USE DEF ShapeInv, TypeOK, Marks, MutexInv, ArgsInv, PieceInv, Modelled, Ends, Stops, Embedding, Goto, vectors
<1>1. ASSUME NEW a \in Articles, Find(i, a)
      PROVE  ShapeInv'
  <2> HIDE DEF ShapeInv, TypeOK, MutexInv, ArgsInv, PieceInv, Modelled, Ends, Stops, Embedding, Goto, vectors
  <2>1. /\ call \in [Calls -> Call]
        /\ call' = [call EXCEPT ![i].other = a]
    BY <1>1 DEF ShapeInv, TypeOK, Find
  <2>2. [call[i] EXCEPT !.other = a] \in Call
    BY <2>1 DEF Call
  <2>3. call' \in [Calls -> Call]
    BY <2>1, <2>2
  <2>4. \A k \in Calls : /\ call'[k].article = call[k].article
                         /\ call'[k].content = call[k].content
                         /\ call'[k].kind = call[k].kind
                         /\ k # i => call'[k].other = call[k].other
    BY <2>1 DEF Call
  <2>5. call'[i].other = a
    BY <2>1 DEF Call
  <2>6. TypeOK'
    BY <1>1, <2>3 DEF Find, ShapeInv, TypeOK, Goto, vectors, Stops
  <2>7. MutexInv' /\ PieceInv'
    BY <1>1 DEF Find, ShapeInv, TypeOK, Goto, MutexInv, PieceInv, Modelled
  <2>8. call[i].kind # "merge"
    BY <1>1 DEF Find, Goto, ShapeInv, ArgsInv
  <2>9. ArgsInv'
    <3>1. /\ at[i] = "check" /\ at'[i] = "queue" /\ queue' = queue
          /\ \A k \in Calls : k # i => at'[k] = at[k]
      BY <1>1 DEF Find, Goto, ShapeInv, TypeOK
    <3>2. call[i].article \in Articles /\ call[i].content \in Contents /\ call[i].kind = "create"
      BY <3>1 DEF ShapeInv, ArgsInv, Embedding, Ends
    <3> SUFFICES ASSUME NEW k \in Calls
                 PROVE  ArgsInv!(k)'
      BY DEF ArgsInv
    <3>3. CASE k = i
      BY <2>4, <2>5, <2>8, <3>1, <3>2, <3>3 DEF Embedding, Ends
    <3>4. CASE k # i
      <4>1. at'[k] = at[k] /\ queue' = queue
        BY <3>1, <3>4
      <4>2. /\ call'[k].article = call[k].article /\ call'[k].content = call[k].content
            /\ call'[k].kind = call[k].kind /\ call'[k].other = call[k].other
        BY <2>4, <3>4
      <4>3. ArgsInv!(k)
        BY DEF ShapeInv, ArgsInv
      <4> QED
        BY <4>1, <4>2, <4>3 DEF Embedding, Ends, Entry
    <3> QED
      BY <3>3, <3>4
  <2> QED
    BY <2>6, <2>7, <2>9 DEF ShapeInv
<1>2. CASE FindNone(i)
  BY <1>2 DEF FindNone
<1>3. CASE QueueDuplicate(i)
  <2>1. [content |-> call[i].content, matched |-> call[i].other, status |-> "pending"] \in Entry
    BY <1>3 DEF QueueDuplicate, Entry
  <2>2. /\ queue' \in [Calls -> Entry \cup {None}]
        /\ \A k \in Calls : queue[k] \in Entry => queue'[k] \in Entry
    BY <1>3, <2>1 DEF QueueDuplicate
  <2> QED
    BY <1>3, <2>2 DEF QueueDuplicate
<1>4. CASE InsertRow(i)
  <2>1. unchecked' \subseteq Articles
    BY <1>4, OvertakenType DEF InsertRow
  <2> QED
    BY <1>4, <2>1 DEF InsertRow, Row
<1> QED
  BY <1>1, <1>2, <1>3, <1>4

LEMMA ChangeShape ==
  ASSUME ShapeInv, NEW i \in Calls,
         \/ DropDocs(i) \/ DropChunks(i) \/ Write(i) \/ Remove(i)
         \/ Mark(i) \/ Resolve(i)
  PROVE  ShapeInv'
<1> USE DEF ShapeInv, TypeOK, Marks, MutexInv, ArgsInv, PieceInv, Modelled, Ends, Stops, Embedding, Goto, vectors
<1>1. CASE DropDocs(i)
  BY <1>1, ClearingType DEF DropDocs, ClearDocs
<1>2. CASE DropChunks(i)
  BY <1>2, ClearingType DEF DropChunks, ClearChunks
<1>3. CASE Write(i)
  <2>1. call[i].embedded \in BOOLEAN
    BY DEF Call
  <2>2. rows' \in [Articles -> Row \cup {None}]
    BY <1>3, <2>1, RowType, ZenonT(40) DEF Write
  <2>3. unchecked' \subseteq Articles
    BY <1>3 DEF Write, Rewritten
  <2> QED
    BY <1>3, <2>2, <2>3 DEF Write
<1>4. CASE Remove(i)
  BY <1>4 DEF Remove
<1>5. CASE Mark(i)
  <2>1. rows' \in [Articles -> Row \cup {None}]
    BY <1>5, RowType DEF Mark
  <2> QED
    BY <1>5, <2>1 DEF Mark
<1>6. CASE Resolve(i)
  <2> DEFINE j == call[i].other
  <2>1. j \in Calls /\ queue[j] \in Entry
    BY <1>6 DEF Resolve
  <2>2. [queue[j] EXCEPT !.status = "merged"] \in Entry
    BY <2>1 DEF Entry
  <2>3. /\ queue' \in [Calls -> Entry \cup {None}]
        /\ \A k \in Calls : queue[k] \in Entry => queue'[k] \in Entry
    BY <1>6, <2>1, <2>2 DEF Resolve
  <2> QED
    BY <1>6, <2>3 DEF Resolve
<1> QED
  BY <1>1, <1>2, <1>3, <1>4, <1>5, <1>6

LEMMA EmbedShape ==
  ASSUME ShapeInv, NEW i \in Calls,
         \/ Lock(i) \/ ResetDocs(i) \/ ResetChunks(i) \/ InsertDoc(i) \/ InsertChunk(i)
         \/ Extract(i)
  PROVE  ShapeInv'
<1> USE ArticleServiceAssumption
        DEF ShapeInv, TypeOK, Marks, MutexInv, ArgsInv, PieceInv, Modelled, Ends, Stops, Embedding, Goto, vectors
<1>1. CASE Lock(i)
  BY <1>1, ZenonT(40) DEF Lock, TakeModel
<1>2. CASE ResetDocs(i)
  BY <1>2, ClearingType, ZenonT(40) DEF ResetDocs, ClearDocs
<1>3. CASE ResetChunks(i)
  BY <1>3, ClearingType, ZenonT(40) DEF ResetChunks, ClearChunks
<1> HIDE DEF ShapeInv, TypeOK, MutexInv, ArgsInv, PieceInv, Modelled, Ends, Stops, Embedding, Goto, vectors
<1>4. CASE InsertDoc(i)
  <2>1. call[i].article \in Articles /\ call[i].content \in Contents
    BY <1>4 DEF InsertDoc, Goto, ShapeInv, ArgsInv, Ends, Embedding
  <2>2. docs' \in [Articles -> SUBSET Contents]
    BY <1>4, <2>1 DEF InsertDoc, ShapeInv, TypeOK
  <2>7. at' \in [Calls -> Stops]
    BY <1>4 DEF InsertDoc, Goto, ShapeInv, TypeOK, Stops, Modelled
  <2>3. TypeOK'
    BY <1>4, <2>2, <2>7 DEF InsertDoc, ShapeInv, TypeOK
  <2>4. ArgsInv'
    BY <1>4 DEF InsertDoc, Goto, ShapeInv, TypeOK, ArgsInv, Ends, Embedding
  <2>5. MutexInv'
    BY <1>4 DEF InsertDoc, Goto, ShapeInv, TypeOK, MutexInv, Modelled
  <2>6. PieceInv'
    <3>1. /\ at[i] = "doc" /\ at'[i] = "chunk" /\ piece' = piece
          /\ \A k \in Calls : k # i => at'[k] = at[k]
      BY <1>4 DEF InsertDoc, Goto, ShapeInv, TypeOK
    <3>2. piece[i] = 0 /\ 0 < PieceCount
      BY <3>1, ArticleServiceAssumption DEF ShapeInv, PieceInv
    <3> QED
      BY <3>1, <3>2 DEF ShapeInv, PieceInv
  <2> QED
    BY <2>3, <2>4, <2>5, <2>6 DEF ShapeInv
<1>5. CASE InsertChunk(i)
  <2>1. call[i].article \in Articles /\ call[i].content \in Contents
    BY <1>5 DEF InsertChunk, Goto, ShapeInv, ArgsInv, Ends, Embedding
  <2>2. piece[i] \in 0..PieceCount /\ piece[i] < PieceCount
    BY <1>5 DEF InsertChunk, Goto, ShapeInv, TypeOK, PieceInv
  <2>3. piece[i] + 1 \in Pieces
    BY <2>2, ArticleServiceAssumption DEF Pieces
  <2>4. [content |-> call[i].content, piece |-> piece[i] + 1] \in [content : Contents, piece : Pieces]
    BY <2>1, <2>3
  <2>5. chunks' \in [Articles -> SUBSET [content : Contents, piece : Pieces]]
    BY <1>5, <2>1, <2>4 DEF InsertChunk, ShapeInv, TypeOK
  <2>6. piece' \in [Calls -> 0..PieceCount]
    <3>1. piece[i] + 1 \in 0..PieceCount /\ piece \in [Calls -> 0..PieceCount]
      <4>1. piece[i] + 1 \in 0..PieceCount
        BY <2>2, ArticleServiceAssumption
      <4>2. piece \in [Calls -> 0..PieceCount]
        BY DEF ShapeInv, TypeOK
      <4> QED
        BY <4>1, <4>2
    <3> QED
      BY <1>5, <3>1 DEF InsertChunk
  <2>7. at' \in [Calls -> Stops]
    BY <1>5 DEF InsertChunk, Goto, ShapeInv, TypeOK, Stops, Modelled
  <2>8. TypeOK'
    BY <1>5, <2>5, <2>6, <2>7 DEF InsertChunk, ShapeInv, TypeOK
  <2>9. ArgsInv'
    BY <1>5 DEF InsertChunk, Goto, ShapeInv, TypeOK, ArgsInv, Ends, Embedding
  <2>10. PieceInv'
    BY <1>5, <2>2, ArticleServiceAssumption DEF InsertChunk, MorePieces, Goto, ShapeInv, TypeOK, PieceInv
  <2>11. MutexInv'
    BY <1>5 DEF InsertChunk, Goto, ShapeInv, TypeOK, MutexInv, Modelled
  <2> QED
    BY <2>8, <2>9, <2>10, <2>11 DEF ShapeInv
<1>6. CASE Extract(i)
  <2>1. TypeOK'
    BY <1>6 DEF Extract, DropModel, Goto, ShapeInv, TypeOK, Stops, vectors
  <2>2. ArgsInv'
    BY <1>6 DEF Extract, Goto, ShapeInv, TypeOK, ArgsInv, Ends, Embedding
  <2>3. PieceInv'
    BY <1>6 DEF Extract, Goto, ShapeInv, TypeOK, PieceInv
  <2>4. MutexInv'
    BY <1>6, ArticleServiceAssumption DEF Extract, DropModel, Goto, ShapeInv, TypeOK, MutexInv, Modelled
  <2> QED
    BY <2>1, <2>2, <2>3, <2>4 DEF ShapeInv
<1> QED
  BY <1>1, <1>2, <1>3, <1>4, <1>5, <1>6

LEMMA BreakShape ==
  ASSUME ShapeInv, (\E i \in Calls : Fail(i)) \/ Crash
  PROVE  ShapeInv'
<1>1. ASSUME NEW i \in Calls, Fail(i)
      PROVE  ShapeInv'
  <2>1. call[i].article \in Articles
    BY <1>1 DEF Fail, Fallible, ShapeInv, ArgsInv, Ends
  <2>2. trouble' \in [Articles -> Marks]
    BY <1>1, <2>1 DEF Fail, Troubled, ShapeInv, TypeOK, Marks
  <2>3. TypeOK'
    BY <1>1, <2>2 DEF Fail, DropModel, ShapeInv, TypeOK, Stops, Ends, vectors, Marks
  <2>4. ArgsInv'
    BY <1>1 DEF Fail, ShapeInv, TypeOK, ArgsInv, Ends, Embedding
  <2>5. PieceInv'
    BY <1>1 DEF Fail, ShapeInv, TypeOK, PieceInv
  <2>6. MutexInv'
    BY <1>1, ArticleServiceAssumption DEF Fail, DropModel, ShapeInv, TypeOK, MutexInv, Modelled
  <2> QED
    BY <2>3, <2>4, <2>5, <2>6 DEF ShapeInv
<1>2. CASE Crash
  <2>1. at' \in [Calls -> Stops] /\ \A i \in Calls : at'[i] \in {at[i], "lost"} /\ at'[i] \in Ends
    BY <1>2 DEF Crash, InFlight, ShapeInv, TypeOK, Stops, Ends
  <2>2. trouble' \in [Articles -> Marks]
    BY <1>2 DEF Crash, ShapeInv, TypeOK, Marks
  <2>3. TypeOK'
    BY <1>2, <2>1, <2>2 DEF Crash, ShapeInv, TypeOK, vectors, Marks
  <2>4. ArgsInv'
    BY <1>2, <2>1 DEF Crash, ShapeInv, ArgsInv, Ends, Embedding
  <2>5. PieceInv'
    BY <1>2, <2>1 DEF Crash, ShapeInv, PieceInv
  <2>6. \A i \in Calls : at'[i] \notin Modelled /\ i # None
    BY <2>1, ArticleServiceAssumption DEF Ends, Modelled
  <2>7. MutexInv'
    BY <1>2, <2>6 DEF Crash, MutexInv
  <2> QED
    BY <2>3, <2>4, <2>5, <2>7 DEF ShapeInv
<1> QED
  BY <1>1, <1>2

LEMMA ShapeStep ==
  ASSUME ShapeInv, [Next]_vars
  PROVE  ShapeInv'
<1>1. CASE UNCHANGED vars
  BY <1>1 DEF vars, vectors, ShapeInv, TypeOK, MutexInv, ArgsInv, PieceInv
<1>2. CASE Next
  BY <1>2, ArriveShape, CreateShape, ChangeShape, EmbedShape, BreakShape DEF Next, Proceed
<1> QED
  BY <1>1, <1>2

-----------------------------------------------------------------------------
(* Versions: what is filed for an article comes from one text.               *)
Filing == {"reset chunks", "doc", "chunk"}

LEMMA NothingAdded ==
  ASSUME HolderInv, VersionInv, ShapeInv,
         \A a \in Articles : /\ FreshDocs(a)' \subseteq FreshDocs(a)
                             /\ FreshChunks(a)' \subseteq FreshChunks(a),
         \A k \in Calls : at'[k] \in Filing => /\ at'[k] = at[k]
                                               /\ call'[k] = call[k]
  PROVE  HolderInv' /\ VersionInv'
<1>1. VersionInv'
  BY DEF VersionInv, OneVersion
<1>2. SUFFICES ASSUME NEW k \in Calls, at'[k] \in Filing
               PROVE  HolderInv!(k)'
  BY <1>1 DEF HolderInv, Filing
<1>3. at'[k] = at[k] /\ call'[k] = call[k]
  BY <1>2
<1>4. call[k].article \in Articles
  BY <1>2, <1>3 DEF ShapeInv, ArgsInv, Filing, Ends
<1>5. HolderInv!(k)
  BY DEF HolderInv
<1> QED
  BY <1>3, <1>4, <1>5 DEF AllOf

\* A step that touches neither the vectors nor the stale marks.
LEMMA VectorsUntouched ==
  ASSUME HolderInv, VersionInv, ShapeInv, UNCHANGED vectors,
         \A a \in Articles : /\ "stale docs" \in trouble'[a] <=> "stale docs" \in trouble[a]
                             /\ "stale chunks" \in trouble'[a] <=> "stale chunks" \in trouble[a],
         \A k \in Calls : at'[k] \in Filing => /\ at'[k] = at[k]
                                               /\ call'[k] = call[k]
  PROVE  HolderInv' /\ VersionInv'
<1>1. \A a \in Articles : /\ FreshDocs(a)' \subseteq FreshDocs(a)
                          /\ FreshChunks(a)' \subseteq FreshChunks(a)
  BY DEF FreshDocs, FreshChunks, vectors
<1> QED
  BY <1>1, NothingAdded

LEMMA Clearing ==
  ASSUME ShapeInv, NEW i \in Calls, at[i] \notin Ends, ClearDocs(i) \/ ClearChunks(i)
  PROVE  /\ \A a \in Articles : /\ FreshDocs(a)' \subseteq FreshDocs(a)
                                /\ FreshChunks(a)' \subseteq FreshChunks(a)
         /\ ClearDocs(i) => FreshDocs(call[i].article)' = {}
         /\ ClearChunks(i) => FreshChunks(call[i].article)' = {}
<1> DEFINE b == call[i].article
<1>1. b \in Articles
  BY DEF ShapeInv, ArgsInv
<1>2. /\ docs \in [Articles -> SUBSET Contents]
      /\ chunks \in [Articles -> SUBSET [content : Contents, piece : Pieces]]
      /\ trouble \in [Articles -> Marks]
  BY DEF ShapeInv, TypeOK, Marks
<1>3. ASSUME ClearDocs(i)
      PROVE  /\ \A a \in Articles : /\ FreshDocs(a)' \subseteq FreshDocs(a)
                                    /\ FreshChunks(a)' \subseteq FreshChunks(a)
             /\ FreshDocs(b)' = {}
  BY <1>1, <1>2, <1>3, ZenonT(40) DEF ClearDocs, Troubled, FreshDocs, FreshChunks
<1>4. ASSUME ClearChunks(i)
      PROVE  /\ \A a \in Articles : /\ FreshDocs(a)' \subseteq FreshDocs(a)
                                    /\ FreshChunks(a)' \subseteq FreshChunks(a)
             /\ FreshChunks(b)' = {}
  BY <1>1, <1>2, <1>4, ZenonT(40) DEF ClearChunks, Troubled, FreshDocs, FreshChunks
<1> QED
  BY <1>3, <1>4

LEMMA BeginVersion ==
  ASSUME ShapeInv, HolderInv, VersionInv, NEW i \in Calls, NEW args,
         NEW from \in {"check", "drop docs"}, args.article \in Articles, Begin(i, from, args)
  PROVE  HolderInv' /\ VersionInv'
<1>1. \A a \in Articles : /\ "stale docs" \in trouble'[a] <=> "stale docs" \in trouble[a]
                          /\ "stale chunks" \in trouble'[a] <=> "stale chunks" \in trouble[a]
  BY DEF Begin, ShapeInv, TypeOK
<1>2. \A k \in Calls : at'[k] \in Filing => at'[k] = at[k] /\ call'[k] = call[k]
  BY DEF Begin, ShapeInv, TypeOK, Filing
<1> QED
  BY <1>1, <1>2, VectorsUntouched DEF Begin, vectors

LEMMA ArriveVersion ==
  ASSUME ShapeInv, HolderInv, VersionInv, NEW i \in Calls, Arrive(i)
  PROVE  HolderInv' /\ VersionInv'
<1>0. /\ queue \in [Calls -> Entry \cup {None}]
      /\ at \in [Calls -> Stops]
  BY DEF ShapeInv, TypeOK
<1>1. ASSUME NEW a \in Articles, NEW c \in Contents, StartCreate(i, a, c)
      PROVE  HolderInv' /\ VersionInv'
  BY <1>1, BeginVersion DEF StartCreate
<1>2. ASSUME NEW a \in Articles, NEW c \in Contents \cup {None}, StartUpdate(i, a, c)
      PROVE  HolderInv' /\ VersionInv'
  BY <1>2, BeginVersion DEF StartUpdate
<1>3. ASSUME NEW a \in Articles, StartDelete(i, a)
      PROVE  HolderInv' /\ VersionInv'
  BY <1>3, BeginVersion DEF StartDelete
<1>4. ASSUME NEW j \in Calls, StartMerge(i, j)
      PROVE  HolderInv' /\ VersionInv'
  <2>1. queue[j].matched \in Articles
    BY <1>0, <1>4 DEF StartMerge, Entry
  <2> QED
    BY <1>4, <2>1, BeginVersion DEF StartMerge
<1>5. ASSUME NEW j \in Calls, Reject(i, j)
      PROVE  HolderInv' /\ VersionInv'
  <2>1. \A k \in Calls : at'[k] \in Filing => at'[k] = at[k] /\ call'[k] = call[k]
    BY <1>0, <1>5 DEF Reject, Goto, Filing
  <2> QED
    BY <1>5, <2>1, VectorsUntouched DEF Reject
<1> QED
  BY <1>1, <1>2, <1>3, <1>4, <1>5 DEF Arrive

\* Steps of a call outside embed_article, and failures.
LEMMA OutsideVersion ==
  ASSUME ShapeInv, HolderInv, VersionInv,
         \/ \E i \in Calls : \/ \E a \in Articles : Find(i, a)
                             \/ FindNone(i) \/ QueueDuplicate(i) \/ InsertRow(i)
                             \/ Write(i) \/ Remove(i) \/ Mark(i) \/ Resolve(i)
                             \/ Lock(i) \/ Extract(i) \/ Fail(i)
         \/ Crash
  PROVE  HolderInv' /\ VersionInv'
<1>0. /\ at \in [Calls -> Stops] /\ call \in [Calls -> Call]
      /\ trouble \in [Articles -> Marks]
  BY DEF ShapeInv, TypeOK, Marks
<1>1. UNCHANGED vectors
  BY DEF Find, FindNone, QueueDuplicate, InsertRow, Write, Remove, Mark, Resolve, Lock, Extract, Fail, Crash
<1>2. ASSUME NEW i \in Calls, NEW a \in Articles, Find(i, a)
      PROVE  \A k \in Calls : at'[k] \in Filing => at'[k] = at[k] /\ call'[k] = call[k]
  BY <1>0, <1>2 DEF Find, Goto, Filing
<1>3. ASSUME NEW i \in Calls,
             \/ FindNone(i) \/ QueueDuplicate(i) \/ InsertRow(i) \/ Write(i) \/ Remove(i)
             \/ Mark(i) \/ Resolve(i) \/ Lock(i) \/ Extract(i) \/ Fail(i)
      PROVE  \A k \in Calls : at'[k] \in Filing => at'[k] = at[k] /\ call'[k] = call[k]
  BY <1>0, <1>3 DEF FindNone, QueueDuplicate, InsertRow, Write, Remove, Mark, Resolve, Lock, Extract, Fail, Goto, Filing
<1>4. ASSUME Crash
      PROVE  \A k \in Calls : at'[k] \in Filing => at'[k] = at[k] /\ call'[k] = call[k]
  BY <1>0, <1>4 DEF Crash, Filing
<1>5. \A k \in Calls : at'[k] \in Filing => at'[k] = at[k] /\ call'[k] = call[k]
  BY <1>2, <1>3, <1>4
<1>6. \A a \in Articles : /\ "stale docs" \in trouble'[a] <=> "stale docs" \in trouble[a]
                          /\ "stale chunks" \in trouble'[a] <=> "stale chunks" \in trouble[a]
  <2>1. ASSUME NEW i \in Calls, Fail(i)
        PROVE  trouble' = [trouble EXCEPT ![call[i].article] = @ \cup {"failed"}]
    BY <2>1 DEF Fail, Troubled
  <2>2. ASSUME Crash, NEW a \in Articles
        PROVE  trouble'[a] \in {trouble[a], trouble[a] \cup {"failed"}}
    BY <2>2 DEF Crash
  <2>3. \/ trouble' = trouble
        \/ \E b : trouble' = [trouble EXCEPT ![b] = @ \cup {"failed"}]
        \/ \A a \in Articles : trouble'[a] \in {trouble[a], trouble[a] \cup {"failed"}}
    BY <2>1, <2>2 DEF Find, FindNone, QueueDuplicate, InsertRow, Write, Remove, Mark, Resolve, Lock, Extract
  <2>4. ASSUME NEW b, trouble' = [trouble EXCEPT ![b] = @ \cup {"failed"}], NEW a \in Articles
        PROVE  trouble'[a] \in {trouble[a], trouble[a] \cup {"failed"}}
    BY <1>0, <2>4
  <2>5. ASSUME NEW a \in Articles
        PROVE  trouble'[a] \in {trouble[a], trouble[a] \cup {"failed"}}
    BY <2>3, <2>4, Zenon
  <2>6. ASSUME NEW S, NEW T, T \in {S, S \cup {"failed"}}
        PROVE  /\ "stale docs" \in T <=> "stale docs" \in S
               /\ "stale chunks" \in T <=> "stale chunks" \in S
    BY <2>6
  <2> QED
    BY <2>5, <2>6, Zenon
<1> QED
  BY <1>1, <1>5, <1>6, VectorsUntouched

LEMMA DropVersion ==
  ASSUME ShapeInv, HolderInv, VersionInv, NEW i \in Calls, DropDocs(i) \/ DropChunks(i)
  PROVE  HolderInv' /\ VersionInv'
<1>1. at \in [Calls -> Stops]
  BY DEF ShapeInv, TypeOK
<1>2. \A k \in Calls : at'[k] \in Filing => at'[k] = at[k] /\ call'[k] = call[k]
  BY <1>1 DEF DropDocs, DropChunks, ClearDocs, ClearChunks, Goto, Filing
<1>3. at[i] \notin Ends /\ (ClearDocs(i) \/ ClearChunks(i))
  BY DEF DropDocs, DropChunks, Goto, Ends
<1> QED
  BY <1>2, <1>3, Clearing, NothingAdded

LEMMA EmbedVersion ==
  ASSUME ShapeInv, HolderInv, VersionInv, NEW i \in Calls,
         ResetDocs(i) \/ ResetChunks(i) \/ InsertDoc(i) \/ InsertChunk(i)
  PROVE  HolderInv' /\ VersionInv'
<1> DEFINE b == call[i].article
           c == call[i].content
<1>1. at \in [Calls -> Stops] /\ at[i] \in Modelled
  BY DEF ShapeInv, TypeOK, ResetDocs, ResetChunks, InsertDoc, InsertChunk, Goto, Modelled
<1>2. b \in Articles /\ call' = call
  BY <1>1 DEF ShapeInv, ArgsInv, Modelled, Ends, ResetDocs, ResetChunks, InsertDoc, InsertChunk,
         ClearDocs, ClearChunks
<1>3. \A k \in Calls : k # i => at[k] \notin Modelled /\ at'[k] = at[k]
  <2>1. \A k \in Calls : k # i => at[k] \notin Modelled
    BY <1>1 DEF ShapeInv, MutexInv
  <2>2. \E s : at' = [at EXCEPT ![i] = s]
    BY DEF ResetDocs, ResetChunks, InsertDoc, InsertChunk, Goto
  <2> QED
    BY <1>1, <2>1, <2>2
<1>4. \A k \in Calls : k # i => at'[k] \notin Filing
  BY <1>3 DEF Modelled, Filing
<1>5. HolderInv!(i)
  BY DEF HolderInv
<1>6. SUFFICES HolderInv!(i)' /\ VersionInv'
  BY <1>4 DEF HolderInv, Filing
<1>7. ASSUME \A d \in FreshDocs(b)' : d = c,
             \A k \in FreshChunks(b)' : k.content = c,
             \A a \in Articles : a # b => /\ FreshDocs(a)' = FreshDocs(a)
                                          /\ FreshChunks(a)' = FreshChunks(a)
      PROVE  VersionInv'
  <2>1. SUFFICES ASSUME NEW a \in Articles
                 PROVE  OneVersion(a)'
    BY DEF VersionInv
  <2>2. CASE a = b
    BY <1>2, <1>7, <2>2 DEF OneVersion
  <2>3. CASE a # b
    <3>1. OneVersion(a)
      BY DEF VersionInv
    <3> QED
      BY <1>7, <2>3, <3>1 DEF OneVersion
  <2> QED
    BY <2>2, <2>3
<1>8. ASSUME \A a \in Articles : /\ FreshDocs(a)' \subseteq FreshDocs(a)
                                 /\ FreshChunks(a)' \subseteq FreshChunks(a)
      PROVE  VersionInv'
  BY <1>8 DEF VersionInv, OneVersion
<1>9. CASE ResetDocs(i)
  <2>1. at'[i] = "reset chunks" /\ ClearDocs(i) /\ at[i] \notin Ends
    BY <1>1, <1>9 DEF ResetDocs, Goto, Ends
  <2> QED
    BY <1>2, <1>8, <2>1, Clearing
<1>10. CASE ResetChunks(i)
  <2>1. at[i] = "reset chunks" /\ at'[i] = "doc" /\ ClearChunks(i) /\ at[i] \notin Ends
    BY <1>1, <1>10 DEF ResetChunks, Goto, Ends
  <2> QED
    BY <1>2, <1>5, <1>8, <2>1, Clearing
<1>11. CASE InsertDoc(i)
  <2>1. /\ at[i] = "doc" /\ at'[i] = "chunk"
        /\ docs \in [Articles -> SUBSET Contents] /\ chunks' = chunks /\ trouble' = trouble
        /\ docs' = [docs EXCEPT ![b] = @ \cup {c}]
    BY <1>1, <1>11 DEF InsertDoc, Goto, ShapeInv, TypeOK
  <2>2. FreshDocs(b) = {} /\ FreshChunks(b) = {}
    BY <1>5, <2>1
  <2>3. FreshDocs(b)' \subseteq {c} /\ FreshChunks(b)' = {}
    BY <1>2, <2>1, <2>2 DEF FreshDocs, FreshChunks
  <2>4. \A a \in Articles : a # b => /\ FreshDocs(a)' = FreshDocs(a)
                                     /\ FreshChunks(a)' = FreshChunks(a)
    BY <2>1 DEF FreshDocs, FreshChunks
  <2>5. /\ \A d \in FreshDocs(b)' : d = c
        /\ \A k \in FreshChunks(b)' : k.content = c
    BY <1>2, <2>3
  <2> QED
    <3>1. VersionInv'
      BY <1>7, <2>4, <2>5
    <3> QED
      BY <1>2, <2>1, <2>5, <3>1 DEF AllOf
<1>12. CASE InsertChunk(i)
  <2> DEFINE k == [content |-> c, piece |-> piece[i] + 1]
  <2>1. /\ at[i] = "chunk" /\ at'[i] \in {"chunk", "extract"}
        /\ chunks \in [Articles -> SUBSET [content : Contents, piece : Pieces]]
        /\ docs' = docs /\ trouble' = trouble
        /\ chunks' = [chunks EXCEPT ![b] = @ \cup {k}]
    BY <1>1, <1>12 DEF InsertChunk, Goto, ShapeInv, TypeOK
  <2>2. AllOf(b, c)
    BY <1>5, <2>1
  <2>3. FreshDocs(b)' = FreshDocs(b) /\ FreshChunks(b)' \subseteq FreshChunks(b) \cup {k}
    BY <1>2, <2>1 DEF FreshDocs, FreshChunks
  <2>4. \A a \in Articles : a # b => /\ FreshDocs(a)' = FreshDocs(a)
                                     /\ FreshChunks(a)' = FreshChunks(a)
    BY <2>1 DEF FreshDocs, FreshChunks
  <2>5. /\ \A d \in FreshDocs(b)' : d = c
        /\ \A m \in FreshChunks(b)' : m.content = c
    BY <1>2, <2>2, <2>3 DEF AllOf
  <2> QED
    <3>1. VersionInv'
      BY <1>7, <2>4, <2>5
    <3> QED
      BY <1>2, <2>1, <2>5, <3>1 DEF AllOf
<1> QED
  BY <1>9, <1>10, <1>11, <1>12

LEMMA VersionStep ==
  ASSUME IInv, [Next]_vars
  PROVE  HolderInv' /\ VersionInv'
<1>1. CASE UNCHANGED vars
  BY <1>1, VectorsUntouched DEF IInv, vars, vectors
<1>2. CASE Next
  BY <1>2, ArriveVersion, OutsideVersion, DropVersion, EmbedVersion DEF IInv, Next, Proceed
<1> QED
  BY <1>1, <1>2

-----------------------------------------------------------------------------
LEMMA InitIInv == Init => IInv
<1> SUFFICES ASSUME Init PROVE IInv
  OBVIOUS
<1> USE ArticleServiceAssumption DEF Init
<1>1. TypeOK
  BY DEF TypeOK, Call, NoCall, Stops, Ends
<1>2. MutexInv
  BY DEF MutexInv, Modelled
<1>3. ArgsInv
  BY DEF ArgsInv, NoCall, Ends, Embedding
<1>4. PieceInv
  BY DEF PieceInv
<1>5. HolderInv
  BY DEF HolderInv
<1>6. VersionInv
  BY DEF VersionInv, OneVersion, FreshDocs, FreshChunks
<1> QED
  BY <1>1, <1>2, <1>3, <1>4, <1>5, <1>6 DEF IInv, ShapeInv

(* The inductive invariant holds for any articles, texts, hashes, calls,     *)
(* width and number of chunks.                                               *)
THEOREM Invariance == Spec => []IInv
<1>1. IInv /\ [Next]_vars => IInv'
  BY ShapeStep, VersionStep DEF IInv
<1> QED
  BY InitIInv, <1>1, PTL DEF Spec

(* Every variable keeps its type.                                            *)
THEOREM TypeCorrectness == Spec => []TypeOK
<1>1. IInv => TypeOK
  BY DEF IInv, ShapeInv
<1> QED
  BY Invariance, <1>1, PTL

(* At most one call is in the section the embedding model protects, so the   *)
(* vectors of an article never mix two versions of its text, however many    *)
(* calls overlap, fail or are lost in a crash.                               *)
THEOREM VersionsNeverMix == Spec => []IndexNeverMixesVersions
<1>0. 0 <= 1 /\ 1 <= 1
  OBVIOUS
<1>1. ASSUME IInv
      PROVE  IndexNeverMixesVersions
  <2> SUFFICES ASSUME NEW a \in Articles,
                      trouble[a] \cap {"stale docs", "stale chunks"} = {}
               PROVE  Cardinality(Versions(a)) <= 1
    BY DEF IndexNeverMixesVersions
  <2>1. FreshDocs(a) = docs[a] /\ FreshChunks(a) = chunks[a]
    <3>1. "stale docs" \notin trouble[a] /\ "stale chunks" \notin trouble[a]
      OBVIOUS
    <3> QED
      BY <3>1 DEF FreshDocs, FreshChunks
  <2>2. \A c, d \in Versions(a) : c = d
    <3>1. OneVersion(a)
      BY <1>1 DEF IInv, VersionInv
    <3>2. \A c \in Versions(a) : c \in docs[a] \/ \E k \in chunks[a] : c = k.content
      BY DEF Versions
    <3> QED
      BY <2>1, <3>1, <3>2, ZenonT(40) DEF OneVersion
  <2>3. CASE Versions(a) = {}
    <3>1. Cardinality(Versions(a)) = 0
      BY <2>3, FS_EmptySet
    <3> QED
      BY <1>0, <3>1, Zenon
  <2>4. CASE Versions(a) # {}
    <3>1. PICK c : c \in Versions(a)
      BY <2>4
    <3>2. Versions(a) = {c}
      BY <2>2, <3>1
    <3>3. Cardinality(Versions(a)) = 1
      BY <3>2, FS_Singleton
    <3> QED
      BY <1>0, <3>3, Zenon
  <2> QED
    BY <2>3, <2>4
<1> QED
  BY Invariance, <1>1, PTL

-----------------------------------------------------------------------------
(* Settled articles: what the only call on an article has reached of it.     *)
Clean(a)         == trouble[a] \cap {"raced", "failed"} = {}
DocsAre(a, S)    == "stale docs" \in trouble[a] \/ docs[a] = S
ChunksAre(a, S)  == "stale chunks" \in trouble[a] \/ chunks[a] = S
PiecesTo(c, n)   == {[content |-> c, piece |-> p] : p \in 1..n}
Filed(a, c)      == DocsAre(a, {c}) /\ ChunksAre(a, PiecesTo(c, PieceCount))
Unfiled(a)       == DocsAre(a, {}) /\ ChunksAre(a, {})
Untold(a)        == \A i \in Calls : call[i].article # a

Settled(a) ==
  /\ Stored(a) => rows[a].embedded /\ Filed(a, rows[a].content)
  /\ ~Stored(a) => Unfiled(a)

WorkInv(i, a) ==
  /\ at[i] \in {"check", "queue", "insert"} => ~Stored(a) /\ Unfiled(a)
  /\ at[i] \in {"drop docs", "drop chunks"} /\ call[i].kind # "delete" => Stored(a)
  /\ at[i] = "drop chunks" /\ call[i].kind = "delete" => DocsAre(a, {})
  /\ at[i] = "write" => Stored(a)
  /\ at[i] = "remove" => Unfiled(a)
  /\ at[i] \in Modelled \cup {"wait", "mark", "resolve"} =>
       Stored(a) /\ rows[a].content = call[i].content
  /\ at[i] = "reset chunks" => DocsAre(a, {})
  /\ at[i] = "doc" => Unfiled(a)
  /\ at[i] = "chunk" => /\ DocsAre(a, {call[i].content})
                        /\ ChunksAre(a, PiecesTo(call[i].content, piece[i]))
  /\ at[i] \in {"extract", "mark", "resolve"} => Filed(a, call[i].content)
  /\ at[i] = "resolve" => rows[a].embedded

SettleInv ==
  /\ \A i \in Calls : at[i] = "idle" => call[i].article = None
  /\ \A a \in Articles :
       /\ Untold(a) => ~Stored(a) /\ docs[a] = {} /\ chunks[a] = {}
       /\ "raced" \notin trouble[a] => \A i, j \in Working(a) : i = j
       /\ Clean(a) => /\ Working(a) = {} => Settled(a)
                      /\ \A i \in Working(a) : WorkInv(i, a)

\* What a step of a call on article b leaves alone.
OthersKept(b) ==
  \A a \in Articles \ {b} : /\ rows'[a] = rows[a] /\ trouble'[a] = trouble[a]
                            /\ docs'[a] = docs[a] /\ chunks'[a] = chunks[a]

\* A step of call i keeps SettleInv if it takes the call from what it has
\* reached to what it then claims, or to the end of its work.
LEMMA OneCallStep ==
  ASSUME ShapeInv, SettleInv, NEW i \in Calls, NEW b \in Articles, call[i].article = b,
         at[i] \notin Ends, at'[i] # "idle", OthersKept(b),
         \A k \in Calls : /\ call'[k].article = call[k].article
                          /\ call'[k].kind = call[k].kind
                          /\ call'[k].content = call[k].content,
         \A k \in Calls \ {i} : at'[k] = at[k] /\ piece'[k] = piece[k],
         "raced" \in trouble[b] => "raced" \in trouble'[b],
         Clean(b)' => /\ Clean(b)
                      /\ WorkInv(i, b) => IF at'[i] \in Ends THEN Settled(b)' ELSE WorkInv(i, b)'
  PROVE  SettleInv'
<1>1. \A k \in Calls : at'[k] = "idle" => call'[k].article = None
  BY DEF SettleInv
<1>2. /\ \A a \in Articles \ {b} : Working(a)' = Working(a)
      /\ Working(b)' \subseteq Working(b) /\ i \in Working(b)
      /\ Working(b)' \ {i} = Working(b) \ {i}
      /\ i \in Working(b)' <=> at'[i] \notin Ends
      /\ \A a \in Articles : Working(a) \subseteq Calls
  BY DEF Working, InFlight
<1>3. ASSUME NEW a \in Articles
      PROVE  SettleInv!2!(a)'
  <2>1. SettleInv!2!(a)
    BY DEF SettleInv
  <2>2. Untold(a)' => Untold(a) /\ a # b
    BY DEF Untold
  <2>3. CASE a # b
    <3>1. /\ Settled(a) => Settled(a)'
          /\ Clean(a)' = Clean(a)
      BY <2>3 DEF OthersKept, Settled, Clean, Filed, Unfiled, DocsAre, ChunksAre, Stored
    <3>2. \A k \in Calls \ {i} : WorkInv(k, a) => WorkInv(k, a)'
      <4> SUFFICES ASSUME NEW k \in Calls \ {i}
                   PROVE  WorkInv(k, a) => WorkInv(k, a)'
        OBVIOUS
      <4>1. /\ at'[k] = at[k] /\ piece'[k] = piece[k]
            /\ call'[k].kind = call[k].kind /\ call'[k].content = call[k].content
        OBVIOUS
      <4>2. /\ rows'[a] = rows[a] /\ trouble'[a] = trouble[a]
            /\ docs'[a] = docs[a] /\ chunks'[a] = chunks[a]
        BY <2>3 DEF OthersKept
      <4>3. /\ PiecesTo(call[k].content, piece[k])' = PiecesTo(call[k].content, piece[k])
            /\ PiecesTo(call[k].content, PieceCount)' = PiecesTo(call[k].content, PieceCount)
        BY <4>1 DEF PiecesTo
      <4>4. /\ Stored(a)' <=> Stored(a)
            /\ DocsAre(a, {})' <=> DocsAre(a, {})
            /\ Unfiled(a)' <=> Unfiled(a)
            /\ DocsAre(a, {call[k].content})' <=> DocsAre(a, {call[k].content})
            /\ ChunksAre(a, PiecesTo(call[k].content, piece[k]))'
                 <=> ChunksAre(a, PiecesTo(call[k].content, piece[k]))
            /\ Filed(a, call[k].content)' <=> Filed(a, call[k].content)
        BY <4>1, <4>2, <4>3 DEF Stored, Unfiled, Filed, DocsAre, ChunksAre
      <4> QED
        BY <4>1, <4>2, <4>4 DEF WorkInv
    <3>3. \A k \in Working(a) : k \in Calls \ {i}
      BY <1>2, <2>3 DEF Working
    <3> QED
      BY <1>2, <2>1, <2>2, <2>3, <3>1, <3>2, <3>3 DEF OthersKept, Stored
  <2>4. CASE a = b
    <3>1. "raced" \notin trouble'[b] => "raced" \notin trouble[b]
      OBVIOUS
    <3>2. Clean(b)' => Working(b) = {i} /\ WorkInv(i, b)
      <4>1. Clean(b) => "raced" \notin trouble[b]
        BY DEF Clean
      <4> QED
        BY <1>2, <2>1, <2>4, <4>1
    <3> QED
      BY <1>2, <2>1, <2>2, <2>4, <3>1, <3>2
  <2> QED
    BY <2>3, <2>4
<1> QED
  BY <1>1, <1>3 DEF SettleInv

\* The parts of a call's step that do not depend on how far it has come.
LEMMA StepFrame ==
  ASSUME ShapeInv, NEW i \in Calls, Proceed(i) \/ Lock(i) \/ Fail(i)
  PROVE  /\ at[i] \notin Ends /\ at'[i] # "idle" /\ call[i].article \in Articles
         /\ \A k \in Calls : /\ call'[k].article = call[k].article
                             /\ call'[k].kind = call[k].kind
                             /\ call'[k].content = call[k].content
         /\ \A k \in Calls \ {i} : at'[k] = at[k] /\ piece'[k] = piece[k]
         /\ OthersKept(call[i].article)
<1>1. /\ at \in [Calls -> Stops] /\ call \in [Calls -> Call]
      /\ trouble \in [Articles -> Marks] /\ rows \in [Articles -> Row \cup {None}]
      /\ docs \in [Articles -> SUBSET Contents]
      /\ chunks \in [Articles -> SUBSET [content : Contents, piece : Pieces]]
      /\ piece \in [Calls -> 0..PieceCount]
  BY DEF ShapeInv, TypeOK, Marks
<1>2. at[i] \notin Ends
  BY DEF Proceed, Find, FindNone, QueueDuplicate, InsertRow, DropDocs, DropChunks, Write, Remove,
         Lock, ResetDocs, ResetChunks, InsertDoc, InsertChunk, Extract, Mark, Resolve, Fail,
         Fallible, Goto, Ends
<1>3. \E s : s # "idle" /\ at' = [at EXCEPT ![i] = s]
  BY DEF Proceed, Find, FindNone, QueueDuplicate, InsertRow, DropDocs, DropChunks, Write, Remove,
         Lock, ResetDocs, ResetChunks, InsertDoc, InsertChunk, Extract, Mark, Resolve, Fail, Goto
<1>4. call[i].article \in Articles
  BY <1>2 DEF ShapeInv, ArgsInv
<1>5. \A k \in Calls : /\ call'[k].article = call[k].article
                       /\ call'[k].kind = call[k].kind
                       /\ call'[k].content = call[k].content
  <2>1. CASE \E a \in Articles : Find(i, a)
    BY <1>1, <2>1 DEF Find, Call
  <2>2. CASE call' = call
    BY <2>2
  <2> QED
    BY <2>1, <2>2
    DEF Proceed, FindNone, QueueDuplicate, InsertRow, DropDocs, DropChunks, ClearDocs, ClearChunks,
        Write, Remove, Lock, ResetDocs, ResetChunks, InsertDoc, InsertChunk, Extract, Mark, Resolve,
        Fail
<1>6. \A k \in Calls \ {i} : piece'[k] = piece[k]
  <2>1. piece' = piece \/ piece' = [piece EXCEPT ![i] = @ + 1]
    BY DEF Proceed, Find, FindNone, QueueDuplicate, InsertRow, DropDocs, DropChunks, ClearDocs,
           ClearChunks, Write, Remove, Lock, ResetDocs, ResetChunks, InsertDoc, InsertChunk, Extract,
           Mark, Resolve, Fail
  <2> QED
    BY <1>1, <2>1
<1>7. OthersKept(call[i].article)
  <2> DEFINE b == call[i].article
  <2>1. rows' = rows \/ \E x : rows' = [rows EXCEPT ![b] = x]
    BY DEF Proceed, Find, FindNone, QueueDuplicate, InsertRow, DropDocs, DropChunks, ClearDocs,
           ClearChunks, Write, WriteRow, Remove, Lock, ResetDocs, ResetChunks, InsertDoc, InsertChunk,
           Extract, Mark, Resolve, Fail
  <2>2. docs' = docs \/ \E x : docs' = [docs EXCEPT ![b] = x]
    BY DEF Proceed, Find, FindNone, QueueDuplicate, InsertRow, DropDocs, DropChunks, ClearDocs,
           ClearChunks, Write, Remove, Lock, ResetDocs, ResetChunks, InsertDoc, InsertChunk,
           Extract, Mark, Resolve, Fail, vectors
  <2>3. chunks' = chunks \/ \E x : chunks' = [chunks EXCEPT ![b] = x]
    BY DEF Proceed, Find, FindNone, QueueDuplicate, InsertRow, DropDocs, DropChunks, ClearDocs,
           ClearChunks, Write, Remove, Lock, ResetDocs, ResetChunks, InsertDoc, InsertChunk,
           Extract, Mark, Resolve, Fail, vectors
  <2>4. trouble' = trouble \/ \E x : trouble' = [trouble EXCEPT ![b] = x]
    BY DEF Proceed, Find, FindNone, QueueDuplicate, InsertRow, DropDocs, DropChunks, ClearDocs,
           ClearChunks, Write, Remove, Lock, ResetDocs, ResetChunks, InsertDoc, InsertChunk,
           Extract, Mark, Resolve, Fail, Troubled
  <2>5. \A a \in Articles \ {b} : rows'[a] = rows[a]
    BY <1>1, <2>1
  <2>6. \A a \in Articles \ {b} : docs'[a] = docs[a]
    BY <1>1, <2>2
  <2>7. \A a \in Articles \ {b} : chunks'[a] = chunks[a]
    BY <1>1, <2>3
  <2>8. \A a \in Articles \ {b} : trouble'[a] = trouble[a]
    BY <1>1, <2>4
  <2> QED
    BY <2>5, <2>6, <2>7, <2>8 DEF OthersKept
<1> QED
  BY <1>1, <1>2, <1>3, <1>4, <1>5, <1>6, <1>7

\* What a clearing leaves, and whom it marks.
LEMMA ClearedParts ==
  ASSUME ShapeInv, NEW i \in Calls, NEW b \in Articles, call[i].article = b
  PROVE  /\ ClearDocs(i) => /\ DocsAre(b, {})' /\ rows' = rows /\ chunks' = chunks
                            /\ \A S : ChunksAre(b, S) => "stale chunks" \in trouble'[b] \/ chunks'[b] = S
         /\ ClearChunks(i) => /\ ChunksAre(b, {})' /\ rows' = rows /\ docs' = docs
                              /\ \A S : DocsAre(b, S) => "stale docs" \in trouble'[b] \/ docs'[b] = S
         /\ ClearDocs(i) \/ ClearChunks(i) => Clean(b)' = Clean(b) /\ call' = call /\ piece' = piece
<1>1. /\ docs \in [Articles -> SUBSET Contents] /\ trouble \in [Articles -> Marks]
      /\ chunks \in [Articles -> SUBSET [content : Contents, piece : Pieces]]
  BY DEF ShapeInv, TypeOK, Marks
<1>2. ASSUME ClearDocs(i)
      PROVE  /\ DocsAre(b, {})' /\ rows' = rows /\ chunks' = chunks
             /\ \A S : ChunksAre(b, S) => "stale chunks" \in trouble'[b] \/ chunks'[b] = S
             /\ Clean(b)' = Clean(b) /\ call' = call /\ piece' = piece
  BY <1>1, <1>2 DEF ClearDocs, Troubled, DocsAre, ChunksAre, Clean
<1>3. ASSUME ClearChunks(i)
      PROVE  /\ ChunksAre(b, {})' /\ rows' = rows /\ docs' = docs
             /\ \A S : DocsAre(b, S) => "stale docs" \in trouble'[b] \/ docs'[b] = S
             /\ Clean(b)' = Clean(b) /\ call' = call /\ piece' = piece
  BY <1>1, <1>3 DEF ClearChunks, Troubled, DocsAre, ChunksAre, Clean
<1> QED
  BY <1>2, <1>3

LEMMA PieceSets ==
  ASSUME NEW c
  PROVE  /\ PiecesTo(c, 0) = {}
         /\ \A n \in Nat : PiecesTo(c, n) \cup {[content |-> c, piece |-> n + 1]} = PiecesTo(c, n + 1)
<1>1. 1..0 = {}
  OBVIOUS
<1>2. ASSUME NEW n \in Nat
      PROVE  1..(n + 1) = (1..n) \cup {n + 1}
  OBVIOUS
<1>3. ASSUME NEW n \in Nat
      PROVE  PiecesTo(c, n) \cup {[content |-> c, piece |-> n + 1]} = PiecesTo(c, n + 1)
  <2> DEFINE P == 1..n
             Q == 1..(n + 1)
  <2>1. Q = P \cup {n + 1}
    BY <1>2
  <2> HIDE DEF P, Q
  <2>2. {[content |-> c, piece |-> p] : p \in P} \cup {[content |-> c, piece |-> n + 1]}
          = {[content |-> c, piece |-> p] : p \in Q}
    BY <2>1
  <2> QED
    BY <2>2 DEF PiecesTo, P, Q
<1> QED
  BY <1>1, <1>3 DEF PiecesTo

\* What a step of a call reaches, from what it had reached before.
Reaches(i, b) ==
  Clean(b)' => /\ Clean(b)
               /\ WorkInv(i, b) => IF at'[i] \in Ends THEN Settled(b)' ELSE WorkInv(i, b)'

LEMMA CreateReaches ==
  ASSUME ShapeInv, NEW i \in Calls, NEW b \in Articles, call[i].article = b,
         (\E a \in Articles : Find(i, a)) \/ FindNone(i) \/ QueueDuplicate(i) \/ InsertRow(i)
  PROVE  Reaches(i, b)
<1>1. /\ at \in [Calls -> Stops] /\ rows \in [Articles -> Row \cup {None}]
  BY DEF ShapeInv, TypeOK
<1>2. trouble' = trouble /\ docs' = docs /\ chunks' = chunks
  BY DEF Find, FindNone, QueueDuplicate, InsertRow, vectors
<1>3. Clean(b)' = Clean(b) /\ (Unfiled(b)' <=> Unfiled(b))
  BY <1>2 DEF Clean, Unfiled, DocsAre, ChunksAre
<1>4. CASE (\E a \in Articles : Find(i, a)) \/ FindNone(i)
  <2>1. /\ at[i] = "check" /\ at'[i] \in {"queue", "insert"} /\ rows' = rows
    BY <1>1, <1>4 DEF Find, FindNone, Goto
  <2>2. Stored(b)' <=> Stored(b)
    BY <2>1 DEF Stored
  <2> QED
    BY <1>3, <2>1, <2>2 DEF Reaches, WorkInv, Ends, Modelled
<1>5. CASE QueueDuplicate(i)
  <2>1. at[i] = "queue" /\ at'[i] = "answered" /\ rows' = rows
    BY <1>1, <1>5 DEF QueueDuplicate, Goto
  <2>2. Stored(b)' <=> Stored(b)
    BY <2>1 DEF Stored
  <2> QED
    BY <1>3, <2>1, <2>2 DEF Reaches, WorkInv, Settled, Ends
<1>6. CASE InsertRow(i)
  <2>1. at[i] = "insert" /\ at'[i] = "wait" /\ call' = call
    BY <1>1, <1>6 DEF InsertRow, Goto
  <2>2. call[i].content \in Contents
    BY <2>1 DEF ShapeInv, ArgsInv, Embedding
  <2>3. rows'[b] = [content |-> call[i].content, embedded |-> FALSE]
    BY <1>1, <1>6 DEF InsertRow
  <2>4. rows'[b] \in Row
    BY <2>2, <2>3 DEF Row
  <2>5. rows'[b] # None
    BY <2>4, NoneAssumption
  <2> QED
    BY <1>3, <2>1, <2>3, <2>5 DEF Reaches, WorkInv, Stored, Ends, Modelled
<1> QED
  BY <1>4, <1>5, <1>6

LEMMA DropReaches ==
  ASSUME ShapeInv, NEW i \in Calls, NEW b \in Articles, call[i].article = b,
         DropDocs(i) \/ DropChunks(i) \/ ResetDocs(i) \/ ResetChunks(i)
  PROVE  Reaches(i, b)
<1>1. at \in [Calls -> Stops]
  BY DEF ShapeInv, TypeOK
<1>2. /\ Clean(b)' = Clean(b) /\ call' = call /\ rows' = rows
      /\ Stored(b)' <=> Stored(b)
  BY ClearedParts DEF DropDocs, DropChunks, ResetDocs, ResetChunks, Stored
<1>3. CASE DropDocs(i)
  <2>1. at[i] = "drop docs" /\ at'[i] = "drop chunks" /\ DocsAre(b, {})'
    BY <1>1, <1>3, ClearedParts DEF DropDocs, Goto
  <2> QED
    BY <1>2, <2>1 DEF Reaches, WorkInv, Ends, Modelled
<1>4. CASE DropChunks(i)
  <2>1. /\ at[i] = "drop chunks" /\ ChunksAre(b, {})'
        /\ at'[i] = IF call[i].kind = "delete" THEN "remove" ELSE "write"
    BY <1>1, <1>4, ClearedParts DEF DropChunks, Goto
  <2>2. DocsAre(b, {}) => DocsAre(b, {})'
    BY <1>4, ClearedParts DEF DropChunks, DocsAre
  <2> QED
    BY <1>2, <2>1, <2>2 DEF Reaches, WorkInv, Unfiled, Ends, Modelled
<1>5. CASE ResetDocs(i)
  <2>1. at[i] = "reset docs" /\ at'[i] = "reset chunks" /\ DocsAre(b, {})'
    BY <1>1, <1>5, ClearedParts DEF ResetDocs, Goto
  <2> QED
    BY <1>2, <2>1 DEF Reaches, WorkInv, Ends, Modelled
<1>6. CASE ResetChunks(i)
  <2>1. at[i] = "reset chunks" /\ at'[i] = "doc" /\ ChunksAre(b, {})'
    BY <1>1, <1>6, ClearedParts DEF ResetChunks, Goto
  <2>2. DocsAre(b, {}) => DocsAre(b, {})'
    BY <1>6, ClearedParts DEF ResetChunks, DocsAre
  <2> QED
    BY <1>2, <2>1, <2>2 DEF Reaches, WorkInv, Unfiled, Ends, Modelled
<1> QED
  BY <1>3, <1>4, <1>5, <1>6

LEMMA InsertReaches ==
  ASSUME ShapeInv, NEW i \in Calls, NEW b \in Articles, call[i].article = b,
         InsertDoc(i) \/ InsertChunk(i)
  PROVE  Reaches(i, b)
<1> DEFINE c == call[i].content
<1>1. /\ at \in [Calls -> Stops] /\ docs \in [Articles -> SUBSET Contents]
      /\ chunks \in [Articles -> SUBSET [content : Contents, piece : Pieces]]
      /\ piece \in [Calls -> 0..PieceCount] /\ PieceCount \in Nat \ {0}
  BY ArticleServiceAssumption DEF ShapeInv, TypeOK
<1>2. trouble' = trouble /\ rows' = rows /\ call' = call
  BY DEF InsertDoc, InsertChunk
<1>3. /\ Clean(b)' = Clean(b)
      /\ Stored(b)' <=> Stored(b)
  BY <1>2 DEF Clean, Stored
<1>4. CASE InsertDoc(i)
  <2>1. /\ at[i] = "doc" /\ at'[i] = "chunk" /\ piece' = piece /\ chunks' = chunks
        /\ docs' = [docs EXCEPT ![b] = @ \cup {c}]
    BY <1>1, <1>4 DEF InsertDoc, Goto
  <2>2. piece[i] = 0
    BY <2>1 DEF ShapeInv, PieceInv
  <2>3. PiecesTo(call[i].content, piece[i])' = {}
    BY <1>2, <2>1, <2>2, PieceSets DEF PiecesTo
  <2>4. Unfiled(b) => DocsAre(b, {call[i].content})' /\ ChunksAre(b, PiecesTo(call[i].content, piece[i]))'
    BY <1>1, <1>2, <2>1, <2>3 DEF Unfiled, DocsAre, ChunksAre
  <2> QED
    BY <1>2, <1>3, <2>1, <2>4 DEF Reaches, WorkInv, Ends, Modelled
<1>5. CASE InsertChunk(i)
  <2> DEFINE n == piece[i]
  <2>1. /\ at[i] = "chunk" /\ at'[i] = (IF MorePieces(i) THEN "chunk" ELSE "extract")
        /\ piece'[i] = n + 1 /\ docs' = docs
        /\ chunks' = [chunks EXCEPT ![b] = @ \cup {[content |-> c, piece |-> n + 1]}]
    BY <1>1, <1>5 DEF InsertChunk, Goto
  <2>2. n \in Nat /\ n < PieceCount
    BY <1>1, <2>1 DEF ShapeInv, PieceInv
  <2>3. PiecesTo(c, n) \cup {[content |-> c, piece |-> n + 1]} = PiecesTo(c, n + 1)
    BY <2>2, PieceSets
  <2>4. PiecesTo(call[i].content, piece[i])' = PiecesTo(c, n + 1)
    BY <1>2, <2>1 DEF PiecesTo
  <2>5. DocsAre(b, {c}) => DocsAre(b, {call[i].content})'
    BY <1>2, <2>1 DEF DocsAre
  <2>6. ChunksAre(b, PiecesTo(c, n)) => ChunksAre(b, PiecesTo(call[i].content, piece[i]))'
    <3>1. chunks[b] = PiecesTo(c, n) => chunks'[b] = PiecesTo(c, n + 1)
      BY <1>1, <2>1, <2>3
    <3> QED
      BY <1>2, <2>4, <3>1 DEF ChunksAre
  <2>7. CASE MorePieces(i)
    BY <1>2, <1>3, <2>1, <2>5, <2>6, <2>7 DEF Reaches, WorkInv, Ends, Modelled
  <2>8. CASE ~MorePieces(i)
    <3>1. n + 1 = PieceCount /\ piece'[i] = PieceCount
      BY <1>1, <2>1, <2>2, <2>8 DEF MorePieces
    <3>2. PiecesTo(call[i].content, piece[i])' = PiecesTo(call[i].content, PieceCount)'
      BY <3>1 DEF PiecesTo
    <3>3. DocsAre(b, {c}) /\ ChunksAre(b, PiecesTo(c, n)) => Filed(b, call[i].content)'
      BY <2>5, <2>6, <3>2 DEF Filed, ChunksAre
    <3> QED
      BY <1>2, <1>3, <2>1, <2>8, <3>3 DEF Reaches, WorkInv, Ends, Modelled
  <2> QED
    BY <2>7, <2>8
<1> QED
  BY <1>4, <1>5

LEMMA RowReaches ==
  ASSUME ShapeInv, NEW i \in Calls, NEW b \in Articles, call[i].article = b,
         Write(i) \/ Remove(i) \/ Lock(i) \/ Extract(i) \/ Mark(i) \/ Resolve(i) \/ Fail(i)
  PROVE  Reaches(i, b)
<1>1. /\ at \in [Calls -> Stops] /\ rows \in [Articles -> Row \cup {None}]
      /\ trouble \in [Articles -> Marks]
  BY DEF ShapeInv, TypeOK, Marks
<1>2. CASE Fail(i)
  BY <1>1, <1>2 DEF Fail, Troubled, Reaches, Clean
<1>3. ASSUME ~Fail(i)
      PROVE  /\ trouble' = trouble /\ call' = call
             /\ Clean(b)' = Clean(b) /\ Unfiled(b)' = Unfiled(b)
             /\ Filed(b, call[i].content)' = Filed(b, call[i].content)
  <2>1. trouble' = trouble /\ docs' = docs /\ chunks' = chunks /\ call' = call
    BY <1>3 DEF Write, Remove, Lock, Extract, Mark, Resolve, vectors
  <2>2. PiecesTo(call[i].content, PieceCount)' = PiecesTo(call[i].content, PieceCount)
    BY <2>1 DEF PiecesTo
  <2> QED
    BY <2>1, <2>2 DEF Clean, Unfiled, Filed, DocsAre, ChunksAre
<1>4. CASE ~Fail(i) /\ (Lock(i) \/ Extract(i))
  <2>1. /\ \/ at[i] = "wait" /\ at'[i] = "reset docs"
           \/ at[i] = "extract" /\ at'[i] = "mark"
        /\ rows' = rows
    BY <1>1, <1>4 DEF Lock, Extract, Goto
  <2>2. Stored(b)' <=> Stored(b)
    BY <2>1 DEF Stored
  <2> QED
    BY <1>3, <1>4, <2>1, <2>2 DEF Reaches, WorkInv, Ends, Modelled
<1>5. CASE ~Fail(i) /\ Remove(i)
  <2>1. at[i] = "remove" /\ at'[i] = "answered" /\ rows'[b] = None
    BY <1>1, <1>5 DEF Remove, Goto
  <2> QED
    BY <1>3, <1>5, <2>1 DEF Reaches, WorkInv, Settled, Stored, Ends
<1>6. CASE ~Fail(i) /\ Write(i)
  <2>1. at[i] = "write" /\ at'[i] = "wait" /\ call[i].content \in Contents
    BY <1>1, <1>6 DEF Write, Goto, ShapeInv, ArgsInv, Embedding
  <2>2. Stored(b) => rows'[b] = [content |-> call[i].content, embedded |-> call[i].embedded]
    BY <1>1, <1>6 DEF Write, WriteRow
  <2>3. call[i].embedded \in BOOLEAN
    BY DEF ShapeInv, TypeOK, Call
  <2>4. Stored(b) => Stored(b)' /\ rows'[b].content = call[i].content
    BY <2>1, <2>2, <2>3, NoneAssumption DEF Stored, Row
  <2> QED
    BY <1>3, <1>6, <2>1, <2>4 DEF Reaches, WorkInv, Ends, Modelled
<1>7. CASE ~Fail(i) /\ Mark(i)
  <2>1. /\ at[i] = "mark" /\ at'[i] \in {"resolve", "answered"} /\ call[i].content \in Contents
    BY <1>1, <1>7 DEF Mark, Goto, ShapeInv, ArgsInv, Embedding
  <2>2. Stored(b) => rows'[b] = [content |-> call[i].content, embedded |-> TRUE]
    BY <1>1, <1>7 DEF Mark, WriteRow
  <2>3. Stored(b) => Stored(b)' /\ rows'[b].content = call[i].content /\ rows'[b].embedded
    <3> DEFINE r == [content |-> call[i].content, embedded |-> TRUE]
    <3>1. r \in Row
      BY <2>1 DEF Row
    <3>2. r # None
      BY <3>1, NoneAssumption
    <3>3. r.content = call[i].content
      OBVIOUS
    <3>4. r.embedded
      BY Zenon
    <3> HIDE DEF r
    <3>5. Stored(b) => rows'[b] = r
      BY <2>2 DEF r
    <3> QED
      BY <3>2, <3>3, <3>4, <3>5, Zenon DEF Stored
  <2>4. rows'[b].content = call[i].content /\ Filed(b, call[i].content)' => Filed(b, rows[b].content)'
    BY <1>3, <1>7, ZenonT(40) DEF Filed, PiecesTo, DocsAre, ChunksAre
  <2> QED
    BY <1>3, <1>7, <2>1, <2>3, <2>4 DEF Reaches, WorkInv, Settled, Ends, Modelled
<1>8. CASE ~Fail(i) /\ Resolve(i)
  <2>1. at[i] = "resolve" /\ at'[i] = "answered" /\ rows' = rows
    BY <1>1, <1>8 DEF Resolve, Goto
  <2>2. Stored(b)' <=> Stored(b)
    BY <2>1 DEF Stored
  <2>3. rows'[b].content = call[i].content /\ Filed(b, call[i].content)' => Filed(b, rows[b].content)'
    BY <1>3, <1>8, ZenonT(40) DEF Filed, PiecesTo, DocsAre, ChunksAre
  <2> QED
    BY <1>3, <1>8, <2>1, <2>2, <2>3 DEF Reaches, WorkInv, Settled, Ends, Modelled
<1> QED
  BY <1>2, <1>4, <1>5, <1>6, <1>7, <1>8

LEMMA BeginSettle ==
  ASSUME ShapeInv, SettleInv, NEW i \in Calls, NEW from \in {"check", "drop docs"},
         NEW args \in Call, NEW b \in Articles, args.article = b, Begin(i, from, args),
         from = "check" => Untold(b),
         from = "drop docs" /\ args.kind # "delete" => Stored(b)
  PROVE  SettleInv'
<1>1. /\ at[i] = "idle" /\ at' = [at EXCEPT ![i] = from] /\ call' = [call EXCEPT ![i] = args]
      /\ trouble' = [trouble EXCEPT ![b] =
           IF Working(b) # {} THEN @ \cup {"raced"}
           ELSE IF args.kind = "delete" THEN @ ELSE @ \ {"raced", "failed"}]
      /\ rows' = rows /\ docs' = docs /\ chunks' = chunks /\ piece' = piece
  BY DEF Begin, vectors
<1>2. /\ at \in [Calls -> Stops] /\ call \in [Calls -> Call] /\ trouble \in [Articles -> Marks]
  BY DEF ShapeInv, TypeOK, Marks
<1>3. \A a \in Articles : call[i].article # a /\ i \notin Working(a)
  BY <1>1, ArticleServiceAssumption DEF SettleInv, Working, InFlight, Ends
<1>4. /\ at'[i] = from /\ call'[i] = args
      /\ \A k \in Calls \ {i} : at'[k] = at[k] /\ call'[k] = call[k]
  BY <1>1, <1>2
<1>5. /\ Working(b)' = Working(b) \cup {i}
      /\ \A a \in Articles \ {b} : Working(a)' = Working(a)
      /\ \A a \in Articles : Working(a) \subseteq Calls \ {i}
  BY <1>3, <1>4 DEF Working, InFlight, Ends
<1>6. \A k \in Calls : at'[k] = "idle" => call'[k].article = None
  BY <1>4 DEF SettleInv
<1>7. ASSUME NEW a \in Articles
      PROVE  SettleInv!2!(a)'
  <2>1. SettleInv!2!(a)
    BY DEF SettleInv
  <2>2. (Untold(a)' => Untold(a)) /\ ~Untold(b)' /\ (Stored(a)' <=> Stored(a))
    <3>1. call'[i].article = b /\ call[i].article # a
      BY <1>3, <1>4
    <3>2. \A k \in Calls : k # i => call'[k].article = call[k].article
      BY <1>4
    <3> QED
      BY <1>1, <3>1, <3>2 DEF Untold, Stored
  <2>3. CASE a # b
    <3>1. trouble'[a] = trouble[a] /\ Working(a)' = Working(a)
      BY <1>1, <1>2, <1>5, <2>3
    <3>2. Clean(a)' = Clean(a) /\ (Settled(a)' <=> Settled(a))
      BY <1>1, <3>1 DEF Clean, Settled, Filed, Unfiled, DocsAre, ChunksAre, Stored
    <3>3. \A k \in Calls \ {i} : WorkInv(k, a) => WorkInv(k, a)'
      <4> SUFFICES ASSUME NEW k \in Calls \ {i}
                   PROVE  WorkInv(k, a) => WorkInv(k, a)'
        OBVIOUS
      <4>1. at'[k] = at[k] /\ piece'[k] = piece[k] /\ call'[k] = call[k]
        BY <1>1, <1>4
      <4>2. /\ PiecesTo(call[k].content, piece[k])' = PiecesTo(call[k].content, piece[k])
            /\ PiecesTo(call[k].content, PieceCount)' = PiecesTo(call[k].content, PieceCount)
        BY <4>1 DEF PiecesTo
      <4>3. /\ DocsAre(a, {})' <=> DocsAre(a, {})
            /\ Unfiled(a)' <=> Unfiled(a)
            /\ DocsAre(a, {call[k].content})' <=> DocsAre(a, {call[k].content})
            /\ ChunksAre(a, PiecesTo(call[k].content, piece[k]))'
                 <=> ChunksAre(a, PiecesTo(call[k].content, piece[k]))
            /\ Filed(a, call[k].content)' <=> Filed(a, call[k].content)
        BY <1>1, <3>1, <4>1, <4>2 DEF Unfiled, Filed, DocsAre, ChunksAre
      <4> QED
        BY <1>1, <2>2, <4>1, <4>3 DEF WorkInv
    <3> QED
      BY <1>1, <1>5, <2>1, <2>2, <3>1, <3>2, <3>3
  <2>4. CASE a = b /\ Working(b) # {}
    <3>1. "raced" \in trouble'[b]
      BY <1>1, <1>2, <2>4
    <3> QED
      BY <2>2, <2>4, <3>1 DEF Clean
  <2>5. CASE a = b /\ Working(b) = {}
    <3>1. Working(b)' = {i}
      BY <1>5, <2>5
    <3>2. WorkInv(i, b)'
      <4>1. CASE from = "check"
        <5>1. ~Stored(b) /\ docs[b] = {} /\ chunks[b] = {}
          BY <2>1, <2>5, <4>1
        <5> QED
          BY <1>1, <1>4, <4>1, <5>1 DEF WorkInv, Stored, Unfiled, DocsAre, ChunksAre, Modelled
      <4>2. CASE from = "drop docs"
        BY <1>4, <2>2, <2>5, <4>2 DEF WorkInv, Modelled
      <4> QED
        BY <4>1, <4>2
    <3> QED
      BY <2>2, <2>5, <3>1, <3>2
  <2> QED
    BY <2>3, <2>4, <2>5
<1> QED
  BY <1>6, <1>7 DEF SettleInv

LEMMA ArriveSettle ==
  ASSUME ShapeInv, SettleInv, NEW i \in Calls, Arrive(i)
  PROVE  SettleInv'
<1> USE ArticleServiceAssumption
<1>0. queue \in [Calls -> Entry \cup {None}] /\ rows \in [Articles -> Row \cup {None}]
  BY DEF ShapeInv, TypeOK
<1>1. ASSUME NEW a \in Articles, NEW c \in Contents, StartCreate(i, a, c)
      PROVE  SettleInv'
  BY <1>1, BeginSettle DEF StartCreate, Begin, Untold, Call
<1>2. ASSUME NEW a \in Articles, NEW c \in Contents \cup {None}, StartUpdate(i, a, c)
      PROVE  SettleInv'
  <2>1. rows[a] \in Row
    BY <1>0, <1>2 DEF StartUpdate, Stored
  <2> QED
    BY <1>2, <2>1, BeginSettle DEF StartUpdate, Begin, Row, Call
<1>3. ASSUME NEW a \in Articles, StartDelete(i, a)
      PROVE  SettleInv'
  BY <1>3, BeginSettle DEF StartDelete, Begin, Call
<1>4. ASSUME NEW j \in Calls, StartMerge(i, j)
      PROVE  SettleInv'
  <2>1. queue[j] \in Entry
    BY <1>0, <1>4 DEF StartMerge
  <2>2. rows[queue[j].matched] \in Row
    BY <1>0, <1>4, <2>1 DEF StartMerge, Stored, Entry
  <2> QED
    BY <1>4, <2>1, <2>2, BeginSettle DEF StartMerge, Begin, Row, Entry, Incoming, Call
<1>5. ASSUME NEW j \in Calls, Reject(i, j)
      PROVE  SettleInv'
  <2>1. /\ at \in [Calls -> Stops] /\ at[i] = "idle" /\ at' = [at EXCEPT ![i] = "answered"]
        /\ rows' = rows /\ docs' = docs /\ chunks' = chunks /\ trouble' = trouble
        /\ call' = call /\ piece' = piece
    BY <1>5 DEF Reject, Goto, ShapeInv, TypeOK, vectors
  <2>2. InFlight = {} /\ InFlight' = {}
    BY <1>5, <2>1 DEF Reject, Alone, InFlight, Ends
  <2>3. \A a \in Articles : Working(a) = {} /\ Working(a)' = {}
    BY <2>2 DEF Working
  <2>4. \A a \in Articles : /\ Settled(a)' <=> Settled(a)
                            /\ Clean(a)' <=> Clean(a)
                            /\ Untold(a)' <=> Untold(a)
                            /\ Stored(a)' <=> Stored(a)
    BY <2>1 DEF Settled, Clean, Untold, Stored, Filed, Unfiled, DocsAre, ChunksAre
  <2> QED
    BY <2>1, <2>3, <2>4 DEF SettleInv
<1> QED
  BY <1>1, <1>2, <1>3, <1>4, <1>5 DEF Arrive

LEMMA CrashSettle ==
  ASSUME ShapeInv, SettleInv, Crash
  PROVE  SettleInv'
<1>1. /\ rows' = rows /\ docs' = docs /\ chunks' = chunks /\ call' = call
      /\ trouble' = [a \in Articles |->
           IF Working(a) = {} THEN trouble[a] ELSE trouble[a] \cup {"failed"}]
      /\ at' = [i \in Calls |-> IF i \in InFlight THEN "lost" ELSE at[i]]
  BY DEF Crash, vectors
<1>2. /\ \A a \in Articles : Working(a)' = {}
      /\ \A i \in Calls : at'[i] = "idle" => at[i] = "idle"
  BY <1>1 DEF Working, InFlight, Ends
<1>3. ASSUME NEW a \in Articles
      PROVE  SettleInv!2!(a)'
  <2>1. SettleInv!2!(a)
    BY DEF SettleInv
  <2>2. /\ Untold(a)' <=> Untold(a)
        /\ Stored(a)' <=> Stored(a)
    BY <1>1 DEF Untold, Stored
  <2>3. Clean(a)' => Working(a) = {} /\ trouble'[a] = trouble[a]
    BY <1>1 DEF Clean
  <2>4. trouble'[a] = trouble[a] => (Settled(a)' <=> Settled(a)) /\ (Clean(a)' <=> Clean(a))
    BY <1>1 DEF Settled, Clean, Stored, Filed, Unfiled, DocsAre, ChunksAre
  <2> QED
    BY <1>1, <1>2, <2>1, <2>2, <2>3, <2>4
<1> QED
  BY <1>1, <1>2, <1>3 DEF SettleInv

LEMMA SettleStep ==
  ASSUME ShapeInv, SettleInv, [Next]_vars
  PROVE  SettleInv'
<1>1. CASE UNCHANGED vars
  <2>1. /\ rows' = rows /\ docs' = docs /\ chunks' = chunks /\ call' = call /\ at' = at
        /\ trouble' = trouble /\ piece' = piece
    BY <1>1 DEF vars, vectors
  <2>2. ASSUME NEW a \in Articles
        PROVE  /\ (Untold(a)' <=> Untold(a)) /\ (Stored(a)' <=> Stored(a)) /\ (Clean(a)' <=> Clean(a))
               /\ (Settled(a)' <=> Settled(a)) /\ Working(a)' = Working(a)
               /\ \A i \in Calls : WorkInv(i, a)' <=> WorkInv(i, a)
    <3>1. /\ (Untold(a)' <=> Untold(a)) /\ (Stored(a)' <=> Stored(a)) /\ (Clean(a)' <=> Clean(a))
          /\ (Settled(a)' <=> Settled(a)) /\ Working(a)' = Working(a)
      BY <2>1 DEF Untold, Stored, Clean, Working, InFlight, Settled, Filed, Unfiled, DocsAre, ChunksAre
    <3>2. ASSUME NEW i \in Calls
          PROVE  WorkInv(i, a)' <=> WorkInv(i, a)
      BY <2>1, <3>1, ZenonT(40) DEF WorkInv, Filed, Unfiled, DocsAre, ChunksAre, PiecesTo
    <3> QED
      BY <3>1, <3>2
  <2>3. \A a \in Articles : Working(a) \subseteq Calls
    BY DEF Working, InFlight
  <2> QED
    BY <2>1, <2>2, <2>3 DEF SettleInv
<1>2. ASSUME NEW i \in Calls, Proceed(i) \/ Lock(i) \/ Fail(i)
      PROVE  SettleInv'
  <2>1. PICK b \in Articles : b = call[i].article
    BY <1>2, StepFrame
  <2>2. Reaches(i, b)
    BY <1>2, <2>1, CreateReaches, DropReaches, InsertReaches, RowReaches DEF Proceed
  <2>3. "raced" \in trouble[b] => "raced" \in trouble'[b]
    <3>1. trouble \in [Articles -> Marks]
      BY DEF ShapeInv, TypeOK, Marks
    <3>2. \/ trouble' = trouble
          \/ \E m : trouble' = [trouble EXCEPT ![b] = @ \cup {m}]
          \/ \E m \in {"stale docs", "stale chunks"} : trouble' = [trouble EXCEPT ![b] = @ \ {m}]
      BY <1>2, <2>1
      DEF Proceed, Find, FindNone, QueueDuplicate, InsertRow, DropDocs, DropChunks, ClearDocs,
          ClearChunks, Write, Remove, Lock, ResetDocs, ResetChunks, InsertDoc, InsertChunk, Extract,
          Mark, Resolve, Fail, Troubled
    <3> QED
      BY <3>1, <3>2
  <2> QED
    BY <1>2, <2>1, <2>2, <2>3, StepFrame, OneCallStep DEF Reaches
<1>3. CASE Next
  BY <1>2, <1>3, ArriveSettle, CrashSettle DEF Next
<1> QED
  BY <1>1, <1>3

LEMMA InitSettle == Init => SettleInv
<1> SUFFICES ASSUME Init PROVE SettleInv
  OBVIOUS
<1>1. \A a \in Articles : Working(a) = {}
  BY DEF Init, Working, InFlight, Ends
<1>2. \A i \in Calls : call[i].article = None
  BY DEF Init, NoCall
<1> QED
  BY <1>1, <1>2 DEF Init, SettleInv, Settled, Stored, Unfiled, DocsAre, ChunksAre

(* A settled article is indexed as it is stored, however many calls overlap, *)
(* fail or are lost in a crash before: what the only call on an article has  *)
(* reached is what it claims at each stop (WorkInv), and its last stop       *)
(* claims all.                                                               *)
THEOREM SettledIsIndexed == Spec => []SettledIndexMatchesRow
<1>1. Init => SettleInv
  BY InitSettle
<1>2. ShapeInv /\ SettleInv /\ [Next]_vars => SettleInv'
  BY SettleStep
<1>3. IInv => ShapeInv
  BY DEF IInv
<1>4. SettleInv => SettledIndexMatchesRow
  BY DEF SettleInv, Clean, Settled, Filed, Unfiled, DocsAre, ChunksAre, PiecesTo, Indexed, Pieces,
         SettledIndexMatchesRow
<1> QED
  BY <1>1, <1>2, <1>3, <1>4, Invariance, PTL DEF Spec

-----------------------------------------------------------------------------
(* Merges.  A merge runs alone, on the article and with the text of its      *)
(* entry.                                                                    *)
MergeInv ==
  \A i \in InFlight : call[i].kind = "merge" =>
    LET a == call[i].article
        e == queue[call[i].other] IN
    /\ \A k \in InFlight : k = i
    /\ at[i] # "remove"
    /\ a = e.matched /\ call[i].content = e.content
    /\ Stored(a)
    /\ at[i] = "resolve" => rows[a] = [content |-> e.content, embedded |-> TRUE]

LEMMA BeginMerges ==
  ASSUME ShapeInv, MergeInv, NEW i \in Calls, NEW from, NEW args, args.kind # "merge",
         Room, Begin(i, from, args)
  PROVE  MergeInv'
<1>1. /\ call' = [call EXCEPT ![i] = args] /\ at' = [at EXCEPT ![i] = from]
      /\ at \in [Calls -> Stops] /\ call \in [Calls -> Call]
  BY DEF Begin, ShapeInv, TypeOK
<1>2. \A k \in InFlight' : call'[k].kind # "merge"
  BY <1>1 DEF InFlight, Room
<1> QED
  BY <1>2 DEF MergeInv

LEMMA ArriveMerges ==
  ASSUME ShapeInv, MergeInv, NEW i \in Calls, Arrive(i)
  PROVE  MergeInv'
<1>1. CASE \/ \E a \in Articles, c \in Contents : StartCreate(i, a, c)
           \/ \E a \in Articles, c \in Contents \cup {None} : StartUpdate(i, a, c)
           \/ \E a \in Articles : StartDelete(i, a)
  BY <1>1, BeginMerges DEF StartCreate, StartUpdate, StartDelete
<1>2. ASSUME NEW j \in Calls, StartMerge(i, j)
      PROVE  MergeInv'
  <2>1. /\ at \in [Calls -> Stops] /\ call \in [Calls -> Call]
        /\ at' = [at EXCEPT ![i] = "drop docs"] /\ rows' = rows /\ queue' = queue
        /\ call' = [call EXCEPT ![i] = [kind |-> "merge", article |-> queue[j].matched,
              content |-> queue[j].content, embedded |-> rows[queue[j].matched].embedded, other |-> j]]
    BY <1>2 DEF StartMerge, Begin, Incoming, ShapeInv, TypeOK
  <2>2. InFlight' = {i} /\ Stored(queue[j].matched)
    BY <1>2, <2>1 DEF StartMerge, Alone, InFlight, Ends
  <2>3. /\ call'[i].article = queue'[j].matched /\ call'[i].content = queue'[j].content
        /\ call'[i].other = j /\ at'[i] = "drop docs"
    BY <2>1
  <2> QED
    BY <2>1, <2>2, <2>3 DEF MergeInv, Stored
<1>3. ASSUME NEW j \in Calls, Reject(i, j)
      PROVE  MergeInv'
  <2>1. InFlight' = {}
    BY <1>3 DEF Reject, Goto, Alone, InFlight, Ends, ShapeInv, TypeOK
  <2> QED
    BY <2>1 DEF MergeInv
<1> QED
  BY <1>1, <1>2, <1>3 DEF Arrive

\* Of a step of a merge: it keeps its entry and its article, and marks the
\* article before it resolves the entry.
LEMMA MergeMoves ==
  ASSUME ShapeInv, MergeInv, NEW i \in InFlight, call[i].kind = "merge",
         Proceed(i) \/ Lock(i) \/ Fail(i), at'[i] \notin Ends
  PROVE  LET a == call[i].article
             e == queue[call[i].other] IN
         /\ call' = call /\ queue' = queue /\ at'[i] # "remove" /\ Stored(a)'
         /\ at'[i] = "resolve" => rows'[a] = [content |-> e.content, embedded |-> TRUE]
<1> DEFINE a == call[i].article
           c == call[i].content
<1>1. /\ at \in [Calls -> Stops] /\ call \in [Calls -> Call]
      /\ rows \in [Articles -> Row \cup {None}] /\ i \in Calls
  BY DEF ShapeInv, TypeOK, InFlight
<1>2. /\ Stored(a) /\ c = queue[call[i].other].content /\ at[i] # "remove" /\ a \in Articles
  BY <1>1 DEF MergeInv, ShapeInv, ArgsInv, InFlight
<1>3. at[i] \notin {"check", "queue", "insert"}
  BY <1>1 DEF ShapeInv, ArgsInv
<1>4. CASE DropDocs(i) \/ DropChunks(i) \/ ResetDocs(i) \/ ResetChunks(i)
  BY <1>1, <1>2, <1>4 DEF DropDocs, DropChunks, ResetDocs, ResetChunks, ClearDocs, ClearChunks, Goto, Stored
<1>5. CASE InsertDoc(i) \/ InsertChunk(i) \/ Lock(i) \/ Extract(i)
  BY <1>1, <1>2, <1>5 DEF InsertDoc, InsertChunk, Lock, Extract, Goto, Stored
<1>6. CASE Write(i) \/ Mark(i)
  <2>1. c \in Contents
    BY <1>1, <1>6 DEF Write, Mark, Goto, ShapeInv, ArgsInv, Embedding
  <2>2. /\ call' = call /\ queue' = queue /\ at'[i] # "remove"
        /\ at'[i] = "resolve" => Mark(i)
    BY <1>1, <1>6 DEF Write, Mark, Goto
  <2>3. PICK e \in BOOLEAN : rows' = [rows EXCEPT ![a] = [content |-> c, embedded |-> e]]
                             /\ (Mark(i) => e = TRUE)
    <3>1. CASE Write(i)
      <4>1. call[i].embedded \in BOOLEAN
        BY <1>1 DEF Call
      <4>2. ~Mark(i)
        BY <3>1 DEF Write, Mark, Goto
      <4> QED
        BY <1>2, <3>1, <4>1, <4>2 DEF Write, WriteRow
    <3>2. CASE Mark(i)
      BY <1>2, <3>2 DEF Mark, WriteRow
    <3> QED
      BY <1>6, <3>1, <3>2
  <2>4. rows'[a] = [content |-> c, embedded |-> e]
    BY <1>1, <1>2, <2>3
  <2>5. rows'[a] # None
    BY <2>1, <2>4, NoneAssumption DEF Row
  <2> QED
    BY <1>2, <2>2, <2>3, <2>4, <2>5 DEF Stored
<1>7. CASE Resolve(i) \/ Fail(i)
  BY <1>1, <1>7 DEF Resolve, Fail, Goto, Ends
<1> QED
  BY <1>2, <1>3, <1>4, <1>5, <1>6, <1>7 DEF Proceed, Find, FindNone, QueueDuplicate, InsertRow, Remove, Goto

LEMMA MergeStep ==
  ASSUME ShapeInv, MergeInv, [Next]_vars
  PROVE  MergeInv'
<1>1. CASE UNCHANGED vars
  BY <1>1 DEF vars, MergeInv, InFlight, Stored
<1>2. CASE Crash
  <2>1. InFlight' = {}
    BY <1>2 DEF Crash, InFlight, Ends
  <2> QED
    BY <2>1 DEF MergeInv
<1>3. ASSUME NEW i \in Calls, Proceed(i) \/ Lock(i) \/ Fail(i)
      PROVE  MergeInv'
  <2>1. /\ i \in InFlight /\ InFlight' \subseteq InFlight /\ (i \in InFlight' <=> at'[i] \notin Ends)
        /\ \A k \in Calls : call'[k].kind = call[k].kind
    BY <1>3, StepFrame DEF InFlight
  <2>2. SUFFICES ASSUME NEW k \in InFlight', call'[k].kind = "merge"
                 PROVE  MergeInv!(k)'
    BY DEF MergeInv
  <2>3. k \in InFlight /\ call[k].kind = "merge" /\ k \in Calls
    BY <2>1, <2>2 DEF InFlight
  <2>4. k = i
    BY <2>1, <2>3 DEF MergeInv
  <2>5. MergeInv!(i)
    BY <2>1 DEF MergeInv
  <2> QED
    BY <1>3, <2>1, <2>3, <2>4, <2>5, MergeMoves
<1> QED
  BY <1>1, <1>2, <1>3, ArriveMerges DEF Next

(* An entry becomes merged only once the incoming text has replaced that of  *)
(* the matched article and has been embedded, wherever a merge fails or is   *)
(* cut short.                                                                *)
THEOREM MergedEntriesAreReplaced == Spec => MergedMeansReplaced
<1>1. Init => MergeInv
  BY DEF Init, MergeInv, InFlight, Ends
<1>2. IInv /\ MergeInv /\ [Next]_vars => MergeInv'
  BY MergeStep DEF IInv
<1>3. IInv /\ MergeInv /\ [Next]_vars
      => [\A j \in Calls : queue[j] # None /\ queue'[j].status = "merged" /\ queue'[j] # queue[j] =>
            rows[queue[j].matched] = [content |-> queue[j].content, embedded |-> TRUE]]_vars
  <2> SUFFICES ASSUME IInv, MergeInv, Next,
                      NEW j \in Calls, queue'[j].status = "merged", queue'[j] # queue[j]
               PROVE  rows[queue[j].matched] = [content |-> queue[j].content, embedded |-> TRUE]
    OBVIOUS
  <2>1. queue \in [Calls -> Entry \cup {None}]
    BY DEF IInv, ShapeInv, TypeOK
  <2>2. ASSUME NEW i \in Calls, Resolve(i)
        PROVE  rows[queue[j].matched] = [content |-> queue[j].content, embedded |-> TRUE]
    <3>1. call[i].other = j
      BY <2>1, <2>2 DEF Resolve
    <3>2. i \in InFlight /\ call[i].kind = "merge" /\ at[i] = "resolve"
      BY <2>2 DEF Resolve, Goto, IInv, ShapeInv, ArgsInv, InFlight, Ends
    <3> QED
      BY <3>1, <3>2 DEF MergeInv
  <2>3. ASSUME NEW i \in Calls, QueueDuplicate(i) \/ (\E k \in Calls : Reject(i, k))
        PROVE  FALSE
    <3>1. CASE QueueDuplicate(i)
      BY <2>1, <3>1 DEF QueueDuplicate
    <3>2. ASSUME NEW k \in Calls, Reject(i, k)
          PROVE  FALSE
      <4>1. queue[k] \in Entry
        BY <2>1, <3>2 DEF Reject
      <4>2. [queue[k] EXCEPT !.status = "rejected"].status = "rejected"
        BY <4>1 DEF Entry
      <4> QED
        BY <2>1, <3>2, <4>2 DEF Reject
    <3> QED
      BY <2>3, <3>1, <3>2
  <2>4. \/ queue' = queue
        \/ \E i \in Calls : Resolve(i) \/ QueueDuplicate(i) \/ (\E k \in Calls : Reject(i, k))
    <3>1. ASSUME NEW i \in Calls, Arrive(i)
          PROVE  queue' = queue \/ \E k \in Calls : Reject(i, k)
      BY <3>1 DEF Arrive, StartCreate, StartUpdate, StartDelete, StartMerge, Begin
    <3>2. ASSUME NEW i \in Calls, Proceed(i) \/ Lock(i) \/ Fail(i)
          PROVE  queue' = queue \/ Resolve(i) \/ QueueDuplicate(i)
      BY <3>2 DEF Proceed, Find, FindNone, InsertRow, DropDocs, DropChunks, ClearDocs, ClearChunks, Write,
         Remove, Lock, ResetDocs, ResetChunks, InsertDoc, InsertChunk, Extract, Mark, Fail
    <3>3. Crash => queue' = queue
      BY DEF Crash
    <3> QED
      BY <3>1, <3>2, <3>3 DEF Next
  <2> QED
    BY <2>2, <2>3, <2>4
<1> QED
  BY <1>1, <1>2, <1>3, Invariance, PTL DEF Spec, MergedMeansReplaced

-----------------------------------------------------------------------------
(* Texts that are stored twice.  Once a create is past its insertion, its    *)
(* article never comes back, and it keeps its hash unless an update changes  *)
(* that (Keeps).  A create that is about to insert has been overtaken, or no *)
(* article that is not marked already has its hash.                          *)
Looking == {"check", "queue", "insert"}

Coming(a)    == Untold(a) \/ \E i \in Calls : call[i].article = a /\ at[i] \in Looking
HashIs(a, c) == Stored(a) => HashOf[rows[a].content] = HashOf[c]
Keeps(a, c)  == ~Coming(a) /\ (a \in unchecked \/ HashIs(a, c))

StoredInv == \A a \in Articles : Stored(a) => ~Coming(a)
EntryInv  == \A j \in Calls : queue[j] # None => Keeps(queue[j].matched, queue[j].content)

TextInv(i) ==
  LET a == call[i].article
      c == call[i].content IN
  /\ at[i] \in Looking => \A k \in Calls : call[k].article = a => k = i
  /\ at[i] = "queue" => Keeps(call[i].other, c)
  /\ at[i] = "insert" => a \in unchecked \/ \A b \in Articles : Matches(b, c) => b \in unchecked
  /\ at[i] \in {"drop docs", "drop chunks", "write"} =>
       ~Coming(a) /\ (call[i].kind \notin {"update", "delete"} => Keeps(a, c))
  /\ at[i] = "write" => call[i].kind # "delete"
  /\ at[i] \in Modelled \cup {"wait", "mark"} => Keeps(a, c)

UniqueInv == StoredInv /\ EntryInv /\ (\A i \in Calls : TextInv(i)) /\ UniqueContent

\* A step by which no article comes back, and none that is there gets another
\* hash without being marked.
HashesStay ==
  /\ unchecked \subseteq unchecked'
  /\ \A a \in Articles : ~Coming(a) =>
       /\ ~Coming(a)'
       /\ Stored(a)' => Stored(a) /\ (HashOf[rows'[a].content] = HashOf[rows[a].content] \/ a \in unchecked')

\* Moreover, one that stores no article.
NothingNew == \A a \in Articles : Stored(a)' => Stored(a)

LEMMA KeptTexts ==
  ASSUME HashesStay
  PROVE  \A a \in Articles : \A c : Keeps(a, c) => Keeps(a, c)'
<1> SUFFICES ASSUME NEW a \in Articles, NEW c, Keeps(a, c)
             PROVE  Keeps(a, c)'
  OBVIOUS
<1>1. ~Coming(a)'
  BY DEF HashesStay, Keeps
<1>2. a \in unchecked' \/ HashIs(a, c)'
  BY DEF HashesStay, Keeps, HashIs
<1> QED
  BY <1>1, <1>2 DEF Keeps

LEMMA KeptStored ==
  ASSUME HashesStay, NothingNew, StoredInv, UniqueContent
  PROVE  StoredInv' /\ UniqueContent'
<1>1. StoredInv'
  BY DEF StoredInv, HashesStay, NothingNew
<1>2. UniqueContent'
  BY DEF StoredInv, HashesStay, NothingNew, UniqueContent
<1> QED
  BY <1>1, <1>2

\* Entries that stay, but for their status.
LEMMA KeptEntries ==
  ASSUME HashesStay, EntryInv,
         \A j \in Calls : queue'[j] # None =>
           /\ queue[j] # None /\ queue[j].matched \in Articles
           /\ queue'[j].matched = queue[j].matched /\ queue'[j].content = queue[j].content
  PROVE  EntryInv'
<1> SUFFICES ASSUME NEW j \in Calls, queue'[j] # None
             PROVE  Keeps(queue[j].matched, queue[j].content)'
  BY DEF EntryInv
<1>1. PICK m \in Articles : \E c : /\ m = queue[j].matched /\ m = queue'[j].matched
                                  /\ c = queue[j].content /\ c = queue'[j].content
  OBVIOUS
<1>0. PICK c : c = queue[j].content /\ c = queue'[j].content
  BY <1>1
<1>2. Keeps(m, c)
  BY <1>0, <1>1 DEF EntryInv
<1>3. Keeps(m, c)'
  BY <1>2, KeptTexts
<1> QED
  BY <1>0, <1>1, <1>3

LEMMA SameEntries ==
  ASSUME HashesStay, ShapeInv, EntryInv, queue' = queue
  PROVE  EntryInv'
<1>1. \A j \in Calls : queue[j] # None => queue[j].matched \in Articles
  BY DEF ShapeInv, TypeOK, Entry
<1>2. \A j \in Calls : queue'[j] # None =>
        /\ queue[j] # None /\ queue[j].matched \in Articles
        /\ queue'[j].matched = queue[j].matched /\ queue'[j].content = queue[j].content
  BY <1>1
<1> QED
  BY <1>2, KeptEntries

\* A call that the step does not move.
LEMMA OtherTexts ==
  ASSUME HashesStay, ShapeInv, StoredInv, NEW j \in Calls, TextInv(j), at'[j] = at[j], call'[j] = call[j],
         at[j] \in Looking => \A k \in Calls : call'[k].article = call[j].article => k = j,
         \/ NothingNew
         \/ at[j] = "insert" => \/ call[j].article \in unchecked'
                                \/ \A b \in Articles : Matches(b, call[j].content)' => b \in unchecked'
  PROVE  TextInv(j)'
<1>0. at[j] \in Stops /\ call[j] \in Call
  BY DEF ShapeInv, TypeOK
<1>1. CASE at[j] \in Looking
  <2>1. PICK a \in Articles, c \in Contents : a = call[j].article /\ c = call[j].content
    BY <1>1 DEF ShapeInv, ArgsInv, Looking, Embedding, Ends
  <2>2. at[j] = "queue" => Keeps(call[j].other, call[j].content)'
    <3> SUFFICES ASSUME at[j] = "queue" PROVE Keeps(call[j].other, call[j].content)'
      OBVIOUS
    <3>1. PICK m \in Articles : m = call[j].other
      BY DEF ShapeInv, ArgsInv
    <3>2. Keeps(m, c)
      BY <2>1, <3>1 DEF TextInv
    <3>3. Keeps(m, c)'
      BY <3>2, KeptTexts
    <3>4. m = call'[j].other /\ c = call'[j].content
      BY <2>1, <3>1
    <3> QED
      BY <3>3, <3>4
  <2>3. at[j] = "insert" =>
          a \in unchecked' \/ \A b \in Articles : Matches(b, call[j].content)' => b \in unchecked'
    <3> SUFFICES ASSUME at[j] = "insert", NothingNew, a \notin unchecked',
                        NEW b \in Articles, Matches(b, c)'
                 PROVE  b \in unchecked'
      BY <2>1 DEF Matches, Stored
    <3>1. Stored(b)' /\ HashOf[rows'[b].content] = HashOf[c]
      BY DEF Matches
    <3>2. Stored(b) /\ (HashOf[rows'[b].content] = HashOf[rows[b].content] \/ b \in unchecked')
      BY <3>1 DEF NothingNew, HashesStay, StoredInv
    <3> QED
      BY <2>1, <3>1, <3>2 DEF TextInv, Matches, HashesStay
  <2> QED
    BY <1>1, <2>1, <2>2, <2>3 DEF TextInv, Looking, Modelled
<1>2. CASE at[j] \notin Looking
  <2>1. CASE at[j] \in Modelled \cup {"drop docs", "drop chunks", "write", "wait", "mark"}
    <3>0. PICK c : c = call[j].content
      OBVIOUS
    <3>1. PICK a \in Articles : a = call[j].article
      BY <2>1 DEF ShapeInv, ArgsInv, Modelled, Ends
    <3>2. (Keeps(a, c) => Keeps(a, c)') /\ (~Coming(a) => ~Coming(a)')
      BY KeptTexts DEF HashesStay
    <3>3. Keeps(call[j].article, call[j].content) => Keeps(call[j].article, call[j].content)'
      BY <3>0, <3>1, <3>2 DEF Keeps, HashIs, Stored, Coming, Untold
    <3>4. ~Coming(call[j].article) => ~Coming(call[j].article)'
      BY <3>1, <3>2 DEF Coming, Untold
    <3> QED
      BY <1>2, <3>3, <3>4 DEF TextInv, Looking
  <2>2. CASE at[j] \notin Modelled \cup {"drop docs", "drop chunks", "write", "wait", "mark"}
    BY <1>2, <2>2 DEF TextInv, Looking
  <2> QED
    BY <2>1, <2>2
<1> QED
  BY <1>1, <1>2

LEMMA BeginUnique ==
  ASSUME ShapeInv, SettleInv, UniqueInv, NEW i \in Calls,
         NEW from \in {"check", "drop docs"}, NEW args \in Call, NEW b \in Articles,
         args.article = b, Begin(i, from, args),
         from = "check" => Untold(b),
         from = "drop docs" => Stored(b),
         from = "drop docs" /\ args.kind \notin {"update", "delete"} => Keeps(b, args.content)
  PROVE  UniqueInv'
<1>1. /\ at[i] = "idle" /\ at' = [at EXCEPT ![i] = from] /\ call' = [call EXCEPT ![i] = args]
      /\ rows' = rows /\ queue' = queue /\ unchecked' = unchecked
      /\ at \in [Calls -> Stops] /\ call \in [Calls -> Call] /\ queue \in [Calls -> Entry \cup {None}]
  BY DEF Begin, ShapeInv, TypeOK
<1>2. /\ at'[i] = from /\ call'[i] = args
      /\ \A k \in Calls \ {i} : at'[k] = at[k] /\ call'[k] = call[k]
  BY <1>1
<1>3. call[i].article = None
  BY <1>1 DEF SettleInv
<1>4. \A a \in Articles : Coming(a)' => Coming(a)
  <2> SUFFICES ASSUME NEW a \in Articles, Coming(a)' PROVE Coming(a)
    OBVIOUS
  <2>1. Untold(a)' => Untold(a)
    BY <1>2, <1>3, ArticleServiceAssumption DEF Untold
  <2>2. ASSUME NEW k \in Calls, call'[k].article = a, at'[k] \in Looking
        PROVE  Coming(a)
    <3>1. CASE k = i
      BY <1>2, <2>2, <3>1 DEF Coming, Looking
    <3>2. CASE k # i
      BY <1>2, <2>2, <3>2 DEF Coming
    <3> QED
      BY <3>1, <3>2
  <2> QED
    BY <2>1, <2>2 DEF Coming
<1>5. \A a \in Articles : Stored(a)' <=> Stored(a)
  BY <1>1 DEF Stored
<1>6. HashesStay /\ NothingNew
  BY <1>1, <1>4, <1>5 DEF HashesStay, NothingNew
<1>7. StoredInv' /\ UniqueContent'
  BY <1>6, KeptStored DEF UniqueInv
<1>8. EntryInv'
  BY <1>1, <1>6, SameEntries DEF UniqueInv
<1>9. ASSUME NEW j \in Calls \ {i}
      PROVE  TextInv(j)'
  <2>1. ASSUME at[j] \in Looking, NEW k \in Calls, call'[k].article = call[j].article
        PROVE  k = j
    <3>1. call[j].article \in Articles /\ Coming(call[j].article)
      BY <2>1 DEF Coming, ShapeInv, ArgsInv, Looking, Ends
    <3>2. CASE k = i
      <4>1. call[j].article = b
        BY <1>2, <2>1, <3>2
      <4> QED
        BY <3>1, <4>1 DEF UniqueInv, StoredInv, Untold
    <3>3. CASE k # i
      BY <1>2, <2>1, <3>3 DEF UniqueInv, TextInv
    <3> QED
      BY <3>2, <3>3
  <2> QED
    BY <1>2, <1>6, <2>1, OtherTexts DEF UniqueInv
<1>10. TextInv(i)'
  <2>1. CASE from = "check"
    <3>1. \A k \in Calls : call'[k].article = b => k = i
      BY <1>2, <2>1 DEF Untold
    <3>2. at'[i] = "check" /\ call'[i].article = b
      BY <1>2, <2>1
    <3> QED
      BY <3>1, <3>2 DEF TextInv, Modelled
  <2>2. CASE from = "drop docs"
    <3>1. ~Coming(b)
      BY <2>2 DEF UniqueInv, StoredInv
    <3>2. PICK c : c = args.content
      OBVIOUS
    <3>3. ~Coming(b)' /\ (Keeps(b, c) => Keeps(b, c)')
      BY <1>4, <1>6, <3>1, KeptTexts
    <3>4. at'[i] = "drop docs" /\ call'[i].article = b /\ call'[i].content = c /\ call'[i].kind = args.kind
      BY <1>2, <2>2, <3>2
    <3>5. args.kind \notin {"update", "delete"} => Keeps(b, c)
      BY <2>2, <3>2
    <3>6. ~Coming(call[i].article)'
      BY <3>3, <3>4
    <3>7. args.kind \notin {"update", "delete"} => Keeps(call[i].article, call[i].content)'
      BY <3>3, <3>4, <3>5
    <3> QED
      BY <3>4, <3>6, <3>7 DEF TextInv, Looking, Modelled
  <2> QED
    BY <2>1, <2>2
<1> QED
  BY <1>7, <1>8, <1>9, <1>10 DEF UniqueInv

LEMMA ArriveUnique ==
  ASSUME ShapeInv, SettleInv, UniqueInv, NEW i \in Calls, Arrive(i)
  PROVE  UniqueInv'
<1> USE ArticleServiceAssumption
<1>1. queue \in [Calls -> Entry \cup {None}] /\ rows \in [Articles -> Row \cup {None}]
  BY DEF ShapeInv, TypeOK
<1>2. ASSUME NEW a \in Articles, NEW c \in Contents, StartCreate(i, a, c)
      PROVE  UniqueInv'
  <2> DEFINE args == [kind |-> "create", article |-> a, content |-> c, embedded |-> FALSE, other |-> None]
  <2>1. args \in Call /\ args.article = a
    BY <1>2 DEF StartCreate, Begin, Call
  <2>2. Untold(a) /\ Begin(i, "check", args)
    BY <1>2 DEF StartCreate, Untold
  <2> HIDE DEF args
  <2> QED
    BY <2>1, <2>2, BeginUnique
<1>3. ASSUME NEW a \in Articles, NEW c \in Contents \cup {None}, StartUpdate(i, a, c)
      PROVE  UniqueInv'
  <2> DEFINE args == [kind |-> "update", article |-> a,
                      content |-> IF c = None THEN rows[a].content ELSE c,
                      embedded |-> rows[a].embedded, other |-> None]
  <2>1. Begin(i, "drop docs", args) /\ Stored(a)
    BY <1>3 DEF StartUpdate
  <2>2. rows[a] \in Row
    BY <1>1, <2>1 DEF Stored
  <2>3. args \in Call /\ args.article = a /\ args.kind = "update"
    BY <2>1, <2>2 DEF Begin, Call, Row
  <2> HIDE DEF args
  <2> QED
    BY <2>1, <2>3, BeginUnique
<1>4. ASSUME NEW a \in Articles, StartDelete(i, a)
      PROVE  UniqueInv'
  <2> DEFINE args == [kind |-> "delete", article |-> a, content |-> None, embedded |-> FALSE, other |-> None]
  <2>1. Begin(i, "drop docs", args) /\ Stored(a)
    BY <1>4 DEF StartDelete
  <2>2. args \in Call /\ args.article = a /\ args.kind = "delete"
    BY <2>1 DEF Begin, Call
  <2> HIDE DEF args
  <2> QED
    BY <2>1, <2>2, BeginUnique
<1>5. ASSUME NEW j \in Calls, StartMerge(i, j)
      PROVE  UniqueInv'
  <2> DEFINE m == queue[j].matched
             args == [kind |-> "merge", article |-> m, content |-> queue[j].content,
                      embedded |-> rows[m].embedded, other |-> j]
  <2>1. queue[j] \in Entry /\ queue[j] # None
    BY <1>1, <1>5 DEF StartMerge
  <2>2. m \in Articles /\ queue[j].content \in Contents /\ rows[m] \in Row /\ Stored(m)
    BY <1>1, <1>5, <2>1 DEF StartMerge, Stored, Entry
  <2>3. Begin(i, "drop docs", args)
    BY <1>5 DEF StartMerge, Incoming
  <2>4. args \in Call /\ args.article = m /\ args.content = queue[j].content
    BY <2>2, <2>3 DEF Begin, Call, Row
  <2>5. Keeps(m, args.content)
    BY <2>1, <2>4 DEF UniqueInv, EntryInv
  <2>6. PICK b \in Articles : b = m
    BY <2>2
  <2> HIDE DEF args, m
  <2> QED
    BY <2>2, <2>3, <2>4, <2>5, <2>6, BeginUnique
<1>6. ASSUME NEW j \in Calls, Reject(i, j)
      PROVE  UniqueInv'
  <2>1. /\ queue' = [queue EXCEPT ![j].status = "rejected"] /\ queue[j] \in Entry
        /\ rows' = rows /\ call' = call /\ unchecked' = unchecked
        /\ at[i] = "idle" /\ at'[i] = "answered" /\ \A k \in Calls \ {i} : at'[k] = at[k]
    BY <1>1, <1>6 DEF Reject, Goto, ShapeInv, TypeOK
  <2>2. \A k \in Calls : queue'[k] # None =>
          /\ queue[k] # None /\ queue[k].matched \in Articles
          /\ queue'[k].matched = queue[k].matched /\ queue'[k].content = queue[k].content
    <3>1. /\ [queue[j] EXCEPT !.status = "rejected"].matched = queue[j].matched
          /\ [queue[j] EXCEPT !.status = "rejected"].content = queue[j].content
      BY <2>1 DEF Entry
    <3>2. queue[j] # None
      BY <1>6 DEF Reject
    <3>3. queue'[j] = [queue[j] EXCEPT !.status = "rejected"]
      BY <1>1, <2>1
    <3>4. \A k \in Calls : k # j => queue'[k] = queue[k]
      BY <1>1, <2>1
    <3>5. \A k \in Calls : queue[k] # None => queue[k].matched \in Articles
      BY <1>1 DEF Entry
    <3> QED
      BY <3>1, <3>2, <3>3, <3>4, <3>5
  <2>3. HashesStay /\ NothingNew
    BY <2>1 DEF HashesStay, NothingNew, Coming, Untold, Stored, Looking
  <2>4. StoredInv' /\ UniqueContent' /\ EntryInv'
    BY <2>2, <2>3, KeptStored, KeptEntries DEF UniqueInv
  <2>5. ASSUME NEW k \in Calls \ {i}
        PROVE  TextInv(k)'
    BY <2>1, <2>3, OtherTexts DEF UniqueInv, TextInv
  <2>6. TextInv(i)'
    BY <2>1 DEF TextInv, Looking, Modelled
  <2> QED
    BY <2>4, <2>5, <2>6 DEF UniqueInv
<1> QED
  BY <1>2, <1>3, <1>4, <1>5, <1>6 DEF Arrive

\* What is left to show of a step of a call but InsertRow.
LEMMA MoveUnique ==
  ASSUME ShapeInv, UniqueInv, NEW i \in Calls, Proceed(i) \/ Lock(i) \/ Fail(i),
         unchecked \subseteq unchecked',
         at'[i] \in Looking => at[i] \in Looking,
         \A k \in Calls \ {i} : call'[k] = call[k],
         \A a \in Articles : Stored(a)' /\ ~Coming(a) =>
           HashOf[rows'[a].content] = HashOf[rows[a].content] \/ a \in unchecked',
         NothingNew,
         HashesStay => EntryInv' /\ TextInv(i)'
  PROVE  UniqueInv'
<1>1. /\ \A k \in Calls : call'[k].article = call[k].article
      /\ \A k \in Calls \ {i} : at'[k] = at[k]
  BY StepFrame
<1>2. \A a \in Articles : Coming(a)' => Coming(a)
  BY <1>1 DEF Coming, Untold
<1>3. HashesStay
  BY <1>2 DEF HashesStay, NothingNew
<1>4. StoredInv' /\ UniqueContent'
  BY <1>3, KeptStored DEF UniqueInv
<1>5. ASSUME NEW k \in Calls \ {i}
      PROVE  TextInv(k)'
  <2>1. TextInv(k) /\ StoredInv
    BY DEF UniqueInv
  <2>2. at[k] \in Looking => \A j \in Calls : call'[j].article = call[k].article => j = k
    BY <1>1, <2>1 DEF TextInv
  <2>3. at'[k] = at[k] /\ call'[k] = call[k]
    BY <1>1
  <2> QED
    BY <1>3, <2>1, <2>2, <2>3, OtherTexts
<1> QED
  BY <1>3, <1>4, <1>5 DEF UniqueInv

\* The lookup of a create.
LEMMA LookupUnique ==
  ASSUME ShapeInv, UniqueInv, NEW i \in Calls,
         (\E a \in Articles : Find(i, a)) \/ FindNone(i)
  PROVE  UniqueInv'
<1>1. /\ at \in [Calls -> Stops] /\ call \in [Calls -> Call] /\ queue \in [Calls -> Entry \cup {None}]
      /\ rows' = rows /\ queue' = queue /\ unchecked' = unchecked /\ at[i] = "check"
      /\ \A k \in Calls \ {i} : call'[k] = call[k]
  BY DEF ShapeInv, TypeOK, Find, FindNone, Goto
<1>2. \A k \in Calls : call'[k].article = call[k].article /\ call'[k].content = call[k].content
  BY StepFrame DEF Proceed
<1>3. NothingNew /\ \A a \in Articles : Stored(a)' <=> Stored(a)
  BY <1>1 DEF NothingNew, Stored
<1>4. ASSUME HashesStay
      PROVE  EntryInv' /\ TextInv(i)'
  <2>1. EntryInv'
    BY <1>1, <1>4, SameEntries DEF UniqueInv
  <2>2. \A k \in Calls : call'[k].article = call'[i].article => k = i
    <3>1. TextInv(i) /\ at[i] \in Looking
      BY <1>1 DEF UniqueInv, Looking
    <3>2. \A k \in Calls : call[k].article = call[i].article => k = i
      BY <3>1 DEF TextInv
    <3> QED
      BY <1>2, <3>2
  <2>3. PICK c : c = call[i].content
    OBVIOUS
  <2>4. ASSUME NEW a \in Articles, Find(i, a)
        PROVE  TextInv(i)'
    <3>1. at'[i] = "queue" /\ call'[i].other = a /\ Matches(a, c)
      BY <1>1, <2>3, <2>4 DEF Find, Goto, Call
    <3>2. Keeps(a, c)
      BY <3>1 DEF Matches, UniqueInv, StoredInv, Keeps, HashIs
    <3>3. Keeps(a, c)'
      BY <1>4, <3>2, KeptTexts
    <3>4. c = call'[i].content
      BY <1>2, <2>3
    <3>5. Keeps(call[i].other, call[i].content)'
      BY <3>1, <3>3, <3>4
    <3> QED
      BY <2>2, <3>1, <3>5 DEF TextInv, Looking, Modelled
  <2>5. ASSUME FindNone(i)
        PROVE  TextInv(i)'
    <3>1. at'[i] = "insert" /\ \A a \in Articles : ~Matches(a, c)
      BY <1>1, <2>3, <2>5 DEF FindNone, Goto
    <3>2. \A a \in Articles : ~Matches(a, call[i].content)'
      BY <1>1, <1>2, <1>3, <2>3, <3>1 DEF Matches
    <3> QED
      BY <2>2, <3>1, <3>2 DEF TextInv, Looking, Modelled
  <2> QED
    BY <2>1, <2>4, <2>5
<1>5. at[i] \in Looking
  BY <1>1 DEF Looking
<1> QED
  BY <1>1, <1>3, <1>4, <1>5, MoveUnique DEF Proceed

LEMMA QueueUnique ==
  ASSUME ShapeInv, UniqueInv, NEW i \in Calls, QueueDuplicate(i)
  PROVE  UniqueInv'
<1> DEFINE m == call[i].other
           c == call[i].content
           e == [content |-> c, matched |-> m, status |-> "pending"]
<1>1. /\ at \in [Calls -> Stops] /\ queue \in [Calls -> Entry \cup {None}]
      /\ rows' = rows /\ call' = call /\ unchecked' = unchecked
      /\ at[i] = "queue" /\ at'[i] = "answered"
      /\ queue'[i] = e /\ \A k \in Calls : k # i => queue'[k] = queue[k]
  BY DEF ShapeInv, TypeOK, QueueDuplicate, Goto
<1>2. NothingNew
  BY <1>1 DEF NothingNew, Stored
<1>3. TextInv(i)'
  BY <1>1 DEF TextInv, Looking, Modelled
<1>4. ASSUME HashesStay
      PROVE  EntryInv'
  <2>1. PICK n \in Articles : n = m
    BY <1>1 DEF ShapeInv, ArgsInv
  <2>2. PICK d : d = c
    OBVIOUS
  <2>3. Keeps(n, d)
    BY <1>1, <2>1, <2>2 DEF UniqueInv, TextInv
  <2>4. Keeps(n, d)'
    BY <1>4, <2>3, KeptTexts
  <2> SUFFICES ASSUME NEW j \in Calls, queue'[j] # None
               PROVE  Keeps(queue[j].matched, queue[j].content)'
    BY DEF EntryInv
  <2>5. CASE j = i
    <3>1. queue'[j].matched = n /\ queue'[j].content = d
      BY <1>1, <2>1, <2>2, <2>5
    <3> QED
      BY <2>4, <3>1
  <2>6. CASE j # i
    <3>1. queue'[j] = queue[j] /\ queue[j] # None /\ queue[j] \in Entry
      BY <1>1, <2>6
    <3>2. PICK x \in Articles : x = queue[j].matched
      BY <3>1 DEF Entry
    <3>3. PICK y : y = queue[j].content
      OBVIOUS
    <3>4. Keeps(x, y)
      BY <3>1, <3>2, <3>3 DEF UniqueInv, EntryInv
    <3>5. Keeps(x, y)'
      BY <1>4, <3>4, KeptTexts
    <3> QED
      BY <3>1, <3>2, <3>3, <3>5
  <2> QED
    BY <2>5, <2>6
<1> QED
  BY <1>1, <1>2, <1>3, <1>4, MoveUnique DEF Proceed, Looking

\* A row is stored without another look: whoever looked before and stands
\* before its own insertion is marked if it has the same hash.
LEMMA InsertUnique ==
  ASSUME ShapeInv, UniqueInv, NEW i \in Calls, InsertRow(i)
  PROVE  UniqueInv'
<1>1. PICK b \in Articles, c \in Contents : b = call[i].article /\ c = call[i].content
  BY DEF InsertRow, Goto, ShapeInv, ArgsInv, Ends, Embedding
<1>2. /\ at[i] = "insert" /\ at'[i] = "wait" /\ queue' = queue /\ call' = call
      /\ unchecked' = unchecked \cup Overtaken(i)
      /\ rows'[b] = [content |-> c, embedded |-> FALSE]
      /\ \A a \in Articles : a # b => rows'[a] = rows[a]
      /\ \A k \in Calls \ {i} : at'[k] = at[k]
      /\ queue \in [Calls -> Entry \cup {None}]
  BY <1>1 DEF ShapeInv, TypeOK, InsertRow, Goto
<1>3. rows'[b].content = c /\ \A a \in Articles : a # b => (Stored(a)' <=> Stored(a))
  BY <1>2 DEF Stored
<1>4. \A a \in Articles : Coming(a)' => Coming(a)
  BY <1>2 DEF Coming, Untold, Looking
<1>5. Coming(b) /\ ~Coming(b)'
  <2>1. \A k \in Calls : call[k].article = b => k = i
    BY <1>1, <1>2 DEF UniqueInv, TextInv, Looking
  <2> QED
    BY <1>1, <1>2, <2>1 DEF Coming, Untold, Looking
<1>6. HashesStay
  BY <1>2, <1>3, <1>4, <1>5 DEF HashesStay
<1>7. StoredInv'
  BY <1>3, <1>4, <1>5 DEF UniqueInv, StoredInv
<1>8. EntryInv'
  BY <1>2, <1>6, SameEntries DEF UniqueInv
<1>9. b \in unchecked \/ \A a \in Articles : Matches(a, c) => a \in unchecked
  BY <1>1, <1>2 DEF UniqueInv, TextInv
<1>10. UniqueContent'
  <2> SUFFICES ASSUME NEW x \in Articles, NEW y \in Articles, Stored(x)', Stored(y)', x # y,
                      HashOf[rows'[x].content] = HashOf[rows'[y].content]
               PROVE  x \in unchecked' \/ y \in unchecked'
    BY DEF UniqueContent
  <2>1. CASE x # b /\ y # b
    BY <1>2, <1>3, <2>1 DEF UniqueInv, UniqueContent
  <2>2. CASE x = b
    BY <1>2, <1>3, <1>9, <2>2 DEF Matches
  <2>3. CASE y = b
    BY <1>2, <1>3, <1>9, <2>3 DEF Matches
  <2> QED
    BY <2>1, <2>2, <2>3
<1>11. ASSUME NEW j \in Calls \ {i}
       PROVE  TextInv(j)'
  <2>1. ASSUME at[j] = "insert"
        PROVE  \/ call[j].article \in unchecked'
               \/ \A a \in Articles : Matches(a, call[j].content)' => a \in unchecked'
    <3>1. PICK d : d = call[j].content
      OBVIOUS
    <3>2. CASE HashOf[d] = HashOf[c]
      BY <1>1, <1>2, <2>1, <3>1, <3>2 DEF Overtaken
    <3>3. CASE HashOf[d] # HashOf[c]
      <4>1. \A a \in Articles : Matches(a, d)' => Matches(a, d)
        BY <1>2, <1>3, <3>3 DEF Matches
      <4>2. call[j].article \in unchecked \/ \A a \in Articles : Matches(a, d) => a \in unchecked
        BY <2>1, <3>1 DEF UniqueInv, TextInv
      <4>3. call[j].article \in unchecked' \/ \A a \in Articles : Matches(a, d)' => a \in unchecked'
        BY <1>2, <4>1, <4>2
      <4>4. d = call'[j].content
        BY <1>2, <3>1
      <4> QED
        BY <3>1, <4>3, <4>4 DEF Matches, Stored
    <3> QED
      BY <3>2, <3>3
  <2> QED
    BY <1>2, <1>6, <2>1, OtherTexts DEF UniqueInv, TextInv
<1>12. TextInv(i)'
  <2>1. Keeps(b, c)'
    BY <1>3, <1>5 DEF Keeps, HashIs
  <2>2. Keeps(call[i].article, call[i].content)'
    BY <1>1, <1>2, <2>1
  <2> QED
    BY <1>2, <2>2 DEF TextInv, Looking, Modelled
<1> QED
  BY <1>7, <1>8, <1>10, <1>11, <1>12 DEF UniqueInv

\* Every other step of a call: an article keeps its hash, is removed, or is
\* marked because an update rewrites it.
LEMMA ChangeUnique ==
  ASSUME ShapeInv, UniqueInv, NEW i \in Calls,
         \/ DropDocs(i) \/ DropChunks(i) \/ Write(i) \/ Remove(i) \/ Lock(i) \/ ResetDocs(i)
         \/ ResetChunks(i) \/ InsertDoc(i) \/ InsertChunk(i) \/ Extract(i) \/ Mark(i) \/ Resolve(i)
         \/ Fail(i)
  PROVE  UniqueInv'
<1>1. /\ at \in [Calls -> Stops] /\ call \in [Calls -> Call] /\ rows \in [Articles -> Row \cup {None}]
      /\ queue \in [Calls -> Entry \cup {None}]
  BY DEF ShapeInv, TypeOK
<1>2. call[i].article \in Articles
  BY StepFrame DEF Proceed
<1>3. call' = call
  BY DEF DropDocs, DropChunks, ClearDocs, ClearChunks, Write, Remove, Lock, ResetDocs, ResetChunks,
         InsertDoc, InsertChunk, Extract, Mark, Resolve, Fail
<1>4. PICK b \in Articles : b = call[i].article
  BY <1>2
<1>5. PICK c : c = call[i].content
  OBVIOUS
<1>6. TextInv(i)
  BY DEF UniqueInv
<1>7. unchecked' = unchecked \/ (Write(i) /\ unchecked' = unchecked \cup Rewritten(i))
  BY DEF DropDocs, DropChunks, ClearDocs, ClearChunks, Write, Remove, Lock, ResetDocs, ResetChunks,
         InsertDoc, InsertChunk, Extract, Mark, Resolve, Fail
<1>8. unchecked \subseteq unchecked'
  BY <1>7
<1>9. CASE Write(i) \/ Mark(i)
  <2>1. \/ rows' = rows /\ ~Stored(b)
        \/ Stored(b) /\ \E e : rows' = [rows EXCEPT ![b] = [content |-> c, embedded |-> e]]
    BY <1>4, <1>5, <1>9 DEF Write, Mark, WriteRow
  <2>2. /\ \A a \in Articles \ {b} : rows'[a] = rows[a]
        /\ Stored(b)' => Stored(b) /\ rows'[b].content = c
    BY <1>1, <2>1 DEF Stored
  <2>3. NothingNew
    BY <2>2 DEF NothingNew, Stored
  <2>4. Stored(b)' => HashOf[c] = HashOf[rows[b].content] \/ b \in unchecked'
    <3>1. CASE Mark(i)
      BY <1>4, <1>5, <1>6, <1>8, <2>2, <3>1 DEF Mark, Goto, TextInv, Keeps, HashIs
    <3>2. CASE Write(i)
      <4>1. call[i].kind = "update" /\ Stored(b) /\ HashOf[rows[b].content] # HashOf[c] => b \in unchecked'
        BY <1>4, <1>5, <3>2 DEF Write, Rewritten
      <4>2. at[i] = "write"
        BY <3>2 DEF Write, Goto
      <4>3. call[i].kind # "update" => Keeps(b, c)
        BY <1>4, <1>5, <1>6, <4>2 DEF TextInv
      <4> QED
        BY <1>8, <2>2, <4>1, <4>3 DEF Keeps, HashIs
    <3> QED
      BY <1>9, <3>1, <3>2
  <2>5. \A a \in Articles : Stored(a)' =>
          HashOf[rows'[a].content] = HashOf[rows[a].content] \/ a \in unchecked'
    BY <2>2, <2>4
  <2>6. at'[i] \in {"wait", "resolve", "answered"} /\ queue' = queue /\ ~Coming(b)
    BY <1>1, <1>4, <1>6, <1>9 DEF Write, Mark, Goto, TextInv, Keeps
  <2>7. ASSUME HashesStay
        PROVE  EntryInv' /\ TextInv(i)'
    <3>1. EntryInv'
      BY <2>6, <2>7, SameEntries DEF UniqueInv
    <3>2. ~Coming(b)' /\ HashIs(b, c)'
      BY <2>2, <2>6, <2>7 DEF HashesStay, HashIs
    <3>3. Keeps(b, c)'
      BY <3>2 DEF Keeps
    <3>4. Keeps(call[i].article, call[i].content)'
      BY <1>3, <1>4, <1>5, <3>3
    <3>5. TextInv(i)'
      BY <2>6, <3>4 DEF TextInv, Looking, Modelled
    <3> QED
      BY <3>1, <3>5
  <2>8. at'[i] \notin Looking
    BY <2>6 DEF Looking
  <2> QED
    BY <1>3, <1>8, <1>9, <2>3, <2>5, <2>7, <2>8, MoveUnique DEF Proceed
<1>10. CASE ~Write(i) /\ ~Mark(i)
  <2>1. rows' = rows \/ rows' = [rows EXCEPT ![b] = None]
    BY <1>4, <1>10
    DEF DropDocs, DropChunks, ClearDocs, ClearChunks, Remove, Lock, ResetDocs, ResetChunks, InsertDoc,
        InsertChunk, Extract, Resolve, Fail
  <2>2. \A a \in Articles : Stored(a)' => Stored(a) /\ rows'[a] = rows[a]
    BY <1>1, <2>1 DEF Stored
  <2>3. NothingNew
    BY <2>2 DEF NothingNew
  <2>4. \A j \in Calls : queue'[j] # None =>
          /\ queue[j] # None /\ queue[j].matched \in Articles
          /\ queue'[j].matched = queue[j].matched /\ queue'[j].content = queue[j].content
    <3>1. CASE queue' = queue
      BY <1>1, <3>1 DEF Entry
    <3>2. CASE Resolve(i)
      <4> DEFINE o == call[i].other
                 e == [queue[o] EXCEPT !.status = "merged"]
      <4>1. o \in Calls /\ queue[o] \in Entry
        BY <3>2 DEF Resolve, Goto, ShapeInv, ArgsInv
      <4>2. e.matched = queue[o].matched /\ e.content = queue[o].content
        BY <4>1 DEF Entry
      <4>3. queue'[o] = e /\ \A k \in Calls : k # o => queue'[k] = queue[k]
        BY <1>1, <3>2, <4>1 DEF Resolve
      <4>4. \A k \in Calls : queue[k] # None => queue[k].matched \in Articles
        BY <1>1 DEF Entry
      <4>5. queue[o] # None
        BY <4>1, NoneAssumption
      <4> QED
        BY <4>1, <4>2, <4>3, <4>4, <4>5
    <3> QED
      BY <1>10, <3>1, <3>2
      DEF DropDocs, DropChunks, ClearDocs, ClearChunks, Remove, Lock, ResetDocs, ResetChunks,
          InsertDoc, InsertChunk, Extract, Fail
  <2>5. \/ at'[i] \in {"answered", "failed", "remove"}
        \/ at[i] = "drop docs" /\ at'[i] = "drop chunks"
        \/ at[i] = "drop chunks" /\ call[i].kind # "delete" /\ at'[i] = "write"
        \/ at[i] \in Modelled \cup {"wait"} /\ at'[i] \in Modelled \cup {"mark"}
    BY <1>1, <1>10
    DEF DropDocs, DropChunks, Remove, Lock, ResetDocs, ResetChunks, InsertDoc, InsertChunk, Extract,
        Resolve, Fail, Goto, Modelled
  <2>6. ASSUME HashesStay
        PROVE  EntryInv' /\ TextInv(i)'
    <3>1. EntryInv'
      BY <2>4, <2>6, KeptEntries DEF UniqueInv
    <3>2. (Keeps(b, c) => Keeps(b, c)') /\ (~Coming(b) => ~Coming(b)')
      BY <2>6, KeptTexts DEF HashesStay
    <3>3. call'[i].article = b /\ call'[i].content = c /\ call'[i].kind = call[i].kind
      BY <1>3, <1>4, <1>5
    <3>4. Keeps(b, c) => Keeps(call[i].article, call[i].content)'
      BY <3>2, <3>3
    <3>5. ~Coming(b) => ~Coming(call[i].article)'
      BY <3>2, <3>3
    <3>6. CASE at'[i] \in {"answered", "failed", "remove"}
      <4>1. /\ at'[i] \notin Looking /\ at'[i] \notin {"queue", "insert", "write"}
            /\ at'[i] \notin {"drop docs", "drop chunks", "write"}
            /\ at'[i] \notin Modelled \cup {"wait", "mark"}
        BY <3>6 DEF Looking, Modelled
      <4> QED
        BY <3>1, <4>1 DEF TextInv
    <3>7. CASE at[i] \in {"drop docs", "drop chunks"} /\ at'[i] \in {"drop chunks", "write"}
               /\ (at'[i] = "write" => call[i].kind # "delete")
      <4>1. ~Coming(b) /\ (call[i].kind \notin {"update", "delete"} => Keeps(b, c))
        BY <1>4, <1>5, <1>6, <3>7 DEF TextInv
      <4>2. ~Coming(call[i].article)'
        BY <3>5, <4>1
      <4>3. call'[i].kind \notin {"update", "delete"} => Keeps(call[i].article, call[i].content)'
        BY <3>3, <3>4, <4>1
      <4>4. at'[i] = "write" => call'[i].kind # "delete"
        BY <3>3, <3>7
      <4>5. /\ at'[i] \notin Looking /\ at'[i] \notin {"queue", "insert"}
            /\ at'[i] \notin Modelled \cup {"wait", "mark"}
        BY <3>7 DEF Looking, Modelled
      <4> QED
        BY <3>1, <4>2, <4>3, <4>4, <4>5 DEF TextInv
    <3>8. CASE at[i] \in Modelled \cup {"wait"} /\ at'[i] \in Modelled \cup {"mark"}
      <4>1. Keeps(b, c)
        BY <1>4, <1>5, <1>6, <3>8 DEF TextInv
      <4>2. Keeps(call[i].article, call[i].content)'
        BY <3>4, <4>1
      <4>3. /\ at'[i] \notin Looking /\ at'[i] \notin {"queue", "insert", "write"}
            /\ at'[i] \notin {"drop docs", "drop chunks", "write"}
        BY <3>8 DEF Looking, Modelled
      <4> QED
        BY <3>1, <4>2, <4>3 DEF TextInv
    <3> QED
      BY <2>5, <3>1, <3>6, <3>7, <3>8
  <2>7. at'[i] \notin Looking
    BY <2>5 DEF Looking, Modelled
  <2> QED
    BY <1>3, <1>8, <2>2, <2>3, <2>6, <2>7, MoveUnique DEF Proceed
<1> QED
  BY <1>9, <1>10

LEMMA UniqueStep ==
  ASSUME ShapeInv, SettleInv, UniqueInv, [Next]_vars
  PROVE  UniqueInv'
<1>1. ASSUME rows' = rows, queue' = queue, call' = call, unchecked' = unchecked,
             \A i \in Calls : at'[i] = at[i] \/ at'[i] = "lost"
      PROVE  UniqueInv'
  <2>1. HashesStay /\ NothingNew
    BY <1>1 DEF HashesStay, NothingNew, Coming, Untold, Stored, Looking
  <2>2. EntryInv'
    BY <1>1, <2>1, SameEntries DEF UniqueInv
  <2>3. StoredInv' /\ UniqueContent' /\ EntryInv'
    BY <2>1, <2>2, KeptStored DEF UniqueInv
  <2>4. ASSUME NEW i \in Calls
        PROVE  TextInv(i)'
    <3>1. CASE at'[i] = at[i]
      BY <1>1, <2>1, <3>1, OtherTexts DEF UniqueInv, TextInv
    <3>2. CASE at'[i] = "lost"
      BY <3>2 DEF TextInv, Looking, Modelled
    <3> QED
      BY <1>1, <3>1, <3>2
  <2> QED
    BY <2>3, <2>4 DEF UniqueInv
<1>2. CASE UNCHANGED vars
  BY <1>1, <1>2 DEF vars
<1>3. CASE Crash
  BY <1>1, <1>3 DEF Crash
<1> QED
  BY <1>2, <1>3, ArriveUnique, LookupUnique, QueueUnique, InsertUnique, ChangeUnique DEF Next, Proceed

(* However many calls overlap, fail, are retried or lost in a crash, and     *)
(* whatever they do: of two articles with the same hash, one was created     *)
(* while another create of that text stood between its lookup and its        *)
(* insertion, or was given another text by an update.                        *)
THEOREM NoTextTwice == Spec => []UniqueContent
<1>1. Init => SettleInv /\ UniqueInv
  <2> SUFFICES ASSUME Init PROVE SettleInv /\ UniqueInv
    OBVIOUS
  <2>1. \A a \in Articles : ~Stored(a)
    BY DEF Init, Stored
  <2>2. \A i \in Calls : TextInv(i)
    BY DEF Init, TextInv, Looking, Modelled
  <2>3. StoredInv /\ EntryInv /\ UniqueContent
    BY <2>1 DEF Init, StoredInv, EntryInv, UniqueContent
  <2> QED
    BY <2>2, <2>3, InitSettle DEF UniqueInv
<1>2. IInv /\ SettleInv /\ UniqueInv /\ [Next]_vars => SettleInv' /\ UniqueInv'
  BY SettleStep, UniqueStep DEF IInv
<1>3. UniqueInv => UniqueContent
  BY DEF UniqueInv
<1> QED
  BY <1>1, <1>2, <1>3, Invariance, PTL DEF Spec

-----------------------------------------------------------------------------
(* What makes calls end, but for the fairness that lets each go on.          *)
\* The conditions of the next step of a call.
CanMove(i) == at[i] \in Stops \ (Ends \cup {"wait"}) \/ (at[i] = "wait" /\ model = None)

(* While a call is in flight, some call in flight can take its next step.    *)
NoCallsBlockEachOther == InFlight # {} => \E i \in InFlight : CanMove(i)

\* How far a stop is from the end, but for the chunks still to be inserted.
Distance == [stop \in Stops |->
  CASE stop = "idle"                      -> 12
    [] stop \in {"check", "drop docs"}    -> 11
    [] stop \in {"insert", "drop chunks"} -> 10
    [] stop = "write"                     -> 9
    [] stop = "wait"                      -> 8
    [] stop = "reset docs"                -> 7
    [] stop = "reset chunks"              -> 6
    [] stop = "doc"                       -> 5
    [] stop = "chunk"                     -> 4
    [] stop = "extract"                   -> 3
    [] stop = "mark"                      -> 2
    [] stop \in {"queue", "remove", "resolve"}      -> 1
    [] stop \in {"answered", "failed", "lost"}      -> 0]

StepsLeft(i) == Distance[at[i]] + (PieceCount - piece[i])

(* A call never goes round in circles: each step of its own takes it closer  *)
(* to its end, and nothing that others do takes it further away.             *)
CallsDrawToAnEnd ==
  [][/\ \A i \in Calls : StepsLeft(i)' <= StepsLeft(i)
     /\ \A i \in Calls : Proceed(i) \/ Lock(i) \/ Fail(i) => StepsLeft(i)' < StepsLeft(i)]_vars

(* The model is never waited for in vain: when it is taken, its holder is    *)
(* past the mutex of embed_article and needs nobody else to go on, whoever   *)
(* failed, was dropped or queued up before.                                  *)
THEOREM NobodyBlocks == Spec => []NoCallsBlockEachOther
<1>1. ASSUME TypeOK, MutexInv, NEW i \in InFlight
      PROVE  \E j \in InFlight : CanMove(j)
  <2>1. at[i] \in Stops \ Ends
    BY <1>1 DEF TypeOK, InFlight
  <2>2. CASE at[i] = "wait" /\ model # None
    <3>1. model \in Calls /\ at[model] \in Modelled
      BY <1>1, <2>2 DEF TypeOK, MutexInv
    <3> QED
      BY <3>1 DEF CanMove, InFlight, Modelled, Ends, Stops
  <2>3. CASE ~(at[i] = "wait" /\ model # None)
    BY <2>1, <2>3 DEF CanMove
  <2> QED
    BY <2>2, <2>3
<1>2. IInv => NoCallsBlockEachOther
  BY <1>1 DEF IInv, ShapeInv, NoCallsBlockEachOther
<1> QED
  BY <1>2, Invariance, PTL

LEMMA NextIsCloser ==
  /\ Distance["queue"] < Distance["check"] /\ Distance["insert"] < Distance["check"]
  /\ Distance["answered"] < Distance["queue"] /\ Distance["wait"] < Distance["insert"]
  /\ Distance["drop chunks"] < Distance["drop docs"] /\ Distance["remove"] < Distance["drop chunks"]
  /\ Distance["write"] < Distance["drop chunks"] /\ Distance["wait"] < Distance["write"]
  /\ Distance["answered"] < Distance["remove"] /\ Distance["reset docs"] < Distance["wait"]
  /\ Distance["reset chunks"] < Distance["reset docs"] /\ Distance["doc"] < Distance["reset chunks"]
  /\ Distance["chunk"] < Distance["doc"] /\ Distance["extract"] < Distance["chunk"]
  /\ Distance["mark"] < Distance["extract"] /\ Distance["resolve"] < Distance["mark"]
  /\ Distance["answered"] < Distance["mark"] /\ Distance["answered"] < Distance["resolve"]
  /\ Distance["check"] < Distance["idle"] /\ Distance["drop docs"] < Distance["idle"]
  /\ Distance["answered"] < Distance["idle"] /\ Distance["failed"] < Distance["check"]
  /\ Distance["failed"] < Distance["queue"] /\ Distance["failed"] < Distance["insert"]
  /\ Distance["failed"] < Distance["write"] /\ Distance["failed"] < Distance["reset docs"]
  /\ Distance["failed"] < Distance["doc"] /\ Distance["failed"] < Distance["chunk"]
  /\ Distance["failed"] < Distance["mark"] /\ Distance["failed"] < Distance["remove"]
  /\ Distance["failed"] < Distance["resolve"]
  BY DEF Distance, Stops, Ends, Modelled

LEMMA DistanceIsNumber == Distance \in [Stops -> Nat]
  BY DEF Distance, Stops, Ends, Modelled

LEMMA LostIsClosest == \A stop \in Stops : "lost" \in Stops /\ Distance["lost"] <= Distance[stop]
<1> SUFFICES ASSUME NEW stop \in Stops PROVE Distance["lost"] <= Distance[stop]
  BY DEF Stops, Ends
<1>1. Distance["lost"] = 0
  BY DEF Distance, Stops, Ends
<1>2. PICK d \in Nat : d = Distance[stop]
  BY DistanceIsNumber
<1> QED
  BY <1>1, <1>2

\* What a step of a call from one stop to the next may be.
Forward(from, to) ==
  \/ from = "check" /\ to \in {"queue", "insert"}
  \/ from = "queue" /\ to = "answered"
  \/ from = "insert" /\ to = "wait"
  \/ from = "drop docs" /\ to = "drop chunks"
  \/ from = "drop chunks" /\ to \in {"remove", "write"}
  \/ from = "write" /\ to = "wait"
  \/ from = "remove" /\ to = "answered"
  \/ from = "wait" /\ to = "reset docs"
  \/ from = "reset docs" /\ to = "reset chunks"
  \/ from = "reset chunks" /\ to = "doc"
  \/ from = "doc" /\ to = "chunk"
  \/ from = "chunk" /\ to = "extract"
  \/ from = "extract" /\ to = "mark"
  \/ from = "mark" /\ to \in {"resolve", "answered"}
  \/ from = "resolve" /\ to = "answered"
  \/ from \in Fallible /\ to = "failed"
  \/ from = "idle" /\ to \in {"check", "drop docs", "answered"}

LEMMA ForwardIsCloser ==
  ASSUME NEW from, NEW to, Forward(from, to)
  PROVE  Distance[to] < Distance[from] /\ to \in Stops
<1>1. to \in Stops
  BY DEF Forward, Stops, Ends, Modelled
<1>2. Distance[to] < Distance[from]
  <2>1. CASE from \in Fallible /\ to = "failed"
    BY <2>1, NextIsCloser, Zenon DEF Fallible
  <2>2. CASE ~(from \in Fallible /\ to = "failed")
    BY <2>2, NextIsCloser, Zenon DEF Forward
  <2> QED
    BY <2>1, <2>2
<1> QED
  BY <1>1, <1>2

LEMMA PieceIsNumber == TypeOK => \A i \in Calls : piece[i] \in Nat
<1>1. TypeOK => piece \in [Calls -> 0..PieceCount]
  BY DEF TypeOK
<1> QED
  BY <1>1, ArticleServiceAssumption

LEMMA StopIsStop == TypeOK => \A i \in Calls : at[i] \in Stops
  BY DEF TypeOK

\* The arithmetic of it, with the chunk counter as a number.
LEMMA FewerSteps ==
  ASSUME TypeOK, NEW i \in Calls, NEW p \in Nat, p = piece'[i], at'[i] \in Stops
  PROVE  /\ (Distance[at'[i]] < Distance[at[i]] /\ p = piece[i]) => StepsLeft(i)' < StepsLeft(i)
         /\ (Distance[at'[i]] <= Distance[at[i]] /\ p = piece[i]) => StepsLeft(i)' <= StepsLeft(i)
         /\ (Distance[at'[i]] <= Distance[at[i]] /\ p = piece[i] + 1) => StepsLeft(i)' < StepsLeft(i)
<1>1. PICK q \in Nat : q = piece[i]
  BY PieceIsNumber
<1>2. PICK n \in Nat : n = PieceCount
  BY ArticleServiceAssumption
<1>3. PICK x \in Nat, y \in Nat : x = Distance[at'[i]] /\ y = Distance[at[i]]
  BY DistanceIsNumber, StopIsStop
<1>4. StepsLeft(i)' = x + (n - p)
  BY <1>2, <1>3 DEF StepsLeft
<1>5. StepsLeft(i) = y + (n - q)
  BY <1>1, <1>2, <1>3 DEF StepsLeft
<1> QED
  BY <1>1, <1>3, <1>4, <1>5

LEMMA StepsAreNumber == TypeOK => \A i \in Calls : StepsLeft(i) \in Int
<1> SUFFICES ASSUME TypeOK, NEW i \in Calls PROVE StepsLeft(i) \in Int
  OBVIOUS
<1>1. Distance[at[i]] \in Nat /\ piece[i] \in Nat /\ PieceCount \in Nat
  BY DistanceIsNumber, StopIsStop, PieceIsNumber, ArticleServiceAssumption
<1> QED
  BY <1>1 DEF StepsLeft

\* A call that keeps its stop and its counter.
LEMMA SameSteps ==
  ASSUME NEW i \in Calls, at'[i] = at[i], piece'[i] = piece[i]
  PROVE  StepsLeft(i)' = StepsLeft(i)
  BY DEF StepsLeft

\* One call moves; the others stay where they are.
LEMMA OwnSteps ==
  ASSUME TypeOK, NEW i \in Calls, Proceed(i) \/ Lock(i) \/ Fail(i)
  PROVE  /\ StepsLeft(i)' < StepsLeft(i)
         /\ \A j \in Calls \ {i} : StepsLeft(j)' = StepsLeft(j)
<1> USE DEF Goto
<1>1. piece[i] \in Nat
  BY PieceIsNumber
<1>2. CASE InsertChunk(i)
  <2>1. /\ piece' = [piece EXCEPT ![i] = @ + 1]
        /\ at[i] = "chunk" /\ \E to \in {"chunk", "extract"} : at' = [at EXCEPT ![i] = to]
    BY <1>2 DEF InsertChunk
  <2>2. piece'[i] = piece[i] + 1 /\ at'[i] \in {"chunk", "extract"}
    BY <2>1 DEF TypeOK
  <2>3. Distance[at'[i]] <= Distance[at[i]] /\ at'[i] \in Stops
    <3>1. at[i] \in Stops
      BY StopIsStop
    <3>2. at'[i] = at[i] \/ Forward(at[i], at'[i])
      BY <2>1, <2>2 DEF Forward
    <3>3. at'[i] \in Stops
      BY <3>1, <3>2, ForwardIsCloser
    <3>4. Distance[at'[i]] = Distance[at[i]] \/ Distance[at'[i]] < Distance[at[i]]
      BY <3>2, ForwardIsCloser
    <3>5. Distance[at'[i]] \in Nat /\ Distance[at[i]] \in Nat
      BY <3>1, <3>3, DistanceIsNumber
    <3> QED
      BY <3>3, <3>4, <3>5
  <2>4. \A j \in Calls \ {i} : at'[j] = at[j] /\ piece'[j] = piece[j]
    BY <2>1 DEF TypeOK
  <2> QED
    BY <1>1, <2>2, <2>3, <2>4, FewerSteps, SameSteps
<1>3. ASSUME NEW from \in Stops, NEW to \in Stops, Goto(i, from, to), UNCHANGED piece,
             Forward(from, to)
      PROVE  /\ StepsLeft(i)' < StepsLeft(i)
             /\ \A j \in Calls \ {i} : StepsLeft(j)' = StepsLeft(j)
  <2>1. at[i] = from /\ at'[i] = to /\ \A j \in Calls \ {i} : at'[j] = at[j]
    BY <1>3 DEF TypeOK
  <2>2. Distance[at'[i]] < Distance[at[i]]
    BY <1>3, <2>1, ForwardIsCloser
  <2> QED
    BY <1>1, <1>3, <2>1, <2>2, FewerSteps, SameSteps
<1> USE DEF Stops, Ends, Modelled
<1>4. CASE (\E a \in Articles : Find(i, a)) \/ FindNone(i) \/ QueueDuplicate(i) \/ InsertRow(i)
  BY <1>3, <1>4 DEF Forward, Find, FindNone, QueueDuplicate, InsertRow
<1>5. CASE DropDocs(i) \/ DropChunks(i) \/ Write(i) \/ Remove(i)
  BY <1>3, <1>5 DEF Forward, DropDocs, DropChunks, ClearDocs, ClearChunks, Write, Remove
<1>6. CASE Lock(i) \/ ResetDocs(i) \/ ResetChunks(i) \/ InsertDoc(i)
  BY <1>3, <1>6 DEF Forward, Lock, ResetDocs, ResetChunks, ClearDocs, ClearChunks, InsertDoc
<1>7. CASE Extract(i) \/ Mark(i) \/ Resolve(i) \/ Fail(i)
  BY <1>3, <1>7 DEF Forward, Extract, Mark, Resolve, Fail, Fallible
<1> QED
  BY <1>2, <1>4, <1>5, <1>6, <1>7 DEF Proceed

\* A call that arrives has its whole way before it, and a crash ends all ways.
LEMMA OutsideSteps ==
  ASSUME TypeOK, (\E i \in Calls : Arrive(i)) \/ Crash \/ UNCHANGED vars
  PROVE  \A j \in Calls : StepsLeft(j)' <= StepsLeft(j)
<1> SUFFICES ASSUME NEW j \in Calls PROVE StepsLeft(j)' <= StepsLeft(j)
  OBVIOUS
<1>1. piece' = piece /\ piece[j] \in Nat
  <2>1. piece' = piece
    <3>1. ASSUME NEW i, NEW from, NEW args, Begin(i, from, args) PROVE piece' = piece
      BY <3>1 DEF Begin
    <3>2. ASSUME NEW i \in Calls, Arrive(i) PROVE piece' = piece
      <4>1. CASE \E k \in Calls : Reject(i, k)
        BY <4>1 DEF Reject
      <4>2. CASE ~\E k \in Calls : Reject(i, k)
        BY <3>1, <3>2, <4>2, Zenon DEF Arrive, StartCreate, StartUpdate, StartDelete, StartMerge
      <4> QED
        BY <4>1, <4>2
    <3> QED
      BY <3>2 DEF Crash, vars
  <2> QED
    BY <2>1, PieceIsNumber
<1>2. \/ at'[j] = at[j] \/ at'[j] = "lost"
      \/ at[j] = "idle" /\ at'[j] \in {"check", "drop docs", "answered"}
  <2>0. at \in [Calls -> Stops]
    BY DEF TypeOK
  <2>1. ASSUME NEW i \in Calls, Arrive(i)
        PROVE  \E to \in {"check", "drop docs", "answered"} : Goto(i, "idle", to)
    BY <2>1 DEF Arrive, StartCreate, StartUpdate, StartDelete, StartMerge, Reject, Begin, Goto
  <2>2. ASSUME NEW i \in Calls, NEW to, Goto(i, "idle", to)
        PROVE  at'[j] = at[j] \/ (at[j] = "idle" /\ at'[j] = to)
    BY <2>0, <2>2 DEF Goto
  <2>3. CASE Crash
    BY <2>3 DEF Crash
  <2>4. CASE UNCHANGED vars
    BY <2>4 DEF vars
  <2> QED
    BY <2>1, <2>2, <2>3, <2>4
<1>3. Distance[at'[j]] <= Distance[at[j]] /\ at'[j] \in Stops
  <2>1. at[j] \in Stops /\ Distance[at[j]] \in Nat
    BY StopIsStop, DistanceIsNumber
  <2>2. at'[j] = at[j] \/ at'[j] = "lost" \/ Forward(at[j], at'[j])
    BY <1>2 DEF Forward
  <2>3. CASE at'[j] = at[j]
    BY <2>1, <2>3
  <2>4. CASE at'[j] = "lost"
    BY <2>1, <2>4, LostIsClosest
  <2>5. CASE Forward(at[j], at'[j])
    <3>1. Distance[at'[j]] < Distance[at[j]] /\ at'[j] \in Stops
      BY <2>5, ForwardIsCloser
    <3>2. Distance[at'[j]] \in Nat
      BY <3>1, DistanceIsNumber
    <3> QED
      BY <2>1, <3>1, <3>2
  <2> QED
    BY <2>2, <2>3, <2>4, <2>5
<1> QED
  BY <1>1, <1>3, FewerSteps

(* Whatever interleaves, fails or crashes, every step of a call is one of    *)
(* finitely many; with NobodyBlocks: calls that may go on come to an end.    *)
THEOREM CallsComeCloserToTheirEnd == Spec => CallsDrawToAnEnd
<1> DEFINE Numbers == \A i \in Calls : StepsLeft(i) \in Int
           Shorter == /\ \A i \in Calls : StepsLeft(i)' <= StepsLeft(i)
                      /\ \A i \in Calls : Proceed(i) \/ Lock(i) \/ Fail(i) =>
                           StepsLeft(i)' < StepsLeft(i)
<1>1. ASSUME TypeOK, Numbers, Numbers', [Next]_vars PROVE Shorter
  <2>1. \A i \in Calls : Proceed(i) \/ Lock(i) \/ Fail(i) => StepsLeft(i)' < StepsLeft(i)
    BY <1>1, OwnSteps
  <2>2. ASSUME NEW i \in Calls, Proceed(i) \/ Lock(i) \/ Fail(i), NEW j \in Calls
        PROVE  StepsLeft(j)' <= StepsLeft(j)
    <3>1. StepsLeft(j)' = StepsLeft(j) \/ StepsLeft(j)' < StepsLeft(j)
      BY <1>1, <2>2, OwnSteps
    <3> QED
      BY <1>1, <3>1
  <2>3. \A j \in Calls : StepsLeft(j)' <= StepsLeft(j)
    BY <1>1, <2>2, OutsideSteps DEF Next
  <2> QED
    BY <2>1, <2>3
<1>2. IInv => TypeOK /\ Numbers
  BY StepsAreNumber DEF IInv, ShapeInv
<1> HIDE DEF Numbers, Shorter
<1>3. IInv /\ Numbers /\ Numbers' /\ [Next]_vars => [Shorter]_vars
  BY <1>1, <1>2
<1>4. Spec => [][Shorter]_vars
  BY <1>2, <1>3, Invariance, PTL DEF Spec
<1> QED
  BY <1>4, PTL DEF CallsDrawToAnEnd, Shorter
=============================================================================
