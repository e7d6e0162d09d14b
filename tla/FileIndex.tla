------------------------------ MODULE FileIndex ------------------------------
(***************************************************************************)
(* The index of local files (src/search/indexer.rs, src/search/mod.rs): a  *)
(* watcher in the daemon that follows file system events, and a reindex,   *)
(* started by a command or from the web page, that walks all files.  Both  *)
(* write to the vector store, file by file, and nothing keeps them apart.  *)
(*                                                                         *)
(* Each action is what one of them does up to its next await.  Files are   *)
(* those that whitelist, exclusions, type and walker all let through.  The *)
(* text of a file is the number of the change that wrote it.               *)
(***************************************************************************)
EXTENDS Integers, Sequences, FiniteSets

CONSTANTS
  Files,
  None,
  Absent,      \* there is no such file
  Unfit,       \* there is one, but it is too large or not readable as text
  MaxChanges,  \* bound on the changes of files
  MaxFailures, \* bound on what fails or ends before its time
  MaxWalks,    \* bound on reindexes
  ChannelSize  \* of the channel of events

ASSUME FileIndexAssumption ==
  /\ None \notin Files
  /\ MaxChanges \in Nat /\ MaxFailures \in Nat /\ MaxWalks \in Nat
  /\ ChannelSize \in Nat \ {0}
  /\ Absent \notin Nat /\ Unfit \notin Nat /\ Absent # Unfit

Texts   == 0..MaxChanges
Workers == {"watcher", "reindex"}
Kinds   == {"change", "remove", "other"}

VARIABLES
  disk,     \* what is on the disk
  changes,  \* how often that has changed
  failures, \* how often something has failed
  walks,    \* how often a reindex was started
  channel,  \* events the watcher has not taken yet
  fresh,    \* files whose entry in last_processed is younger than the debounce
  at,       \* where watcher and reindex stand
  work,     \* the file each works on and the text it has read of it
  todo,     \* files the walk has still to visit
  tables,   \* tables of the vector store that exist
  docs,     \* documents table: the texts filed per file
  chunks,   \* chunks table, likewise
  flaws     \* history: why the index of a file may be wrong, see below

fileVars == <<disk, changes, failures, walks, channel, fresh, at, work, todo, tables, docs, chunks, flaws>>
around   == <<disk, changes, walks>>
outer    == <<around, failures>>
inbox    == <<channel, fresh>>
index    == <<tables, docs, chunks>>

Inserting == {"reset docs", "reset chunks", "doc", "chunk"}
Removing  == {"remove docs", "remove chunks"}
Clearing  == {"clear docs", "clear chunks", "ensure"}
Steps     == {"down", "idle", "read", "list", "walk"} \cup Inserting \cup Removing \cup Clearing
NoWork    == [file |-> None, text |-> 0]
Both      == {"docs", "chunks"}

\* w touches the rows of f; a reindex that clears the store touches all rows.
Touches(w, f) == \/ work[w].file = f /\ at[w] \in Inserting \cup Removing
                 \/ at[w] \in Clearing
Replacing(w, f) == work[w].file = f /\ at[w] \in {"reset docs", "reset chunks"} \cup Removing
Alone(w, f)   == \A v \in Workers \ {w} : ~Touches(v, f)
Waiting(f, kinds) == \E n \in DOMAIN channel : channel[n].file = f /\ channel[n].kind \in kinds
Readable(f)   == disk[f] \in Texts

Failure           == failures < MaxFailures /\ failures' = failures + 1
Goto(w, from, to) == at[w] = from /\ at' = [at EXCEPT ![w] = to]
Flaws(f, s)       == flaws' = [flaws EXCEPT ![f] = s]
\* What is wrong with f once w has broken off its work.
Broken(w, f)      == flaws[f] \cup (IF work[w].file = f THEN {"failed"} ELSE {})
                              \cup (IF Replacing(w, f) THEN {"stale docs", "stale chunks"} ELSE {})

\* A file that is there at first was never indexed: a start makes no walk.
FilesInit ==
  /\ disk \in [Files -> {0, Absent}] /\ changes = 0 /\ failures = 0 /\ walks = 0
  /\ channel = << >> /\ fresh = {}
  /\ at = [w \in Workers |-> IF w = "watcher" THEN "down" ELSE "idle"]
  /\ work = [w \in Workers |-> NoWork]
  /\ todo = {}
  /\ tables = Both
  /\ docs = [f \in Files |-> {}] /\ chunks = [f \in Files |-> {}]
  /\ flaws = [f \in Files |-> IF disk[f] = Absent THEN {} ELSE {"missed"}]
-----------------------------------------------------------------------------
(* The file system.  The callback drops an event for which there is no room. *)
Noted         == at["watcher"] # "down" /\ Len(channel) < ChannelSize
Tell(f, kind) == channel' = IF Noted THEN Append(channel, [file |-> f, kind |-> kind]) ELSE channel

\* The watcher is told of a change of f now, and will not debounce it.
Calm(f) == Noted /\ f \notin fresh /\ ~Waiting(f, Kinds)

\* A file that is deleted comes as a removal.  One that is renamed, moved away
\* or moved to the trash comes as Modify(Name(..)), a change like any other.
ToldAs(c) == IF c = Absent THEN {"remove", "change"} ELSE {"change"}

Change(f, c, kind) ==
  /\ changes < MaxChanges /\ c # disk[f]
  /\ disk' = [disk EXCEPT ![f] = c] /\ changes' = changes + 1
  /\ Tell(f, kind)
  /\ Flaws(f, IF Calm(f) /\ (c = Absent => kind = "remove")
              THEN flaws[f] \ {"missed"} ELSE flaws[f] \cup {"missed"})
  /\ UNCHANGED <<failures, walks, fresh, at, work, todo, index>>

\* An event that is not about the text, such as somebody opening the file.
Access(f) ==
  /\ disk[f] # Absent /\ Noted
  /\ Tell(f, "other")
  /\ UNCHANGED <<outer, fresh, at, work, todo, index, flaws>>

Elapse(f) ==
  /\ f \in fresh
  /\ fresh' = fresh \ {f}
  /\ UNCHANGED <<outer, channel, at, work, todo, index, flaws>>
-----------------------------------------------------------------------------
(* The daemon starts and ends.  While it is down nobody is told of changes.  *)
Start ==
  /\ Goto("watcher", "down", "idle")
  /\ tables' = Both
  /\ UNCHANGED <<outer, inbox, work, todo, docs, chunks, flaws>>

Stop ==
  /\ at["watcher"] # "down" /\ Failure
  /\ at' = [at EXCEPT !["watcher"] = "down"]
  /\ work' = [work EXCEPT !["watcher"] = NoWork]
  /\ channel' = << >> /\ fresh' = {}
  /\ flaws' = [f \in Files |->
       Broken("watcher", f) \cup IF Waiting(f, {"change", "remove"}) THEN {"missed"} ELSE {}]
  /\ UNCHANGED <<around, todo, index>>
-----------------------------------------------------------------------------
(* Rows of one file.  delete_document deletes from one table and then from   *)
(* the other; either may fail, which is logged, and rows then stay, stale.   *)
Delete(f, t, rows) ==
  \/ /\ rows' = [rows EXCEPT ![f] = {}]
     /\ Flaws(f, flaws[f] \ {t})
     /\ UNCHANGED failures
  \/ UNCHANGED rows /\ Failure /\ Flaws(f, flaws[f] \cup {t})

DeleteDocs(f)   == "docs" \in tables /\ Delete(f, "stale docs", docs) /\ UNCHANGED chunks
DeleteChunks(f) == "chunks" \in tables /\ Delete(f, "stale chunks", chunks) /\ UNCHANGED docs

\* What w does next when it is through with a file.
Onward(w) == IF w = "watcher" THEN "idle" ELSE "walk"
Leave(w, from) == Goto(w, from, Onward(w)) /\ work' = [work EXCEPT ![w] = NoWork]

\* Seeded fault: rows are inserted beside the old ones.
ResetSkipped(w) == /\ Goto(w, "reset docs", "doc")
                   /\ UNCHANGED <<outer, inbox, work, todo, index, flaws>>
\* insert_document deletes first.  That a table is missing is not an error yet.
ResetDocs(w) ==
  /\ \/ Goto(w, "reset docs", "reset chunks") /\ DeleteDocs(work[w].file)
     \/ /\ Goto(w, "reset docs", "doc") /\ "docs" \notin tables
        /\ Flaws(work[w].file, flaws[work[w].file] \cup {"stale docs", "stale chunks"})
        /\ UNCHANGED <<failures, docs, chunks>>
  /\ UNCHANGED <<around, inbox, work, todo, tables>>

ResetChunks(w) ==
  /\ Goto(w, "reset chunks", "doc")
  /\ \/ DeleteChunks(work[w].file)
     \/ /\ "chunks" \notin tables
        /\ Flaws(work[w].file, flaws[work[w].file] \cup {"stale chunks"})
        /\ UNCHANGED <<failures, docs, chunks>>
  /\ UNCHANGED <<around, inbox, work, todo, tables>>

InsertDoc(w) ==
  /\ Goto(w, "doc", "chunk") /\ "docs" \in tables
  /\ docs' = [docs EXCEPT ![work[w].file] = @ \cup {work[w].text}]
  /\ UNCHANGED <<outer, inbox, work, todo, tables, chunks, flaws>>

InsertChunk(w) ==
  /\ Leave(w, "chunk") /\ "chunks" \in tables
  /\ chunks' = [chunks EXCEPT ![work[w].file] = @ \cup {work[w].text}]
  /\ UNCHANGED <<outer, inbox, todo, tables, docs, flaws>>

\* Seeded fault: an error ends the watcher's loop.
LoopEnds(w)   == IF w = "watcher" THEN "down" ELSE "idle"
\* The watcher logs an error and takes the next event; a reindex ends.
AfterError(w) == "idle"

FailInsert(w) ==
  /\ \/ at[w] = "doc" /\ "docs" \notin tables /\ UNCHANGED failures
     \/ at[w] = "chunk" /\ "chunks" \notin tables /\ UNCHANGED failures
     \/ at[w] \in {"doc", "chunk"} /\ Failure
  /\ at' = [at EXCEPT ![w] = AfterError(w)]
  /\ work' = [work EXCEPT ![w] = NoWork]
  /\ todo' = IF w = "reindex" THEN {} ELSE todo
  /\ Flaws(work[w].file, Broken(w, work[w].file))
  /\ UNCHANGED <<around, inbox, index>>

\* The text of f is read and embedded and its rows are about to be replaced.
\* Only a removal still to come can make the watcher undo that.
Take(w, f, from) ==
  /\ Goto(w, from, "reset docs") /\ Readable(f)
  /\ work' = [work EXCEPT ![w] = [file |-> f, text |-> disk[f]]]
  /\ Flaws(f, (flaws[f] \ ({"failed"} \cup (IF Waiting(f, {"remove"}) THEN {} ELSE {"missed"})
                                      \cup (IF Alone(w, f) THEN {"raced"} ELSE {})))
              \cup (IF Alone(w, f) THEN {} ELSE {"raced"}))
-----------------------------------------------------------------------------
(* The watcher.                                                              *)
Debounced(f) == f \in fresh

\* The next event: dropped, without effect, a change or a removal.
NextEvent ==
  /\ channel # << >>
  /\ channel' = Tail(channel)

Ignore ==
  /\ at["watcher"] = "idle" /\ NextEvent
  /\ Debounced(Head(channel).file)
  /\ UNCHANGED <<outer, fresh, at, work, todo, index, flaws>>

Heed(kind, to) ==
  /\ Goto("watcher", "idle", to) /\ NextEvent
  /\ Head(channel).kind = kind /\ ~Debounced(Head(channel).file)
  /\ fresh' = fresh \cup {Head(channel).file}
  /\ work' = [work EXCEPT !["watcher"] =
                IF to = "idle" THEN NoWork ELSE [file |-> Head(channel).file, text |-> 0]]
  /\ UNCHANGED <<outer, todo, index>>

HeedOther  == Heed("other", "idle") /\ UNCHANGED flaws
HeedChange == Heed("change", "read") /\ UNCHANGED flaws
HeedRemove ==
  LET f == Head(channel).file IN
  /\ Heed("remove", "remove docs")
  /\ Flaws(f, (flaws[f] \ ({"failed"} \cup (IF disk[f] = Absent THEN {"missed"} ELSE {})
                                      \cup (IF Alone("watcher", f) THEN {"raced"} ELSE {})))
              \cup (IF Alone("watcher", f) THEN {} ELSE {"raced"}))

Read ==
  /\ Take("watcher", work["watcher"].file, "read")
  /\ UNCHANGED <<outer, inbox, todo, index>>

\* There is no file, even one just moved away, or none that is indexed: its old
\* rows stay.  Or the model fails.
SkipRead ==
  /\ Leave("watcher", "read")
  /\ \/ ~Readable(work["watcher"].file) /\ UNCHANGED <<failures, flaws>>
     \/ Failure /\ Flaws(work["watcher"].file, Broken("watcher", work["watcher"].file))
  /\ UNCHANGED <<around, inbox, todo, index>>

RemoveDocs ==
  /\ Goto("watcher", "remove docs", "remove chunks")
  /\ DeleteDocs(work["watcher"].file)
  /\ UNCHANGED <<around, inbox, work, todo, tables>>

\* Seeded fault: only the document's row is removed.
ChunksKept ==
  /\ Leave("watcher", "remove chunks")
  /\ UNCHANGED <<outer, inbox, todo, index, flaws>>

RemoveChunks ==
  /\ Leave("watcher", "remove chunks")
  /\ DeleteChunks(work["watcher"].file)
  /\ UNCHANGED <<around, inbox, todo, tables>>

FailRemove ==
  /\ \/ Leave("watcher", "remove docs") /\ "docs" \notin tables
     \/ Leave("watcher", "remove chunks") /\ "chunks" \notin tables
  /\ Flaws(work["watcher"].file, Broken("watcher", work["watcher"].file))
  /\ UNCHANGED <<outer, inbox, todo, index>>
-----------------------------------------------------------------------------
(* The reindex.  With force it drops both tables, whose errors are ignored,  *)
(* and makes them anew.                                                      *)
StartReindex(force) ==
  /\ Goto("reindex", "idle", IF force THEN "clear docs" ELSE "list")
  /\ walks < MaxWalks /\ walks' = walks + 1
  /\ tables' = Both
  /\ flaws' = [f \in Files |->
       IF force /\ Touches("watcher", f) THEN flaws[f] \cup {"raced"} ELSE flaws[f]]
  /\ UNCHANGED <<disk, changes, failures, inbox, work, todo, docs, chunks>>

Missing(f) == IF disk[f] = Absent THEN {} ELSE {"missed"}

DropDocs ==
  /\ Goto("reindex", "clear docs", "clear chunks")
  /\ \/ /\ tables' = tables \ {"docs"} /\ docs' = [f \in Files |-> {}]
        /\ flaws' = [f \in Files |-> (flaws[f] \ {"stale docs"}) \cup Missing(f)]
        /\ UNCHANGED failures
     \/ Failure /\ UNCHANGED <<tables, docs, flaws>>
  /\ UNCHANGED <<around, inbox, work, todo, chunks>>

\* With both tables gone nothing is wrong any more about files that are gone too.
DropChunks ==
  /\ Goto("reindex", "clear chunks", "ensure")
  /\ \/ /\ tables' = tables \ {"chunks"} /\ chunks' = [f \in Files |-> {}]
        /\ flaws' = [f \in Files |->
             IF "docs" \notin tables /\ disk[f] = Absent /\ ~Touches("watcher", f)
             THEN {} ELSE (flaws[f] \ {"stale chunks"}) \cup Missing(f)]
        /\ UNCHANGED failures
     \/ Failure /\ UNCHANGED <<tables, chunks, flaws>>
  /\ UNCHANGED <<around, inbox, work, todo, docs>>

Ensure ==
  /\ \/ Goto("reindex", "ensure", "list") /\ tables' = Both /\ UNCHANGED failures
     \/ Goto("reindex", "ensure", "idle") /\ tables' \in {tables, tables \cup {"docs"}} /\ Failure
  /\ UNCHANGED <<around, inbox, work, todo, docs, chunks, flaws>>

\* A file that appears behind the walk is not visited.
List ==
  /\ Goto("reindex", "list", "walk")
  /\ todo' = {f \in Files : disk[f] # Absent}
  /\ UNCHANGED <<outer, inbox, work, index, flaws>>

Visit(f) ==
  /\ f \in todo /\ todo' = todo \ {f}
  /\ Take("reindex", f, "walk")
  /\ UNCHANGED <<outer, inbox, index>>

\* It is gone, unfit, or the model fails.
SkipVisit(f) ==
  /\ at["reindex"] = "walk"
  /\ f \in todo /\ todo' = todo \ {f}
  /\ (~Readable(f) /\ UNCHANGED failures) \/ Failure
  /\ UNCHANGED <<around, inbox, at, work, index, flaws>>

Finish ==
  /\ Goto("reindex", "walk", "idle") /\ todo = {}
  /\ UNCHANGED <<outer, inbox, work, todo, index, flaws>>

\* The walk fails, or the process of the reindex ends.
Abort ==
  /\ at["reindex"] # "idle" /\ Failure
  /\ at' = [at EXCEPT !["reindex"] = "idle"]
  /\ work' = [work EXCEPT !["reindex"] = NoWork] /\ todo' = {}
  /\ flaws' = [f \in Files |-> Broken("reindex", f)]
  /\ UNCHANGED <<around, inbox, index>>
-----------------------------------------------------------------------------
Insert(w) == ResetDocs(w) \/ ResetChunks(w) \/ InsertDoc(w) \/ InsertChunk(w) \/ FailInsert(w)

Watch == \/ Insert("watcher") \/ Ignore \/ HeedOther \/ HeedChange \/ HeedRemove
         \/ Read \/ SkipRead \/ RemoveDocs \/ RemoveChunks \/ FailRemove

Walk == \/ Insert("reindex") \/ DropDocs \/ DropChunks \/ Ensure \/ List \/ Finish
        \/ \E f \in Files : Visit(f) \/ SkipVisit(f)

FilesNext ==
  \/ \E f \in Files : Access(f) \/ Elapse(f)
                      \/ \E c \in {Absent, Unfit, changes + 1} :
                           \E kind \in ToldAs(c) : Change(f, c, kind)
  \/ Start \/ Stop \/ Abort
  \/ \E force \in BOOLEAN : StartReindex(force)
  \/ Watch \/ Walk

FilesSpec == FilesInit /\ [][FilesNext]_fileVars

(* The runtime polls watcher and reindex as long as they can move.           *)
FilesFairSpec == FilesSpec /\ WF_fileVars(Watch) /\ WF_fileVars(Walk)
-----------------------------------------------------------------------------
(* The shape of every variable.                                              *)
FilesTypeOK ==
  /\ disk \in [Files -> Texts \cup {Absent, Unfit}] 
  /\ changes \in 0..MaxChanges /\ failures \in 0..MaxFailures /\ walks \in 0..MaxWalks
  /\ channel \in Seq([file : Files, kind : Kinds]) /\ Len(channel) <= ChannelSize
  /\ fresh \subseteq Files /\ todo \subseteq Files /\ tables \subseteq Both
  /\ at \in [Workers -> Steps]
  /\ work \in [Workers -> [file : Files \cup {None}, text : Texts]]
  /\ docs \in [Files -> SUBSET Texts] /\ chunks \in [Files -> SUBSET Texts]
  /\ flaws \in [Files -> SUBSET {"missed", "failed", "raced", "stale docs", "stale chunks"}]

(* The rows of a file are of one text, unless watcher and reindex worked on  *)
(* it at the same time or the vector store did not delete its old rows; and  *)
(* even then from the moment on that the next work on it has deleted them.   *)
IndexIsOfOneText ==
  \A f \in Files :
    (\A w \in Workers : ~Replacing(w, f)) /\ flaws[f] \cap {"raced", "stale docs", "stale chunks"} = {} =>
      Cardinality(docs[f] \cup chunks[f]) <= 1

(* When nothing is left to do for a file, its rows hold the text on the      *)
(* disk, or there are none if it is gone: provided that the watcher was told *)
(* of its last change at a time when the debounce since the last event of    *)
(* the file was over and none was waiting, or that a reindex came by since;  *)
(* and that this last work on it neither failed nor ran beside another.  Of  *)
(* a file that is gone it must have been told as a removal: a rename or move *)
(* is told as a change, index_file finds no file, and its rows stay.         *)
(* Whatever was missed, failed or mixed up before is then made good.         *)
Settled(f) == ~Waiting(f, {"change", "remove"}) /\ at["reindex"] \notin Clearing
              /\ \A w \in Workers : work[w].file # f

IndexFollowsDisk ==
  \A f \in Files : Settled(f) /\ flaws[f] = {} =>
    /\ disk[f] = Absent => docs[f] = {} /\ chunks[f] = {}
    /\ Readable(f) => docs[f] = {disk[f]} /\ chunks[f] = {disk[f]}

(* A change the watcher was told of is worked off, whatever fails: no error  *)
(* ends the watcher or leaves it waiting.                                    *)
EventsAreWorkedOff == \A f \in Files : ~Settled(f) ~> Settled(f)
=============================================================================
