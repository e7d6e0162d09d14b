--------------------------- MODULE RetrievalProofs ---------------------------
(***************************************************************************)
(* Proofs about what is searched and how: the index of files follows the   *)
(* disk, and the query router's lists stay free of repetitions and within  *)
(* TopK through both fusions, which keep what all lists agree on whatever  *)
(* their order, and what its first round finds is answered.                *)
(***************************************************************************)
EXTENDS QueryRouter, FileIndex, FiniteSetTheorems, TLAPS

(* First the index of files, for any files, changes, failures and reindexes. *)
FileEvent == [file : Files, kind : Kinds]
Job       == [file : Files \cup {None}, text : Texts]
FlawSet   == SUBSET {"missed", "failed", "raced", "stale docs", "stale chunks"}

(* The type invariant by groups of variables, with where each worker may     *)
(* stand and that a table that was dropped has no rows.                      *)
Handling   == Inserting \cup Removing
Busy       == Handling \cup {"read"}
Stations(w) == IF w = "watcher" THEN {"down", "idle", "read"} \cup Handling
                                ELSE {"idle", "list", "walk"} \cup Inserting \cup Clearing
StandsAt(w, s, r) == /\ s \in Stations(w) /\ r \in Job
                     /\ IF s \in Busy THEN r.file \in Files ELSE r.file = None

DiskOK   == disk \in [Files -> Texts \cup {Absent, Unfit}] /\ changes \in 0..MaxChanges
FailsOK  == failures \in 0..MaxFailures
WalksOK  == walks \in 0..MaxWalks /\ todo \subseteq Files
InboxOK  == channel \in Seq(FileEvent) /\ Len(channel) <= ChannelSize /\ fresh \subseteq Files
WorkersOK == /\ at \in [Workers -> Steps] /\ work \in [Workers -> Job]
             /\ \A w \in Workers : StandsAt(w, at[w], work[w])
RowsOK   == /\ docs \in [Files -> SUBSET Texts] /\ chunks \in [Files -> SUBSET Texts]
            /\ tables \subseteq Both
            /\ "docs" \notin tables => \A f \in Files : docs[f] = {}
            /\ "chunks" \notin tables => \A f \in Files : chunks[f] = {}
FlawsOK  == flaws \in [Files -> FlawSet]
ShapeInv == DiskOK /\ FailsOK /\ WalksOK /\ InboxOK /\ WorkersOK /\ RowsOK /\ FlawsOK

(* Rows of which nothing says that they are old.                             *)
RowsDocs(f, S)   == "stale docs" \in flaws[f] \/ docs[f] = S
RowsChunks(f, S) == "stale chunks" \in flaws[f] \/ chunks[f] = S
FreshRows(f)     == (IF "stale docs" \in flaws[f] THEN {} ELSE docs[f])
                      \cup (IF "stale chunks" \in flaws[f] THEN {} ELSE chunks[f])

(* How far w has come with f.                                                *)
StageInv(w, f) ==
  /\ at[w] \in {"reset chunks", "remove chunks", "doc"} => RowsDocs(f, {})
  /\ at[w] = "chunk" => RowsDocs(f, {work[w].text})
  /\ at[w] \in {"doc", "chunk"} => RowsChunks(f, {})

TextInv(f) ==
  "raced" \notin flaws[f] =>
    /\ \A w, v \in Workers : Touches(w, f) /\ Touches(v, f) => w = v
    /\ \A w \in Workers : work[w].file = f => StageInv(w, f)
    /\ (\A w \in Workers : ~Replacing(w, f)) => \A x, y \in FreshRows(f) : x = y

(* The first of the events of f that wait is of this kind.                   *)
FirstIs(f, kind) ==
  \E n \in DOMAIN channel : /\ channel[n] = [file |-> f, kind |-> kind]
                            /\ \A m \in DOMAIN channel : m < n => channel[m].file # f

(* The last change of f is in the channel, with the watcher, being worked    *)
(* off, or in the index.                                                     *)
ComesNext(f, kind) == f \notin fresh /\ FirstIs(f, kind)
Told(f)        == ComesNext(f, IF disk[f] = Absent THEN "remove" ELSE "change")
Reading(f)     == at["watcher"] = "read" /\ work["watcher"].file = f /\ disk[f] # Absent
Doing(w, f)    == work[w].file = f /\ \/ at[w] \in Inserting /\ work[w].text = disk[f]
                                      \/ at[w] \in Removing /\ disk[f] = Absent
Handles(w, f)  == work[w].file = f /\ at[w] \in Handling
Filed(f)       == /\ disk[f] = Absent => RowsDocs(f, {}) /\ RowsChunks(f, {})
                  /\ Readable(f) => RowsDocs(f, {disk[f]}) /\ RowsChunks(f, {disk[f]})
Match(f)       == disk[f] # Unfit => Filed(f) /\ \A w \in Workers : ~Handles(w, f)
Marks          == {"missed", "failed", "raced"}
Marked(f)      == flaws[f] \cap Marks # {}

DiskInv(f) ==
  /\ "missed" \notin flaws[f] /\ Waiting(f, {"remove"}) => disk[f] = Absent
  /\ ~Marked(f) => Told(f) \/ Reading(f) \/ (\E w \in Workers : Doing(w, f)) \/ Match(f)

FileInv(f) == TextInv(f) /\ DiskInv(f)
FilesInv   == ShapeInv /\ \A f \in Files : FileInv(f)

(* What a step does to one worker, to one file, and to what is heard of it.  *)
Moves(w, to, r) == /\ at'[w] = to /\ work'[w] = r
                   /\ \A v \in Workers \ {w} : at'[v] = at[v] /\ work'[v] = work[v]
Kept(f)  == disk'[f] = disk[f] /\ docs'[f] = docs[f] /\ chunks'[f] = chunks[f] /\ flaws'[f] = flaws[f]
Heard(f) == /\ ComesNext(f, "change") => ComesNext(f, "change")'
            /\ ComesNext(f, "remove") => ComesNext(f, "remove")'
            /\ Waiting(f, {"remove"})' => Waiting(f, {"remove"})
-----------------------------------------------------------------------------
LEMMA ShapeIsType == ShapeInv => FilesTypeOK
<1> SUFFICES ASSUME ShapeInv PROVE FilesTypeOK
  OBVIOUS
<1>1. DiskOK /\ FailsOK /\ WalksOK /\ InboxOK /\ WorkersOK /\ RowsOK /\ FlawsOK
  BY DEF ShapeInv
<1> QED
  BY <1>1 DEF FilesTypeOK, DiskOK, FailsOK, WalksOK, InboxOK, WorkersOK, RowsOK, FlawsOK, FileEvent, Job, FlawSet

(* A worker goes on.                                                         *)
LEMMA Move ==
  ASSUME WorkersOK, NEW w \in Workers, NEW to, NEW r, StandsAt(w, to, r),
         at' = [at EXCEPT ![w] = to],
         work' = [work EXCEPT ![w] = r] \/ (work' = work /\ r = work[w])
  PROVE  WorkersOK' /\ Moves(w, to, r)
<1>1. at \in [Workers -> Steps] /\ work \in [Workers -> Job] /\ \A v \in Workers : StandsAt(v, at[v], work[v])
  BY DEF WorkersOK
<1>2. to \in Steps /\ r \in Job
  BY DEF StandsAt, Stations, Steps, Handling
<1>3. at' \in [Workers -> Steps] /\ work' \in [Workers -> Job]
  BY <1>1, <1>2
<1>4. Moves(w, to, r)
  BY <1>1 DEF Moves
<1>5. \A v \in Workers : StandsAt(v, at'[v], work'[v])
  BY <1>1, <1>4 DEF Moves
<1> QED
  BY <1>3, <1>4, <1>5 DEF WorkersOK

LEMMA Station ==
  ASSUME WorkersOK, NEW w \in Workers
  PROVE  /\ work[w] \in Job /\ work[w].text \in Texts /\ at[w] \in Stations(w)
         /\ at[w] \in Busy => work[w].file \in Files
         /\ at[w] \notin Busy => work[w].file = None
         /\ \A f \in Files : work[w].file = f => at[w] \in Busy
<1>1. StandsAt(w, at[w], work[w])
  BY DEF WorkersOK
<1> QED
  BY <1>1, FileIndexAssumption DEF StandsAt, Job

LEMMA ZeroIsText == 0 \in Texts
  BY FileIndexAssumption DEF Texts

LEMMA AbsentIsNoText == Absent \notin Texts
  BY FileIndexAssumption DEF Texts

LEMMA NoWorkIsJob == NoWork \in Job /\ NoWork.file = None
  BY FileIndexAssumption DEF NoWork, Job, Texts

LEMMA OneMoreFailure ==
  ASSUME FailsOK, Failure \/ UNCHANGED failures
  PROVE  FailsOK'
<1>1. failures \in 0..MaxFailures /\ MaxFailures \in Nat
  BY FileIndexAssumption DEF FailsOK
<1>2. CASE Failure
  <2>1. failures < MaxFailures /\ failures' = failures + 1
    BY <1>2 DEF Failure
  <2> QED
    BY <1>1, <2>1 DEF FailsOK
<1>3. CASE UNCHANGED failures
  BY <1>1, <1>3 DEF FailsOK
<1> QED
  BY <1>2, <1>3

LEMMA FlawsOf ==
  ASSUME FlawsOK, NEW f \in Files, NEW s \in FlawSet, Flaws(f, s)
  PROVE  FlawsOK' /\ flaws'[f] = s /\ \A g \in Files \ {f} : flaws'[g] = flaws[g]
  BY DEF FlawsOK, Flaws

LEMMA BrokenType ==
  ASSUME FlawsOK, NEW w, NEW f \in Files
  PROVE  Broken(w, f) \in FlawSet
<1>1. flaws[f] \in FlawSet
  BY DEF FlawsOK
<1> QED
  BY <1>1 DEF Broken, FlawSet
-----------------------------------------------------------------------------
(* The channel.                                                              *)
LEMMA SameInbox == ASSUME NEW f, UNCHANGED inbox PROVE Heard(f)
  BY DEF Heard, ComesNext, FirstIs, Waiting, inbox

LEMMA TellIt ==
  ASSUME InboxOK, NEW f \in Files, NEW kind \in Kinds, Tell(f, kind), UNCHANGED fresh
  PROVE  /\ InboxOK'
         /\ \A g \in Files \ {f} : Heard(g)
         /\ \A k \in Kinds : ComesNext(f, k) => ComesNext(f, k)'
         /\ kind # "remove" => Heard(f)
         /\ Calm(f) => ComesNext(f, kind)' /\ (Waiting(f, {"remove"})' => kind = "remove")
<1> DEFINE e == [file |-> f, kind |-> kind]
<1>0. channel \in Seq(FileEvent) /\ Len(channel) <= ChannelSize /\ e \in FileEvent /\ ChannelSize \in Nat
      /\ Len(channel) \in Nat /\ e.file = f /\ e.kind = kind /\ DOMAIN channel = 1..Len(channel)
  BY FileIndexAssumption DEF InboxOK, FileEvent
<1>1. CASE ~Noted
  <2>1. channel' = channel
    BY <1>1 DEF Tell
  <2>2. Heard(f) /\ \A g \in Files : Heard(g)
    BY <2>1, SameInbox DEF inbox
  <2>3. \A k \in Kinds : ComesNext(f, k) => ComesNext(f, k)'
    BY <2>1 DEF ComesNext, FirstIs
  <2> QED
    BY <1>0, <1>1, <2>1, <2>2, <2>3 DEF InboxOK, Calm
<1>2. CASE Noted
  <2>1. channel' = Append(channel, e) /\ Len(channel) < ChannelSize
    BY <1>2 DEF Tell, Noted
  <2> HIDE DEF e
  <2>2. /\ channel' \in Seq(FileEvent) /\ Len(channel') = Len(channel) + 1 /\ DOMAIN channel' = 1..(Len(channel) + 1)
        /\ channel'[Len(channel) + 1] = e /\ \A n \in 1..Len(channel) : channel'[n] = channel[n]
    BY <1>0, <2>1
  <2>3. InboxOK'
    BY <1>0, <2>1, <2>2 DEF InboxOK
  <2>4. ASSUME NEW g, NEW k, FirstIs(g, k)
        PROVE  FirstIs(g, k)'
    <3>1. PICK n \in DOMAIN channel : /\ channel[n] = [file |-> g, kind |-> k]
                                      /\ \A m \in DOMAIN channel : m < n => channel[m].file # g
      BY <2>4 DEF FirstIs
    <3>2. n \in DOMAIN channel' /\ channel'[n] = [file |-> g, kind |-> k]
      BY <1>0, <2>2, <3>1
    <3>3. \A m \in DOMAIN channel' : m < n => m \in DOMAIN channel /\ channel'[m] = channel[m]
      BY <1>0, <2>2, <3>1
    <3> QED
      BY <3>1, <3>2, <3>3 DEF FirstIs
  <2>5. ASSUME NEW g, Waiting(g, {"remove"})', g # f \/ kind # "remove"
        PROVE  Waiting(g, {"remove"})
    <3>1. PICK n \in DOMAIN channel' : channel'[n].file = g /\ channel'[n].kind = "remove"
      BY <2>5 DEF Waiting
    <3>2. n # Len(channel) + 1
      BY <1>0, <2>2, <2>5, <3>1
    <3> QED
      BY <1>0, <2>2, <3>1, <3>2 DEF Waiting
  <2>6. ASSUME Calm(f)
        PROVE  FirstIs(f, kind)' /\ f \notin fresh /\ (Waiting(f, {"remove"})' => kind = "remove")
    <3>1. f \notin fresh /\ ~Waiting(f, Kinds)
      BY <2>6 DEF Calm
    <3>2. \A n \in DOMAIN channel : channel[n].file # f
      <4>1. \A n \in DOMAIN channel : channel[n] \in FileEvent
        BY <1>0
      <4>2. \A n \in DOMAIN channel : channel[n].kind \in Kinds
        BY <4>1 DEF FileEvent
      <4> QED
        BY <3>1, <4>2 DEF Waiting
    <3>3. \A m \in DOMAIN channel' : m < Len(channel) + 1 => channel'[m].file # f
      BY <1>0, <2>2, <3>2
    <3>4. Len(channel) + 1 \in DOMAIN channel' /\ channel'[Len(channel) + 1] = [file |-> f, kind |-> kind]
      BY <1>0, <2>2 DEF e
    <3>5. FirstIs(f, kind)'
      BY <3>3, <3>4 DEF FirstIs
    <3>6. ~Waiting(f, {"remove"})
      BY <3>2 DEF Waiting
    <3> QED
      BY <2>5, <3>1, <3>5, <3>6
  <2>7. \A g, k : ComesNext(g, k) => ComesNext(g, k)'
    BY <2>4 DEF ComesNext
  <2> QED
    BY <2>3, <2>5, <2>6, <2>7 DEF Heard, ComesNext
<1> QED
  BY <1>1, <1>2

LEMMA TakeEvent ==
  ASSUME InboxOK, NextEvent
  PROVE  /\ Head(channel) \in FileEvent
         /\ channel' \in Seq(FileEvent) /\ Len(channel') <= ChannelSize
         /\ \A g \in Files : \A k : FirstIs(g, k) /\ g # Head(channel).file => FirstIs(g, k)'
         /\ \A g \in Files : \A k : Waiting(g, {k})' => Waiting(g, {k})
         /\ \A k : FirstIs(Head(channel).file, k) => Head(channel).kind = k
         /\ Waiting(Head(channel).file, {Head(channel).kind})
<1>1. channel \in Seq(FileEvent) /\ channel # << >> /\ channel' = Tail(channel) /\ Len(channel) <= ChannelSize
      /\ ChannelSize \in Nat
  BY FileIndexAssumption DEF InboxOK, NextEvent
<1>2. /\ Head(channel) \in FileEvent /\ Head(channel) = channel[1] /\ Len(channel) \in Nat \ {0}
      /\ DOMAIN channel = 1..Len(channel) /\ DOMAIN channel' = 1..(Len(channel) - 1)
      /\ channel' \in Seq(FileEvent) /\ Len(channel') = Len(channel) - 1
  BY <1>1
<1>3. \A n \in DOMAIN channel' : n + 1 \in DOMAIN channel /\ channel'[n] = channel[n + 1]
  BY <1>1, <1>2
<1>4. ASSUME NEW g \in Files, NEW k, FirstIs(g, k), g # Head(channel).file
      PROVE  FirstIs(g, k)'
  <2>1. PICK n \in DOMAIN channel : /\ channel[n] = [file |-> g, kind |-> k]
                                    /\ \A m \in DOMAIN channel : m < n => channel[m].file # g
    BY <1>4 DEF FirstIs
  <2>2. n # 1
    BY <1>2, <1>4, <2>1
  <2>3. n - 1 \in DOMAIN channel' /\ channel'[n - 1] = [file |-> g, kind |-> k]
    BY <1>2, <1>3, <2>1, <2>2
  <2>4. \A m \in DOMAIN channel' : m < n - 1 => channel'[m].file # g
    BY <1>2, <1>3, <2>1, <2>2
  <2> QED
    BY <2>3, <2>4 DEF FirstIs
<1>5. ASSUME NEW g \in Files, NEW k, Waiting(g, {k})'
      PROVE  Waiting(g, {k})
  BY <1>3, <1>5 DEF Waiting
<1>6. ASSUME NEW k, FirstIs(Head(channel).file, k)
      PROVE  Head(channel).kind = k
  <2>1. PICK n \in DOMAIN channel : /\ channel[n] = [file |-> Head(channel).file, kind |-> k]
                                    /\ \A m \in DOMAIN channel : m < n => channel[m].file # Head(channel).file
    BY <1>6 DEF FirstIs
  <2>2. n = 1
    BY <1>2, <2>1
  <2> QED
    BY <1>2, <2>1, <2>2
<1>7. Waiting(Head(channel).file, {Head(channel).kind})
  <2>1. 1 \in DOMAIN channel
    BY <1>2
  <2> QED
    BY <1>2, <2>1 DEF Waiting
<1>8. Head(channel) \in FileEvent /\ channel' \in Seq(FileEvent)
  BY <1>2
<1>9. Len(channel') <= ChannelSize
  <2>1. Len(channel') = Len(channel) - 1 /\ Len(channel) \in Nat /\ Len(channel) <= ChannelSize /\ ChannelSize \in Nat
    BY <1>1, <1>2
  <2> QED
    BY <2>1
<1> QED
  BY <1>4, <1>5, <1>6, <1>7, <1>8, <1>9
-----------------------------------------------------------------------------
(* A file that a step leaves alone: at most its events move up.              *)
Apart(f) == \A v \in Workers : /\ work'[v].file = f <=> work[v].file = f
                               /\ work[v].file = f => at'[v] = at[v] /\ work'[v] = work[v]
                               /\ at'[v] \in Clearing => at[v] \in Clearing

LEMMA ApartFrom ==
  ASSUME NEW f, NEW w \in Workers, NEW to, NEW r, Moves(w, to, r),
         work[w].file # f, r.file # f, to \in Clearing => at[w] \in Clearing
  PROVE  Apart(f)
  BY DEF Apart, Moves

LEMMA Aside ==
  ASSUME NEW f \in Files, FileInv(f), Kept(f), Heard(f), Apart(f)
  PROVE  FileInv(f)'
<1>1. \A v \in Workers : Touches(v, f)' => Touches(v, f)
  BY DEF Touches, Apart
<1>2. \A v \in Workers : (work'[v].file = f <=> work[v].file = f)
                         /\ (work[v].file = f => at'[v] = at[v] /\ work'[v] = work[v])
  BY DEF Apart
<1>3. TextInv(f)'
  <2>1. \A v \in Workers : work[v].file = f => (StageInv(v, f)' <=> StageInv(v, f))
    BY <1>2 DEF StageInv, RowsDocs, RowsChunks, Kept
  <2>2. FreshRows(f)' = FreshRows(f)
    BY DEF FreshRows, Kept
  <2>3. \A v \in Workers : Replacing(v, f)' <=> Replacing(v, f)
    BY <1>2 DEF Replacing
  <2> QED
    BY <1>1, <1>2, <2>1, <2>2, <2>3 DEF FileInv, TextInv, Kept
<1>4. DiskInv(f)'
  <2>1. Told(f) => Told(f)'
    BY DEF Told, Heard, Kept
  <2>2. Reading(f) => Reading(f)'
    BY <1>2 DEF Reading, Workers, Kept
  <2>3. \A v \in Workers : Doing(v, f) => Doing(v, f)'
    BY <1>2 DEF Doing, Kept
  <2>4. Match(f) => Match(f)'
    <3>1. \A v \in Workers : Handles(v, f)' => Handles(v, f)
      BY <1>2 DEF Handles
    <3> QED
      BY <3>1 DEF Match, Filed, Readable, RowsDocs, RowsChunks, Kept
  <2>5. Marked(f)' <=> Marked(f)
    BY DEF Marked, Kept
  <2> QED
    BY <2>1, <2>2, <2>3, <2>4, <2>5 DEF FileInv, DiskInv, Kept, Heard
<1> QED
  BY <1>3, <1>4 DEF FileInv

LEMMA Still ==
  ASSUME NEW f \in Files, FileInv(f), UNCHANGED <<disk, docs, chunks, flaws, at, work>>, Heard(f)
  PROVE  FileInv(f)'
<1>1. Kept(f) /\ Apart(f)
  BY DEF Kept, Apart
<1> QED
  BY <1>1, Aside

(* The file a worker goes on with.                                           *)
LEMMA GoOn ==
  ASSUME NEW f \in Files, FileInv(f), NEW w \in Workers, Handles(w, f),
         NEW to, Moves(w, to, work[w]), Heard(f), disk'[f] = disk[f],
         \/ at[w] \in Inserting /\ to \in Inserting
         \/ at[w] \in Removing /\ to \in Removing,
         flaws'[f] \cap Marks = flaws[f] \cap Marks,
         "raced" \notin flaws[f] =>
           /\ StageInv(w, f)'
           /\ Replacing(w, f)' \/ \A x, y \in FreshRows(f)' : x = y
  PROVE  FileInv(f)'
<1>0. work[w].file = f /\ at[w] \in Handling /\ to \in Handling
  BY DEF Handles, Handling
<1>1. \A v \in Workers : work'[v] = work[v] /\ (Touches(v, f)' <=> Touches(v, f)) /\ (v # w => at'[v] = at[v])
  BY <1>0 DEF Moves, Touches, Handling
<1>2. "raced" \in flaws'[f] <=> "raced" \in flaws[f]
  BY DEF Marks
<1>3. TextInv(f)'
  <2> SUFFICES ASSUME "raced" \notin flaws'[f]
               PROVE  /\ \A u, v \in Workers : Touches(u, f)' /\ Touches(v, f)' => u = v
                      /\ \A v \in Workers : work'[v].file = f => StageInv(v, f)'
                      /\ (\A v \in Workers : ~Replacing(v, f)') => \A x, y \in FreshRows(f)' : x = y
    BY DEF TextInv
  <2>1. \A u, v \in Workers : Touches(u, f) /\ Touches(v, f) => u = v
    BY <1>2 DEF FileInv, TextInv
  <2>2. Touches(w, f)
    BY <1>0 DEF Touches, Handling
  <2>3. ASSUME NEW v \in Workers, v # w, work'[v].file = f
        PROVE  StageInv(v, f)'
    <3>1. ~Touches(v, f) /\ work[v].file = f
      BY <1>1, <2>1, <2>2, <2>3
    <3>2. at'[v] \notin Inserting \cup Removing
      BY <1>1, <2>3, <3>1 DEF Touches
    <3> QED
      BY <3>2 DEF StageInv, Inserting, Removing
  <2> QED
    BY <1>1, <1>2, <2>1, <2>3
<1>4. DiskInv(f)'
  <2>1. Told(f) => Told(f)'
    BY DEF Told, Heard
  <2>2. Reading(f) => Reading(f)'
    BY <1>0, <1>1 DEF Reading, Workers, Handling, Inserting, Removing
  <2>3. \A v \in Workers : Doing(v, f) => Doing(v, f)'
    <3>1. Doing(w, f) => Doing(w, f)'
      BY <1>1 DEF Doing, Moves, Inserting, Removing
    <3>2. \A v \in Workers \ {w} : Doing(v, f) => Doing(v, f)'
      BY <1>1 DEF Doing
    <3> QED
      BY <3>1, <3>2
  <2>4. Match(f) => Match(f)'
    BY DEF Match
  <2>5. Marked(f)' <=> Marked(f)
    BY DEF Marked
  <2>6. "missed" \in flaws'[f] <=> "missed" \in flaws[f]
    BY DEF Marks
  <2> QED
    BY <2>1, <2>2, <2>3, <2>4, <2>5, <2>6 DEF FileInv, DiskInv, Heard
<1> QED
  BY <1>3, <1>4 DEF FileInv

(* The file a worker is through with, or breaks off.                         *)
LEMMA LeaveOff ==
  ASSUME NEW f \in Files, FileInv(f), NEW w \in Workers, Handles(w, f),
         NEW to, Moves(w, to, NoWork), to \in {"idle", "walk", "down"}, Heard(f), disk'[f] = disk[f],
         flaws'[f] \cap {"missed", "raced"} = flaws[f] \cap {"missed", "raced"},
         \/ "failed" \in flaws'[f]
         \/ "failed" \notin flaws[f] /\ ("raced" \notin flaws[f] /\ Doing(w, f) => Filed(f)'),
         "raced" \notin flaws[f] => \A x, y \in FreshRows(f)' : x = y
  PROVE  FileInv(f)'
<1>0. work[w].file = f /\ at[w] \in Handling /\ work'[w].file # f
  BY FileIndexAssumption DEF Handles, Moves, NoWork
<1>1. \A v \in Workers \ {w} : work'[v] = work[v] /\ at'[v] = at[v]
  BY DEF Moves
<1>2. \A v \in Workers : Touches(v, f)' => Touches(v, f)
  BY <1>0, <1>1 DEF Moves, Touches, Clearing
<1>3. "raced" \in flaws'[f] <=> "raced" \in flaws[f]
  OBVIOUS
<1>4. "raced" \notin flaws[f] => \A v \in Workers \ {w} : ~Touches(v, f)
  <2>1. Touches(w, f)
    BY <1>0 DEF Touches, Handling
  <2> QED
    BY <2>1 DEF FileInv, TextInv
<1>5. TextInv(f)'
  <2> SUFFICES ASSUME "raced" \notin flaws'[f]
               PROVE  /\ \A u, v \in Workers : Touches(u, f)' /\ Touches(v, f)' => u = v
                      /\ \A v \in Workers : work'[v].file = f => StageInv(v, f)'
                      /\ \A x, y \in FreshRows(f)' : x = y
    BY DEF TextInv
  <2>1. \A u, v \in Workers : Touches(u, f) /\ Touches(v, f) => u = v
    BY <1>3 DEF FileInv, TextInv
  <2>2. ASSUME NEW v \in Workers, work'[v].file = f
        PROVE  StageInv(v, f)'
    <3>1. v # w /\ ~Touches(v, f) /\ work[v].file = f
      BY <1>0, <1>1, <1>3, <1>4, <2>2
    <3>2. at'[v] \notin Inserting \cup Removing
      BY <1>1, <3>1 DEF Touches
    <3> QED
      BY <3>2 DEF StageInv, Inserting, Removing
  <2> QED
    BY <1>2, <1>3, <2>1, <2>2
<1>6. DiskInv(f)'
  <2>0. "missed" \in flaws'[f] <=> "missed" \in flaws[f]
    OBVIOUS
  <2>1. "missed" \notin flaws'[f] /\ Waiting(f, {"remove"})' => disk'[f] = Absent
    BY <2>0 DEF FileInv, DiskInv, Heard
  <2>2. SUFFICES ASSUME ~Marked(f)'
                 PROVE  (Told(f) \/ Reading(f) \/ (\E v \in Workers : Doing(v, f)) \/ Match(f))'
    BY <2>1 DEF DiskInv
  <2>3. "failed" \notin flaws[f] /\ ("raced" \notin flaws[f] /\ Doing(w, f) => Filed(f)')
    BY <2>2 DEF Marked, Marks
  <2>4. ~Marked(f) /\ "raced" \notin flaws[f]
    BY <2>2, <2>3 DEF Marked, Marks
  <2>5. CASE Told(f)
    BY <2>5 DEF Told, Heard
  <2>6. CASE Reading(f)
    <3>1. w # "watcher"
      BY <1>0, <2>6 DEF Reading, Handling, Inserting, Removing
    <3> QED
      BY <1>1, <2>6, <3>1 DEF Reading, Workers
  <2>7. CASE Doing(w, f)
    <3>1. Filed(f)'
      BY <2>3, <2>4, <2>7
    <3>2. \A v \in Workers : ~Handles(v, f)'
      BY <1>0, <1>1, <1>4, <2>4 DEF Handles, Touches, Handling
    <3> QED
      BY <3>1, <3>2 DEF Match
  <2>8. ASSUME NEW v \in Workers \ {w}, Doing(v, f)
        PROVE  Doing(v, f)'
    BY <1>1, <2>8 DEF Doing
  <2>9. CASE Match(f)
    BY <2>9 DEF Match
  <2> QED
    BY <2>4, <2>5, <2>6, <2>7, <2>8, <2>9 DEF FileInv, DiskInv
<1> QED
  BY <1>5, <1>6 DEF FileInv
-----------------------------------------------------------------------------
(* Rows of one file.                                                         *)
LEMMA DocsDeleted ==
  ASSUME RowsOK, FlawsOK, FailsOK, NEW f \in Files, DeleteDocs(f), UNCHANGED tables
  PROVE  /\ RowsOK' /\ FlawsOK' /\ FailsOK' /\ chunks' = chunks
         /\ \A g \in Files \ {f} : docs'[g] = docs[g] /\ flaws'[g] = flaws[g]
         /\ RowsDocs(f, {})'
         /\ flaws'[f] \ {"stale docs"} = flaws[f] \ {"stale docs"}
<1>1. Delete(f, "stale docs", docs) /\ "docs" \in tables /\ chunks' = chunks
  BY DEF DeleteDocs
<1>2. flaws[f] \in FlawSet
  BY DEF FlawsOK
<1>3. CASE /\ docs' = [docs EXCEPT ![f] = {}]
           /\ Flaws(f, flaws[f] \ {"stale docs"})
           /\ UNCHANGED failures
  <2>1. flaws[f] \ {"stale docs"} \in FlawSet
    BY <1>2 DEF FlawSet
  <2>2. FlawsOK' /\ flaws'[f] = flaws[f] \ {"stale docs"} /\ \A g \in Files \ {f} : flaws'[g] = flaws[g]
    BY <1>3, <2>1, FlawsOf
  <2>3. RowsOK' /\ docs'[f] = {} /\ \A g \in Files \ {f} : docs'[g] = docs[g]
    BY <1>1, <1>3 DEF RowsOK
  <2>4. FailsOK'
    BY <1>3, OneMoreFailure
  <2> QED
    BY <1>1, <2>2, <2>3, <2>4 DEF RowsDocs
<1>4. CASE docs' = docs /\ Failure /\ Flaws(f, flaws[f] \cup {"stale docs"})
  <2>1. flaws[f] \cup {"stale docs"} \in FlawSet
    BY <1>2 DEF FlawSet
  <2>2. FlawsOK' /\ flaws'[f] = flaws[f] \cup {"stale docs"} /\ \A g \in Files \ {f} : flaws'[g] = flaws[g]
    BY <1>4, <2>1, FlawsOf
  <2>3. RowsOK'
    BY <1>1, <1>4 DEF RowsOK
  <2>4. FailsOK'
    BY <1>4, OneMoreFailure
  <2> QED
    BY <1>1, <1>4, <2>2, <2>3, <2>4 DEF RowsDocs
<1> QED
  BY <1>1, <1>3, <1>4 DEF Delete

LEMMA ChunksDeleted ==
  ASSUME RowsOK, FlawsOK, FailsOK, NEW f \in Files, DeleteChunks(f), UNCHANGED tables
  PROVE  /\ RowsOK' /\ FlawsOK' /\ FailsOK' /\ docs' = docs
         /\ \A g \in Files \ {f} : chunks'[g] = chunks[g] /\ flaws'[g] = flaws[g]
         /\ RowsChunks(f, {})'
         /\ flaws'[f] \ {"stale chunks"} = flaws[f] \ {"stale chunks"}
<1>1. Delete(f, "stale chunks", chunks) /\ "chunks" \in tables /\ docs' = docs
  BY DEF DeleteChunks
<1>2. flaws[f] \in FlawSet
  BY DEF FlawsOK
<1>3. CASE /\ chunks' = [chunks EXCEPT ![f] = {}]
           /\ Flaws(f, flaws[f] \ {"stale chunks"})
           /\ UNCHANGED failures
  <2>1. flaws[f] \ {"stale chunks"} \in FlawSet
    BY <1>2 DEF FlawSet
  <2>2. FlawsOK' /\ flaws'[f] = flaws[f] \ {"stale chunks"} /\ \A g \in Files \ {f} : flaws'[g] = flaws[g]
    BY <1>3, <2>1, FlawsOf
  <2>3. RowsOK' /\ chunks'[f] = {} /\ \A g \in Files \ {f} : chunks'[g] = chunks[g]
    BY <1>1, <1>3 DEF RowsOK
  <2>4. FailsOK'
    BY <1>3, OneMoreFailure
  <2> QED
    BY <1>1, <2>2, <2>3, <2>4 DEF RowsChunks
<1>4. CASE chunks' = chunks /\ Failure /\ Flaws(f, flaws[f] \cup {"stale chunks"})
  <2>1. flaws[f] \cup {"stale chunks"} \in FlawSet
    BY <1>2 DEF FlawSet
  <2>2. FlawsOK' /\ flaws'[f] = flaws[f] \cup {"stale chunks"} /\ \A g \in Files \ {f} : flaws'[g] = flaws[g]
    BY <1>4, <2>1, FlawsOf
  <2>3. RowsOK'
    BY <1>1, <1>4 DEF RowsOK
  <2>4. FailsOK'
    BY <1>4, OneMoreFailure
  <2> QED
    BY <1>1, <1>4, <2>2, <2>3, <2>4 DEF RowsChunks
<1> QED
  BY <1>1, <1>3, <1>4 DEF Delete
-----------------------------------------------------------------------------
(* The steps of a worker on the rows of its file.                            *)
LEMMA OtherFiles ==
  ASSUME FilesInv, NEW f \in Files, NEW w \in Workers, work[w].file = f,
         NEW to, NEW r, Moves(w, to, r), r.file \in {f, None}, to \notin Clearing,
         UNCHANGED <<disk, channel, fresh>>,
         NEW g \in Files \ {f}, docs'[g] = docs[g], chunks'[g] = chunks[g], flaws'[g] = flaws[g]
  PROVE  FileInv(g)'
<1>1. Apart(g)
  <2>1. work[w].file # g /\ r.file # g
    BY FileIndexAssumption
  <2> QED
    BY <2>1, ApartFrom
<1>2. Kept(g) /\ Heard(g)
  BY SameInbox DEF Kept, inbox
<1> QED
  BY <1>1, <1>2, Aside DEF FilesInv

\* What is known of a worker that handles a file.
LEMMA AtWork ==
  ASSUME FilesInv, NEW w \in Workers, at[w] \in Handling
  PROVE  /\ work[w].file \in Files /\ Handles(w, work[w].file) /\ FileInv(work[w].file)
         /\ work[w].text \in Texts
         /\ "raced" \notin flaws[work[w].file] =>
              /\ StageInv(w, work[w].file)
              /\ \A v \in Workers \ {w} : ~Replacing(v, work[w].file)
              /\ at[w] \in {"doc", "chunk"} => \A x, y \in FreshRows(work[w].file) : x = y
<1> DEFINE f == work[w].file
<1>1. f \in Files /\ work[w].text \in Texts
  BY Station DEF FilesInv, ShapeInv, Busy
<1>2. FileInv(f) /\ Handles(w, f)
  BY <1>1 DEF FilesInv, Handles
<1>3. ASSUME "raced" \notin flaws[f]
      PROVE  StageInv(w, f) /\ \A v \in Workers \ {w} : ~Replacing(v, f)
  <2>1. Touches(w, f)
    BY DEF Touches, Handling
  <2>2. \A v \in Workers : Replacing(v, f) => Touches(v, f)
    BY DEF Replacing, Touches, Inserting
  <2> QED
    BY <1>2, <1>3, <2>1, <2>2 DEF FileInv, TextInv
<1>4. ASSUME "raced" \notin flaws[f], at[w] \in {"doc", "chunk"}
      PROVE  \A x, y \in FreshRows(f) : x = y
  <2>1. ~Replacing(w, f)
    BY <1>4 DEF Replacing, Removing
  <2> QED
    BY <1>2, <1>3, <1>4, <2>1 DEF FileInv, TextInv
<1> QED
  BY <1>1, <1>2, <1>3, <1>4

LEMMA ResetDocsStep ==
  ASSUME FilesInv, NEW w \in Workers, ResetDocs(w)
  PROVE  FilesInv'
<1>0. /\ DiskOK /\ FailsOK /\ WalksOK /\ InboxOK /\ WorkersOK /\ RowsOK /\ FlawsOK
      /\ UNCHANGED <<disk, changes, walks, channel, fresh, work, todo, tables>>
  BY DEF FilesInv, ShapeInv, ResetDocs, around, inbox
<1>1. at[w] = "reset docs" /\ at[w] \in Handling
  BY DEF ResetDocs, Goto, Handling, Inserting
<1>2. PICK f \in Files : f = work[w].file /\ Handles(w, f) /\ FileInv(f) /\ work[w] \in Job
  BY <1>0, <1>1, AtWork, Station
<1>3. Heard(f)
  BY <1>0, SameInbox DEF inbox
<1>4. DiskOK' /\ WalksOK' /\ InboxOK'
  BY <1>0 DEF DiskOK, WalksOK, InboxOK
<1>5. StandsAt(w, "reset chunks", work[w]) /\ StandsAt(w, "doc", work[w])
  BY <1>2 DEF StandsAt, Stations, Busy, Handling, Inserting, Workers
<1>6. CASE Goto(w, "reset docs", "reset chunks") /\ DeleteDocs(f)
  <2>1. WorkersOK' /\ Moves(w, "reset chunks", work[w])
    BY <1>0, <1>5, <1>6, Move DEF Goto
  <2>2. /\ RowsOK' /\ FlawsOK' /\ FailsOK' /\ chunks' = chunks
        /\ \A g \in Files \ {f} : docs'[g] = docs[g] /\ flaws'[g] = flaws[g]
        /\ RowsDocs(f, {})' /\ flaws'[f] \ {"stale docs"} = flaws[f] \ {"stale docs"}
    BY <1>0, <1>2, <1>6, DocsDeleted
  <2>3. ASSUME NEW g \in Files \ {f} PROVE FileInv(g)'
    BY <1>0, <1>2, <2>1, <2>2, <2>3, OtherFiles DEF Clearing
  <2>4. FileInv(f)'
    <3>1. StageInv(w, f)' /\ Replacing(w, f)'
      BY <1>0, <1>2, <2>1, <2>2 DEF StageInv, Replacing, Moves
    <3>2. flaws'[f] \cap Marks = flaws[f] \cap Marks
      BY <2>2 DEF Marks
    <3> QED
      BY <1>0, <1>1, <1>2, <1>3, <2>1, <3>1, <3>2, GoOn DEF Inserting
  <2> QED
    BY <1>4, <2>1, <2>2, <2>3, <2>4 DEF FilesInv, ShapeInv
<1>7. CASE /\ Goto(w, "reset docs", "doc") /\ "docs" \notin tables
           /\ Flaws(f, flaws[f] \cup {"stale docs", "stale chunks"})
           /\ UNCHANGED <<failures, docs, chunks>>
  <2>1. WorkersOK' /\ Moves(w, "doc", work[w])
    BY <1>0, <1>5, <1>7, Move DEF Goto
  <2>2. flaws[f] \cup {"stale docs", "stale chunks"} \in FlawSet
    BY <1>0, <1>2 DEF FlawsOK, FlawSet
  <2>3. /\ FlawsOK' /\ flaws'[f] = flaws[f] \cup {"stale docs", "stale chunks"}
        /\ \A g \in Files \ {f} : flaws'[g] = flaws[g]
    BY <1>0, <1>2, <1>7, <2>2, FlawsOf
  <2>4. RowsOK' /\ FailsOK'
    BY <1>0, <1>7 DEF RowsOK, FailsOK
  <2>5. ASSUME NEW g \in Files \ {f} PROVE FileInv(g)'
    BY <1>0, <1>2, <1>7, <2>1, <2>3, <2>5, OtherFiles DEF Clearing
  <2>6. FileInv(f)'
    <3>1. StageInv(w, f)' /\ \A x, y \in FreshRows(f)' : x = y
      BY <1>0, <2>1, <2>3 DEF StageInv, FreshRows, RowsDocs, RowsChunks, Moves
    <3>2. flaws'[f] \cap Marks = flaws[f] \cap Marks
      BY <2>3 DEF Marks
    <3> QED
      BY <1>0, <1>1, <1>2, <1>3, <2>1, <3>1, <3>2, GoOn DEF Inserting
  <2> QED
    BY <1>4, <2>1, <2>3, <2>4, <2>5, <2>6 DEF FilesInv, ShapeInv
<1> QED
  BY <1>2, <1>6, <1>7 DEF ResetDocs, DeleteDocs, Delete, Flaws

LEMMA ResetChunksStep ==
  ASSUME FilesInv, NEW w \in Workers, ResetChunks(w)
  PROVE  FilesInv'
<1>0. /\ DiskOK /\ FailsOK /\ WalksOK /\ InboxOK /\ WorkersOK /\ RowsOK /\ FlawsOK
      /\ UNCHANGED <<disk, changes, walks, channel, fresh, work, todo, tables>>
  BY DEF FilesInv, ShapeInv, ResetChunks, around, inbox
<1>1. at[w] = "reset chunks" /\ at[w] \in Handling /\ at' = [at EXCEPT ![w] = "doc"]
  BY DEF ResetChunks, Goto, Handling, Inserting
<1>2. PICK f \in Files : /\ f = work[w].file /\ Handles(w, f) /\ FileInv(f) /\ work[w] \in Job
                         /\ "raced" \notin flaws[f] => StageInv(w, f)
  BY <1>0, <1>1, AtWork, Station
<1>3. Heard(f)
  BY <1>0, SameInbox DEF inbox
<1>4. DiskOK' /\ WalksOK' /\ InboxOK'
  BY <1>0 DEF DiskOK, WalksOK, InboxOK
<1>5. StandsAt(w, "doc", work[w])
  BY <1>2 DEF StandsAt, Stations, Busy, Handling, Inserting, Workers
<1>6. WorkersOK' /\ Moves(w, "doc", work[w])
  BY <1>0, <1>1, <1>5, Move
<1>7. /\ RowsOK' /\ FlawsOK' /\ FailsOK' /\ docs' = docs
      /\ \A g \in Files \ {f} : chunks'[g] = chunks[g] /\ flaws'[g] = flaws[g]
      /\ RowsChunks(f, {})' /\ flaws'[f] \ {"stale chunks"} = flaws[f] \ {"stale chunks"}
  <2>1. CASE DeleteChunks(f)
    BY <1>0, <1>2, <2>1, ChunksDeleted
  <2>2. CASE /\ Flaws(f, flaws[f] \cup {"stale chunks"})
             /\ UNCHANGED <<failures, docs, chunks>>
    <3>1. flaws[f] \cup {"stale chunks"} \in FlawSet
      BY <1>0, <1>2 DEF FlawsOK, FlawSet
    <3>2. /\ FlawsOK' /\ flaws'[f] = flaws[f] \cup {"stale chunks"}
          /\ \A g \in Files \ {f} : flaws'[g] = flaws[g]
      BY <1>0, <1>2, <2>2, <3>1, FlawsOf
    <3> QED
      BY <1>0, <2>2, <3>2 DEF RowsOK, FailsOK, RowsChunks
  <2> QED
    BY <1>2, <2>1, <2>2 DEF ResetChunks, DeleteChunks, Delete, Flaws
<1>8. ASSUME NEW g \in Files \ {f} PROVE FileInv(g)'
  BY <1>0, <1>2, <1>6, <1>7, <1>8, OtherFiles DEF Clearing
<1>9. FileInv(f)'
  <2>1. "raced" \notin flaws[f] => RowsDocs(f, {})'
    BY <1>1, <1>2, <1>7 DEF StageInv, RowsDocs
  <2>2. "raced" \notin flaws[f] => StageInv(w, f)' /\ \A x, y \in FreshRows(f)' : x = y
    BY <1>6, <1>7, <2>1 DEF StageInv, FreshRows, RowsDocs, RowsChunks, Moves
  <2>3. flaws'[f] \cap Marks = flaws[f] \cap Marks
    BY <1>7 DEF Marks
  <2> QED
    BY <1>0, <1>1, <1>2, <1>3, <1>6, <2>2, <2>3, GoOn DEF Inserting
<1> QED
  BY <1>4, <1>6, <1>7, <1>8, <1>9 DEF FilesInv, ShapeInv

LEMMA InsertDocStep ==
  ASSUME FilesInv, NEW w \in Workers, InsertDoc(w)
  PROVE  FilesInv'
<1>0. /\ DiskOK /\ FailsOK /\ WalksOK /\ InboxOK /\ WorkersOK /\ RowsOK /\ FlawsOK
      /\ UNCHANGED <<disk, changes, walks, failures, channel, fresh, work, todo, tables, chunks, flaws>>
  BY DEF FilesInv, ShapeInv, InsertDoc, around, outer, inbox
<1>1. at[w] = "doc" /\ at[w] \in Handling /\ at' = [at EXCEPT ![w] = "chunk"] /\ "docs" \in tables
  BY DEF InsertDoc, Goto, Handling, Inserting
<1>2. PICK f \in Files : /\ f = work[w].file /\ Handles(w, f) /\ FileInv(f) /\ work[w] \in Job
                         /\ work[w].text \in Texts
                         /\ "raced" \notin flaws[f] => StageInv(w, f)
  BY <1>0, <1>1, AtWork, Station
<1>3. Heard(f)
  BY <1>0, SameInbox DEF inbox
<1>4. DiskOK' /\ WalksOK' /\ InboxOK' /\ FlawsOK' /\ FailsOK'
  BY <1>0 DEF DiskOK, WalksOK, InboxOK, FlawsOK, FailsOK
<1>5. StandsAt(w, "chunk", work[w])
  BY <1>2 DEF StandsAt, Stations, Busy, Handling, Inserting, Workers
<1>6. WorkersOK' /\ Moves(w, "chunk", work[w])
  BY <1>0, <1>1, <1>5, Move
<1>7. docs' = [docs EXCEPT ![f] = @ \cup {work[w].text}]
  BY <1>2 DEF InsertDoc
<1>8. RowsOK' /\ docs'[f] = docs[f] \cup {work[w].text} /\ \A g \in Files \ {f} : docs'[g] = docs[g]
  BY <1>0, <1>1, <1>2, <1>7 DEF RowsOK
<1>9. ASSUME NEW g \in Files \ {f} PROVE FileInv(g)'
  BY <1>0, <1>2, <1>6, <1>8, <1>9, OtherFiles DEF Clearing
<1>10. FileInv(f)'
  <2>1. "raced" \notin flaws[f] => RowsDocs(f, {work[w].text})' /\ RowsChunks(f, {})'
    BY <1>0, <1>1, <1>2, <1>8 DEF StageInv, RowsDocs, RowsChunks
  <2>2. "raced" \notin flaws[f] => StageInv(w, f)' /\ \A x, y \in FreshRows(f)' : x = y
    BY <1>0, <1>6, <2>1 DEF StageInv, FreshRows, RowsDocs, RowsChunks, Moves
  <2> QED
    BY <1>0, <1>1, <1>2, <1>3, <1>6, <2>2, GoOn DEF Inserting
<1> QED
  BY <1>4, <1>6, <1>8, <1>9, <1>10 DEF FilesInv, ShapeInv

LEMMA InsertChunkStep ==
  ASSUME FilesInv, NEW w \in Workers, InsertChunk(w)
  PROVE  FilesInv'
<1>0. /\ DiskOK /\ FailsOK /\ WalksOK /\ InboxOK /\ WorkersOK /\ RowsOK /\ FlawsOK
      /\ UNCHANGED <<disk, changes, walks, failures, channel, fresh, todo, tables, docs, flaws>>
  BY DEF FilesInv, ShapeInv, InsertChunk, around, outer, inbox
<1>1. at[w] = "chunk" /\ at[w] \in Handling /\ at' = [at EXCEPT ![w] = Onward(w)]
      /\ work' = [work EXCEPT ![w] = NoWork] /\ "chunks" \in tables
  BY DEF InsertChunk, Leave, Goto, Handling, Inserting
<1>2. PICK f \in Files : /\ f = work[w].file /\ Handles(w, f) /\ FileInv(f)
                         /\ work[w].text \in Texts
                         /\ "raced" \notin flaws[f] => StageInv(w, f)
  BY <1>0, <1>1, AtWork, Station
<1>3. Heard(f)
  BY <1>0, SameInbox DEF inbox
<1>4. DiskOK' /\ WalksOK' /\ InboxOK' /\ FlawsOK' /\ FailsOK'
  BY <1>0 DEF DiskOK, WalksOK, InboxOK, FlawsOK, FailsOK
<1>5. StandsAt(w, Onward(w), NoWork) /\ Onward(w) \in {"idle", "walk"}
  BY NoWorkIsJob DEF StandsAt, Stations, Busy, Handling, Inserting, Removing, Workers, Onward
<1>6. WorkersOK' /\ Moves(w, Onward(w), NoWork)
  BY <1>0, <1>1, <1>5, Move
<1>7. chunks' = [chunks EXCEPT ![f] = @ \cup {work[w].text}]
  BY <1>2 DEF InsertChunk
<1>8. RowsOK' /\ chunks'[f] = chunks[f] \cup {work[w].text} /\ \A g \in Files \ {f} : chunks'[g] = chunks[g]
  BY <1>0, <1>1, <1>2, <1>7 DEF RowsOK
<1>9. ASSUME NEW g \in Files \ {f} PROVE FileInv(g)'
  BY <1>0, <1>2, <1>5, <1>6, <1>8, <1>9, OtherFiles, NoWorkIsJob DEF Clearing
<1>10. FileInv(f)'
  <2>1. "raced" \notin flaws[f] => \/ "stale docs" \in flaws'[f]
                                   \/ docs'[f] = {work[w].text}
    BY <1>0, <1>1, <1>2 DEF StageInv, RowsDocs
  <2>2. "raced" \notin flaws[f] => \/ "stale chunks" \in flaws'[f]
                                   \/ chunks'[f] = {work[w].text}
    BY <1>0, <1>1, <1>2, <1>8 DEF StageInv, RowsChunks
  <2>3. "raced" \notin flaws[f] => \A x, y \in FreshRows(f)' : x = y
    BY <2>1, <2>2 DEF FreshRows
  <2>4. Doing(w, f) => disk'[f] = work[w].text /\ disk'[f] # Absent
    <3>1. Doing(w, f) => work[w].text = disk[f]
      BY <1>1 DEF Doing, Removing
    <3>2. work[w].text # Absent
      BY <1>2, FileIndexAssumption DEF Texts
    <3> QED
      BY <1>0, <3>1, <3>2
  <2>5. "raced" \notin flaws[f] /\ Doing(w, f) => Filed(f)'
    BY <2>1, <2>2, <2>4 DEF Filed, RowsDocs, RowsChunks
  <2> QED
    BY <1>0, <1>2, <1>3, <1>5, <1>6, <2>3, <2>5, LeaveOff
<1> QED
  BY <1>4, <1>6, <1>8, <1>9, <1>10 DEF FilesInv, ShapeInv

\* Work is broken off: rows that were being replaced are called stale.
LEMMA BreakOff ==
  ASSUME FilesInv, NEW w \in Workers, at[w] \in Handling, NEW f \in Files, f = work[w].file,
         NEW to, Moves(w, to, NoWork), to \in {"idle", "walk", "down"},
         UNCHANGED <<disk, channel, fresh, docs, chunks>>, flaws'[f] = Broken(w, f)
  PROVE  FileInv(f)'
<1>1. flaws'[f] = flaws[f] \cup {"failed"} \cup (IF Replacing(w, f) THEN {"stale docs", "stale chunks"} ELSE {})
  BY DEF Broken
<1>2. Handles(w, f) /\ FileInv(f)
  BY AtWork
<1>3. Heard(f)
  BY SameInbox DEF inbox
<1>4. ASSUME "raced" \notin flaws[f]
      PROVE  \A x, y \in FreshRows(f)' : x = y
  <2>1. CASE Replacing(w, f)
    BY <1>1, <2>1 DEF FreshRows
  <2>2. CASE ~Replacing(w, f)
    <3>1. \A v \in Workers : ~Replacing(v, f)
      BY <1>4, <2>2, AtWork
    <3>2. \A x, y \in FreshRows(f) : x = y
      BY <1>2, <1>4, <3>1 DEF FileInv, TextInv
    <3>3. FreshRows(f)' = FreshRows(f)
      BY <1>1, <2>2 DEF FreshRows
    <3> QED
      BY <3>2, <3>3
  <2> QED
    BY <2>1, <2>2
<1> QED
  BY <1>1, <1>2, <1>3, <1>4, LeaveOff

LEMMA FailInsertStep ==
  ASSUME FilesInv, NEW w \in Workers, FailInsert(w)
  PROVE  FilesInv'
<1>0. /\ DiskOK /\ FailsOK /\ WalksOK /\ InboxOK /\ WorkersOK /\ RowsOK /\ FlawsOK
      /\ UNCHANGED <<disk, changes, walks, channel, fresh, tables, docs, chunks>>
  BY DEF FilesInv, ShapeInv, FailInsert, around, inbox, index
<1>1. at[w] \in Handling /\ at' = [at EXCEPT ![w] = "idle"]
      /\ work' = [work EXCEPT ![w] = NoWork] /\ (Failure \/ UNCHANGED failures)
  BY DEF FailInsert, AfterError, Handling, Inserting
<1>2. PICK f \in Files : f = work[w].file
  BY <1>0, <1>1, AtWork
<1>4. DiskOK' /\ WalksOK' /\ InboxOK' /\ FailsOK' /\ RowsOK'
  <2>1. todo' \subseteq Files
    BY <1>0 DEF FailInsert, WalksOK
  <2> QED
    BY <1>0, <1>1, <2>1, OneMoreFailure DEF DiskOK, WalksOK, InboxOK, RowsOK
<1>5. StandsAt(w, "idle", NoWork)
  BY NoWorkIsJob DEF StandsAt, Stations, Busy, Handling, Inserting, Removing, Workers
<1>6. WorkersOK' /\ Moves(w, "idle", NoWork)
  BY <1>0, <1>1, <1>5, Move
<1>7. FlawsOK' /\ flaws'[f] = Broken(w, f) /\ \A g \in Files \ {f} : flaws'[g] = flaws[g]
  <2>1. Broken(w, f) \in FlawSet
    BY <1>0, BrokenType
  <2>2. Flaws(f, Broken(w, f))
    BY <1>2 DEF FailInsert, Flaws, Broken, Replacing
  <2> QED
    BY <1>0, <2>1, <2>2, FlawsOf
<1>8. ASSUME NEW g \in Files \ {f} PROVE FileInv(g)'
  BY <1>0, <1>2, <1>6, <1>7, <1>8, OtherFiles, NoWorkIsJob DEF Clearing
<1>9. FileInv(f)'
  BY <1>0, <1>1, <1>2, <1>6, <1>7, BreakOff
<1> QED
  BY <1>4, <1>6, <1>7, <1>8, <1>9 DEF FilesInv, ShapeInv

LEMMA RemoveDocsStep ==
  ASSUME FilesInv, RemoveDocs
  PROVE  FilesInv'
<1> DEFINE w == "watcher"
<1>0. /\ DiskOK /\ FailsOK /\ WalksOK /\ InboxOK /\ WorkersOK /\ RowsOK /\ FlawsOK /\ w \in Workers
      /\ UNCHANGED <<disk, changes, walks, channel, fresh, work, todo, tables>>
  BY DEF FilesInv, ShapeInv, RemoveDocs, around, inbox, Workers
<1>1. at[w] = "remove docs" /\ at[w] \in Handling /\ at' = [at EXCEPT ![w] = "remove chunks"]
  BY DEF RemoveDocs, Goto, Handling, Removing
<1>2. PICK f \in Files : f = work[w].file /\ Handles(w, f) /\ FileInv(f) /\ work[w] \in Job
  BY <1>0, <1>1, AtWork, Station
<1>3. Heard(f)
  BY <1>0, SameInbox DEF inbox
<1>4. DiskOK' /\ WalksOK' /\ InboxOK'
  BY <1>0 DEF DiskOK, WalksOK, InboxOK
<1>5. StandsAt(w, "remove chunks", work[w])
  BY <1>2 DEF StandsAt, Stations, Busy, Handling, Removing, Workers
<1>6. WorkersOK' /\ Moves(w, "remove chunks", work[w])
  BY <1>0, <1>1, <1>5, Move
<1>7. /\ RowsOK' /\ FlawsOK' /\ FailsOK' /\ chunks' = chunks
      /\ \A g \in Files \ {f} : docs'[g] = docs[g] /\ flaws'[g] = flaws[g]
      /\ RowsDocs(f, {})' /\ flaws'[f] \ {"stale docs"} = flaws[f] \ {"stale docs"}
  <2>1. DeleteDocs(f)
    BY <1>2 DEF RemoveDocs, DeleteDocs, Delete, Flaws
  <2> QED
    BY <1>0, <1>2, <2>1, DocsDeleted
<1>8. ASSUME NEW g \in Files \ {f} PROVE FileInv(g)'
  <2>1. "remove chunks" \notin Clearing /\ chunks'[g] = chunks[g] /\ docs'[g] = docs[g] /\ flaws'[g] = flaws[g]
    BY <1>7, <1>8 DEF Clearing
  <2>2. work["watcher"].file = f /\ Moves("watcher", "remove chunks", work["watcher"])
    BY <1>2, <1>6
  <2> QED
    BY <1>0, <1>8, <2>1, <2>2, OtherFiles
<1>9. FileInv(f)'
  <2>1. StageInv(w, f)' /\ Replacing(w, f)'
    BY <1>0, <1>2, <1>6, <1>7 DEF StageInv, Replacing, Removing, Moves
  <2>2. flaws'[f] \cap Marks = flaws[f] \cap Marks
    BY <1>7 DEF Marks
  <2> QED
    BY <1>0, <1>1, <1>2, <1>3, <1>6, <2>1, <2>2, GoOn DEF Removing
<1> QED
  BY <1>4, <1>6, <1>7, <1>8, <1>9 DEF FilesInv, ShapeInv

LEMMA RemoveChunksStep ==
  ASSUME FilesInv, RemoveChunks
  PROVE  FilesInv'
<1> DEFINE w == "watcher"
<1>0. /\ DiskOK /\ FailsOK /\ WalksOK /\ InboxOK /\ WorkersOK /\ RowsOK /\ FlawsOK /\ w \in Workers
      /\ UNCHANGED <<disk, changes, walks, channel, fresh, todo, tables>>
  BY DEF FilesInv, ShapeInv, RemoveChunks, around, inbox, Workers
<1>1. at[w] = "remove chunks" /\ at[w] \in Handling /\ at' = [at EXCEPT ![w] = "idle"]
      /\ work' = [work EXCEPT ![w] = NoWork]
  BY DEF RemoveChunks, Leave, Goto, Onward, Handling, Removing
<1>2. PICK f \in Files : /\ f = work[w].file /\ Handles(w, f) /\ FileInv(f)
                         /\ "raced" \notin flaws[f] => StageInv(w, f)
  BY <1>0, <1>1, AtWork
<1>3. Heard(f)
  BY <1>0, SameInbox DEF inbox
<1>4. DiskOK' /\ WalksOK' /\ InboxOK'
  BY <1>0 DEF DiskOK, WalksOK, InboxOK
<1>5. StandsAt(w, "idle", NoWork)
  BY NoWorkIsJob DEF StandsAt, Stations, Busy, Handling, Inserting, Removing, Workers
<1>6. WorkersOK' /\ Moves(w, "idle", NoWork)
  BY <1>0, <1>1, <1>5, Move
<1>7. /\ RowsOK' /\ FlawsOK' /\ FailsOK' /\ docs' = docs
      /\ \A g \in Files \ {f} : chunks'[g] = chunks[g] /\ flaws'[g] = flaws[g]
      /\ RowsChunks(f, {})' /\ flaws'[f] \ {"stale chunks"} = flaws[f] \ {"stale chunks"}
  <2>1. DeleteChunks(f)
    BY <1>2 DEF RemoveChunks, DeleteChunks, Delete, Flaws
  <2> QED
    BY <1>0, <1>2, <2>1, ChunksDeleted
<1>8. ASSUME NEW g \in Files \ {f} PROVE FileInv(g)'
  BY <1>0, <1>2, <1>6, <1>7, <1>8, OtherFiles, NoWorkIsJob DEF Clearing
<1>9. FileInv(f)'
  <2>1. "raced" \notin flaws[f] => RowsDocs(f, {})'
    BY <1>1, <1>2, <1>7 DEF StageInv, RowsDocs
  <2>2. "raced" \notin flaws[f] => \A x, y \in FreshRows(f)' : x = y
    BY <1>7, <2>1 DEF FreshRows, RowsDocs, RowsChunks
  <2>3. Doing(w, f) => disk'[f] = Absent
    BY <1>0, <1>1 DEF Doing, Inserting
  <2>4. "raced" \notin flaws[f] /\ Doing(w, f) => Filed(f)'
    <3>1. Absent \notin Texts
      BY AbsentIsNoText
    <3> QED
      BY <1>7, <2>1, <2>3, <3>1 DEF Filed, Readable, Texts
  <2>5. flaws'[f] \cap {"missed", "raced"} = flaws[f] \cap {"missed", "raced"}
        /\ ("failed" \in flaws'[f] <=> "failed" \in flaws[f])
    BY <1>7
  <2> QED
    BY <1>0, <1>2, <1>3, <1>6, <2>2, <2>4, <2>5, LeaveOff
<1> QED
  BY <1>4, <1>6, <1>7, <1>8, <1>9 DEF FilesInv, ShapeInv

LEMMA FailRemoveStep ==
  ASSUME FilesInv, FailRemove
  PROVE  FilesInv'
<1> DEFINE w == "watcher"
<1>0. /\ DiskOK /\ FailsOK /\ WalksOK /\ InboxOK /\ WorkersOK /\ RowsOK /\ FlawsOK /\ w \in Workers
      /\ UNCHANGED <<disk, changes, walks, failures, channel, fresh, todo, tables, docs, chunks>>
  BY DEF FilesInv, ShapeInv, FailRemove, around, outer, inbox, index, Workers
<1>1. at[w] \in Handling /\ at' = [at EXCEPT ![w] = "idle"] /\ work' = [work EXCEPT ![w] = NoWork]
  BY DEF FailRemove, Leave, Goto, Onward, Handling, Removing
<1>2. PICK f \in Files : f = work[w].file
  BY <1>0, <1>1, AtWork
<1>4. DiskOK' /\ WalksOK' /\ InboxOK' /\ FailsOK' /\ RowsOK'
  BY <1>0 DEF DiskOK, WalksOK, InboxOK, RowsOK, FailsOK
<1>5. StandsAt(w, "idle", NoWork)
  BY NoWorkIsJob DEF StandsAt, Stations, Busy, Handling, Inserting, Removing, Workers
<1>6. WorkersOK' /\ Moves(w, "idle", NoWork)
  BY <1>0, <1>1, <1>5, Move
<1>7. FlawsOK' /\ flaws'[f] = Broken(w, f) /\ \A g \in Files \ {f} : flaws'[g] = flaws[g]
  <2>1. Broken(w, f) \in FlawSet
    BY <1>0, BrokenType
  <2>2. Flaws(f, Broken(w, f))
    BY <1>2 DEF FailRemove, Flaws, Broken, Replacing
  <2> QED
    BY <1>0, <2>1, <2>2, FlawsOf
<1>8. ASSUME NEW g \in Files \ {f} PROVE FileInv(g)'
  BY <1>0, <1>2, <1>6, <1>7, <1>8, OtherFiles, NoWorkIsJob DEF Clearing
<1>9. FileInv(f)'
  BY <1>0, <1>1, <1>2, <1>6, <1>7, BreakOff
<1> QED
  BY <1>4, <1>6, <1>7, <1>8, <1>9 DEF FilesInv, ShapeInv
-----------------------------------------------------------------------------
(* A worker turns to a file.                                                 *)
LEMMA TurnTo ==
  ASSUME FilesInv, NEW w \in Workers, NEW f \in Files, work[w].file \in {f, None},
         NEW to, NEW r, Moves(w, to, r), to \in {"reset docs", "remove docs"}, r.file = f,
         to = "reset docs" => r.text = disk[f], to = "remove docs" => disk[f] = Absent \/ Marked(f)',
         UNCHANGED disk, Waiting(f, {"remove"})' => Waiting(f, {"remove"}),
         Alone(w, f) \/ "raced" \in flaws'[f],
         \/ "missed" \notin flaws[f]
         \/ "missed" \in flaws'[f]
         \/ Waiting(f, {"remove"}) => disk[f] = Absent
  PROVE  FileInv(f)'
<1>0. FileInv(f) /\ at'[w] = to /\ work'[w] = r
  BY DEF FilesInv, Moves
<1>1. \A v \in Workers \ {w} : work'[v] = work[v] /\ at'[v] = at[v]
  BY DEF Moves
<1>2. TextInv(f)'
  <2> SUFFICES ASSUME "raced" \notin flaws'[f]
               PROVE  /\ \A u, v \in Workers : Touches(u, f)' /\ Touches(v, f)' => u = v
                      /\ \A v \in Workers : work'[v].file = f => StageInv(v, f)'
                      /\ \E v \in Workers : Replacing(v, f)'
    BY DEF TextInv
  <2>1. \A v \in Workers \ {w} : ~Touches(v, f)
    BY DEF Alone
  <2>2. \A v \in Workers \ {w} : ~Touches(v, f)'
    BY <1>1, <2>1 DEF Touches
  <2>3. Replacing(w, f)'
    BY <1>0 DEF Replacing, Removing
  <2>4. StageInv(w, f)'
    BY <1>0 DEF StageInv
  <2>5. ASSUME NEW v \in Workers \ {w}, work'[v].file = f
        PROVE  StageInv(v, f)'
    BY <2>2, <2>5 DEF Touches, StageInv, Inserting, Removing
  <2> QED
    BY <2>2, <2>3, <2>4, <2>5
<1>3. DiskInv(f)'
  <2>1. Marked(f)' \/ Doing(w, f)'
    BY <1>0 DEF Doing, Inserting, Removing
  <2>2. "missed" \notin flaws'[f] /\ Waiting(f, {"remove"})' => disk'[f] = Absent
    BY <1>0 DEF FileInv, DiskInv
  <2> QED
    BY <2>1, <2>2 DEF DiskInv
<1> QED
  BY <1>2, <1>3 DEF FileInv

LEMMA TakeStep ==
  ASSUME FilesInv, NEW w \in Workers, NEW f \in Files, work[w].file \in {f, None}, NEW from,
         Take(w, f, from), UNCHANGED <<disk, channel, fresh, docs, chunks>>
  PROVE  WorkersOK' /\ FlawsOK' /\ \A g \in Files : FileInv(g)'
<1> DEFINE r == [file |-> f, text |-> disk[f]]
           s == (flaws[f] \ ({"failed"} \cup (IF Waiting(f, {"remove"}) THEN {} ELSE {"missed"})
                                        \cup (IF Alone(w, f) THEN {"raced"} ELSE {})))
                \cup (IF Alone(w, f) THEN {} ELSE {"raced"})
<1>0. WorkersOK /\ FlawsOK
  BY DEF FilesInv, ShapeInv
<1>1. /\ at' = [at EXCEPT ![w] = "reset docs"] /\ work' = [work EXCEPT ![w] = r]
      /\ disk[f] \in Texts /\ Flaws(f, s)
  BY DEF Take, Goto, Readable
<1>2. StandsAt(w, "reset docs", r)
  BY <1>1 DEF StandsAt, Stations, Busy, Handling, Inserting, Workers, Job
<1>3. WorkersOK' /\ Moves(w, "reset docs", r)
  BY <1>0, <1>1, <1>2, Move
<1>4. s \in FlawSet
  BY <1>0 DEF FlawsOK, FlawSet
<1>5. FlawsOK' /\ flaws'[f] = s /\ \A g \in Files \ {f} : flaws'[g] = flaws[g]
  BY <1>0, <1>1, <1>4, FlawsOf
<1>6. ASSUME NEW g \in Files \ {f} PROVE FileInv(g)'
  <2>1. work[w].file # g /\ r.file # g /\ "reset docs" \notin Clearing
    BY FileIndexAssumption DEF Clearing
  <2>2. Apart(g)
    BY <1>3, <2>1, ApartFrom
  <2>3. Kept(g) /\ Heard(g)
    BY <1>5, SameInbox DEF Kept, inbox
  <2> QED
    BY <2>2, <2>3, Aside DEF FilesInv
<1>7. FileInv(f)'
  <2>1. Heard(f)
    BY SameInbox DEF inbox
  <2>2. Alone(w, f) \/ "raced" \in flaws'[f]
    BY <1>5
  <2>3. "missed" \notin flaws[f] \/ "missed" \in flaws'[f] \/ ~Waiting(f, {"remove"})
    BY <1>5
  <2>4. r.file = f /\ r.text = disk[f]
    OBVIOUS
  <2> HIDE DEF r, s
  <2> QED
    BY <1>3, <2>1, <2>2, <2>3, <2>4, TurnTo DEF Heard
<1> QED
  BY <1>3, <1>5, <1>6, <1>7

LEMMA ReadStep ==
  ASSUME FilesInv, Read
  PROVE  FilesInv'
<1>0. /\ DiskOK /\ FailsOK /\ WalksOK /\ InboxOK /\ WorkersOK /\ RowsOK /\ "watcher" \in Workers
      /\ UNCHANGED <<disk, changes, walks, failures, channel, fresh, todo, tables, docs, chunks>>
  BY DEF FilesInv, ShapeInv, Read, around, outer, inbox, index, Workers
<1>1. at["watcher"] = "read"
  BY DEF Read, Take, Goto
<1>2. PICK f \in Files : f = work["watcher"].file
  BY <1>0, <1>1, Station DEF Busy
<1>3. Take("watcher", f, "read")
  BY <1>2 DEF Read, Take, Readable, Flaws, Waiting, Alone, Touches
<1>4. WorkersOK' /\ FlawsOK' /\ \A g \in Files : FileInv(g)'
  BY <1>0, <1>2, <1>3, TakeStep
<1>5. DiskOK' /\ WalksOK' /\ InboxOK' /\ FailsOK' /\ RowsOK'
  BY <1>0 DEF DiskOK, WalksOK, InboxOK, RowsOK, FailsOK
<1> QED
  BY <1>4, <1>5 DEF FilesInv, ShapeInv

LEMMA VisitStep ==
  ASSUME FilesInv, NEW f \in Files, Visit(f)
  PROVE  FilesInv'
<1>0. /\ DiskOK /\ FailsOK /\ WalksOK /\ InboxOK /\ WorkersOK /\ RowsOK /\ "reindex" \in Workers
      /\ UNCHANGED <<disk, changes, walks, failures, channel, fresh, tables, docs, chunks>>
      /\ todo' = todo \ {f} /\ Take("reindex", f, "walk")
  BY DEF FilesInv, ShapeInv, Visit, around, outer, inbox, index, Workers
<1>1. at["reindex"] = "walk"
  BY <1>0 DEF Take, Goto
<1>2. work["reindex"].file = None
  BY <1>0, <1>1, Station DEF Busy, Handling, Inserting, Removing
<1>3. WorkersOK' /\ FlawsOK' /\ \A g \in Files : FileInv(g)'
  BY <1>0, <1>2, TakeStep
<1>4. DiskOK' /\ WalksOK' /\ InboxOK' /\ FailsOK' /\ RowsOK'
  BY <1>0 DEF DiskOK, WalksOK, InboxOK, RowsOK, FailsOK
<1> QED
  BY <1>3, <1>4 DEF FilesInv, ShapeInv

LEMMA SkipReadStep ==
  ASSUME FilesInv, SkipRead
  PROVE  FilesInv'
<1> DEFINE w == "watcher"
<1>0. /\ DiskOK /\ FailsOK /\ WalksOK /\ InboxOK /\ WorkersOK /\ RowsOK /\ FlawsOK /\ w \in Workers
      /\ UNCHANGED <<disk, changes, walks, channel, fresh, todo, tables, docs, chunks>>
  BY DEF FilesInv, ShapeInv, SkipRead, around, inbox, index, Workers
<1>1. /\ at[w] = "read" /\ at' = [at EXCEPT ![w] = "idle"] /\ work' = [work EXCEPT ![w] = NoWork]
      /\ Failure \/ UNCHANGED failures
  BY DEF SkipRead, Leave, Goto, Onward
<1>2. PICK f \in Files : f = work[w].file
  BY <1>0, <1>1, Station DEF Busy
<1>3. DiskOK' /\ WalksOK' /\ InboxOK' /\ FailsOK' /\ RowsOK'
  BY <1>0, <1>1, OneMoreFailure DEF DiskOK, WalksOK, InboxOK, RowsOK
<1>4. StandsAt(w, "idle", NoWork)
  BY NoWorkIsJob DEF StandsAt, Stations, Busy, Handling, Inserting, Removing, Workers
<1>5. WorkersOK' /\ Moves(w, "idle", NoWork)
  BY <1>0, <1>1, <1>4, Move
<1>6. /\ FlawsOK' /\ \A g \in Files \ {f} : flaws'[g] = flaws[g]
      /\ \/ flaws'[f] = flaws[f] \cup {"failed"}
         \/ flaws'[f] = flaws[f] /\ ~Readable(f)
  <2>1. Broken(w, f) = flaws[f] \cup {"failed"}
    BY <1>1, <1>2 DEF Broken, Replacing, Removing
  <2>2. CASE ~Readable(f) /\ UNCHANGED flaws
    BY <1>0, <2>2 DEF FlawsOK
  <2>3. CASE Flaws(f, Broken(w, f))
    BY <1>0, <2>1, <2>3, BrokenType, FlawsOf
  <2> QED
    BY <1>2, <2>2, <2>3 DEF SkipRead, Flaws, Broken, Replacing, Readable
<1>7. ASSUME NEW g \in Files \ {f} PROVE FileInv(g)'
  BY <1>0, <1>2, <1>5, <1>6, <1>7, OtherFiles, NoWorkIsJob DEF Clearing
<1>8. FileInv(f)'
  <2>0. /\ FileInv(f) /\ Heard(f)
        /\ flaws'[f] \ {"failed"} = flaws[f] \ {"failed"} /\ disk'[f] = disk[f]
        /\ docs'[f] = docs[f] /\ chunks'[f] = chunks[f]
    BY <1>0, <1>6, SameInbox DEF FilesInv, inbox
  <2>1. work'[w].file # f /\ \A v \in Workers \ {w} : work'[v] = work[v] /\ at'[v] = at[v]
    BY <1>5, NoWorkIsJob, FileIndexAssumption DEF Moves
  <2>2. \A v \in Workers : (Touches(v, f)' => Touches(v, f)) /\ (Replacing(v, f)' <=> Replacing(v, f))
    BY <1>1, <1>5, <2>1 DEF Touches, Replacing, Moves, Clearing, Removing
  <2>3. TextInv(f)'
    <3>1. \A v \in Workers : work'[v].file = f => v # w /\ (StageInv(v, f)' <=> StageInv(v, f))
      BY <2>0, <2>1 DEF StageInv, RowsDocs, RowsChunks
    <3>2. FreshRows(f)' = FreshRows(f)
      BY <2>0 DEF FreshRows
    <3>3. "raced" \in flaws'[f] <=> "raced" \in flaws[f]
      BY <2>0
    <3> QED
      BY <2>0, <2>1, <2>2, <3>1, <3>2, <3>3 DEF FileInv, TextInv
  <2>4. DiskInv(f)'
    <3>1. Told(f) => Told(f)'
      BY <2>0 DEF Told, Heard
    <3>2. \A v \in Workers : Doing(v, f) => Doing(v, f)'
      BY <1>1, <2>0, <2>1 DEF Doing, Inserting, Removing
    <3>3. Match(f) => Match(f)'
      <4>1. \A v \in Workers : Handles(v, f)' => Handles(v, f)
        BY <2>1 DEF Handles
      <4> QED
        BY <2>0, <4>1 DEF Match, Filed, Readable, RowsDocs, RowsChunks
    <3>4. Reading(f) => Match(f)' \/ Marked(f)'
      <4>1. Reading(f) /\ ~Readable(f) => disk[f] = Unfit
        BY <1>0 DEF Reading, Readable, DiskOK
      <4> QED
        BY <1>6, <2>0, <4>1 DEF Match, Marked, Marks
    <3>5. Marked(f) => Marked(f)'
      BY <1>6 DEF Marked
    <3>6. "missed" \in flaws'[f] <=> "missed" \in flaws[f]
      BY <2>0
    <3> QED
      BY <2>0, <3>1, <3>2, <3>3, <3>4, <3>5, <3>6 DEF FileInv, DiskInv, Heard
  <2> QED
    BY <2>3, <2>4 DEF FileInv
<1> QED
  BY <1>3, <1>5, <1>6, <1>7, <1>8 DEF FilesInv, ShapeInv
-----------------------------------------------------------------------------
(* The watcher takes an event.                                               *)
LEMMA IgnoreStep ==
  ASSUME FilesInv, Ignore
  PROVE  FilesInv'
<1>0. /\ ShapeInv /\ NextEvent /\ Head(channel).file \in fresh
      /\ UNCHANGED <<disk, changes, walks, failures, fresh, at, work, todo, tables, docs, chunks, flaws>>
  BY DEF FilesInv, Ignore, around, outer, index, Debounced
<1>1. InboxOK'
  BY <1>0, TakeEvent DEF ShapeInv, InboxOK
<1>2. ShapeInv'
  BY <1>0, <1>1 DEF ShapeInv, DiskOK, FailsOK, WalksOK, WorkersOK, RowsOK, FlawsOK
<1>3. ASSUME NEW f \in Files PROVE Heard(f)
  <2>1. \A k : FirstIs(f, k) /\ f # Head(channel).file => FirstIs(f, k)'
    BY <1>0, TakeEvent DEF ShapeInv
  <2>2. Waiting(f, {"remove"})' => Waiting(f, {"remove"})
    BY <1>0, TakeEvent DEF ShapeInv
  <2> QED
    BY <1>0, <2>1, <2>2 DEF Heard, ComesNext
<1>4. \A f \in Files : FileInv(f)'
  BY <1>0, <1>3, Still DEF FilesInv
<1> QED
  BY <1>2, <1>4 DEF FilesInv

\* What the watcher does with an event it heeds.
LEMMA HeedIt ==
  ASSUME FilesInv, NEW kind, NEW to, Heed(kind, to), to \in {"idle", "read", "remove docs"}
  PROVE  /\ Head(channel) \in FileEvent /\ at["watcher"] = "idle" /\ work["watcher"].file = None
         /\ DiskOK' /\ FailsOK' /\ WalksOK' /\ InboxOK' /\ WorkersOK' /\ RowsOK'
         /\ Moves("watcher", to, IF to = "idle" THEN NoWork ELSE [file |-> Head(channel).file, text |-> 0])
         /\ \A f \in Files \ {Head(channel).file} : Heard(f)
         /\ \A f \in Files : Waiting(f, {"remove"})' => Waiting(f, {"remove"})
         /\ Waiting(Head(channel).file, {kind})
         /\ \A k : ComesNext(Head(channel).file, k) => k = kind
<1> DEFINE r == IF to = "idle" THEN NoWork ELSE [file |-> Head(channel).file, text |-> 0]
<1>0. /\ DiskOK /\ FailsOK /\ WalksOK /\ InboxOK /\ WorkersOK /\ RowsOK /\ "watcher" \in Workers
      /\ UNCHANGED <<disk, changes, walks, failures, todo, tables, docs, chunks>>
      /\ NextEvent /\ Head(channel).kind = kind /\ fresh' = fresh \cup {Head(channel).file}
  BY DEF FilesInv, ShapeInv, Heed, around, outer, index, Workers
<1>1. /\ at["watcher"] = "idle" /\ at' = [at EXCEPT !["watcher"] = to]
      /\ work' = [work EXCEPT !["watcher"] = r]
  BY DEF Heed, Goto
<1>2. /\ Head(channel) \in FileEvent
      /\ channel' \in Seq(FileEvent) /\ Len(channel') <= ChannelSize
      /\ \A g \in Files : \A k : FirstIs(g, k) /\ g # Head(channel).file => FirstIs(g, k)'
      /\ \A g \in Files : \A k : Waiting(g, {k})' => Waiting(g, {k})
      /\ \A k : FirstIs(Head(channel).file, k) => Head(channel).kind = k
      /\ Waiting(Head(channel).file, {Head(channel).kind})
  BY <1>0, TakeEvent
<1>3. Head(channel).file \in Files
  BY <1>2 DEF FileEvent
<1>4. StandsAt("watcher", to, r)
  <2> QED
    BY <1>3, ZeroIsText, NoWorkIsJob DEF StandsAt, Stations, Busy, Handling, Inserting, Removing, Job
<1>5. WorkersOK' /\ Moves("watcher", to, r)
  BY <1>0, <1>1, <1>4, Move
<1>6. DiskOK' /\ FailsOK' /\ WalksOK' /\ InboxOK' /\ RowsOK'
  BY <1>0, <1>2, <1>3 DEF DiskOK, FailsOK, WalksOK, InboxOK, RowsOK
<1>7. work["watcher"].file = None
  BY <1>0, <1>1, Station DEF Busy, Handling, Inserting, Removing
<1>8. \A f \in Files \ {Head(channel).file} : Heard(f)
  BY <1>0, <1>2 DEF Heard, ComesNext
<1>9. \A k : ComesNext(Head(channel).file, k) => k = kind
  BY <1>0, <1>2 DEF ComesNext
<1>10. Waiting(Head(channel).file, {kind}) /\ \A f \in Files : Waiting(f, {"remove"})' => Waiting(f, {"remove"})
  BY <1>0, <1>2
<1> QED
  BY <1>1, <1>2, <1>5, <1>6, <1>7, <1>8, <1>9, <1>10

LEMMA HeedAside ==
  ASSUME FilesInv, NEW kind, NEW to, Heed(kind, to), to \in {"idle", "read", "remove docs"},
         NEW f \in Files, f # Head(channel).file, flaws'[f] = flaws[f]
  PROVE  FileInv(f)'
<1>1. Heard(f)
  BY HeedIt
<1>2. Kept(f)
  BY DEF Heed, outer, around, index, Kept
<1>3. Apart(f)
  <2> DEFINE r == IF to = "idle" THEN NoWork ELSE [file |-> Head(channel).file, text |-> 0]
  <2>1. Moves("watcher", to, r) /\ work["watcher"].file # f
    BY HeedIt, FileIndexAssumption
  <2>2. r.file # f
    BY NoWorkIsJob, FileIndexAssumption
  <2>3. to \notin Clearing /\ "watcher" \in Workers
    BY DEF Clearing, Workers
  <2> HIDE DEF r
  <2> QED
    BY <2>1, <2>2, <2>3, ApartFrom
<1> QED
  BY <1>1, <1>2, <1>3, Aside DEF FilesInv

\* An event of f that is no removal: the rows of f are not yet touched.
LEMMA HeedSoft ==
  ASSUME FilesInv, NEW kind \in {"other", "change"}, NEW to,
         Heed(kind, to), to = (IF kind = "other" THEN "idle" ELSE "read"), UNCHANGED flaws
  PROVE  FilesInv'
<1>1. PICK f \in Files : f = Head(channel).file
  BY HeedIt DEF FileEvent
<1>2. /\ at["watcher"] = "idle" /\ work["watcher"].file = None
      /\ DiskOK' /\ FailsOK' /\ WalksOK' /\ InboxOK' /\ WorkersOK' /\ RowsOK'
      /\ Moves("watcher", to, IF to = "idle" THEN NoWork ELSE [file |-> f, text |-> 0])
      /\ Waiting(f, {"remove"})' => Waiting(f, {"remove"})
      /\ \A k : ComesNext(f, k) => k = kind
  BY <1>1, HeedIt
<1>3. FlawsOK'
  BY DEF FilesInv, ShapeInv, FlawsOK
<1>4. ASSUME NEW g \in Files \ {f} PROVE FileInv(g)'
  BY <1>1, <1>4, HeedAside
<1>5. FileInv(f)'
  <2>0. /\ FileInv(f) /\ "watcher" \in Workers
        /\ UNCHANGED <<disk, docs, chunks, flaws>>
    BY DEF FilesInv, Heed, outer, around, index, Workers
  <2>1. /\ at'["watcher"] = to /\ to \in {"idle", "read"}
        /\ \A v \in Workers \ {"watcher"} : work'[v] = work[v] /\ at'[v] = at[v]
        /\ work["watcher"].file # f
    BY <1>2, FileIndexAssumption DEF Moves
  <2>2. \A v \in Workers : /\ Touches(v, f)' <=> Touches(v, f)
                           /\ Replacing(v, f)' <=> Replacing(v, f)
                           /\ Handles(v, f)' <=> Handles(v, f)
                           /\ Doing(v, f) => Doing(v, f)'
                           /\ work'[v].file = f => v = "watcher" \/ (work[v].file = f /\ (StageInv(v, f)' <=> StageInv(v, f)))
    <3>1. ASSUME NEW v \in Workers, v # "watcher"
          PROVE  /\ Touches(v, f)' <=> Touches(v, f)
                 /\ Replacing(v, f)' <=> Replacing(v, f)
                 /\ Handles(v, f)' <=> Handles(v, f)
                 /\ Doing(v, f) => Doing(v, f)'
                 /\ work'[v].file = f => work[v].file = f /\ (StageInv(v, f)' <=> StageInv(v, f))
      BY <2>0, <2>1, <3>1 DEF Touches, Replacing, Handles, Doing, StageInv, RowsDocs, RowsChunks
    <3>2. /\ ~Touches("watcher", f)' /\ ~Touches("watcher", f)
          /\ ~Replacing("watcher", f)' /\ ~Replacing("watcher", f)
          /\ ~Handles("watcher", f)' /\ ~Handles("watcher", f) /\ ~Doing("watcher", f)
      BY <1>2, <2>1 DEF Touches, Replacing, Handles, Doing, Handling, Inserting, Removing, Clearing
    <3> QED
      BY <3>1, <3>2
  <2>3. TextInv(f)'
    <3>1. StageInv("watcher", f)'
      BY <2>1 DEF StageInv
    <3>2. FreshRows(f)' = FreshRows(f)
      BY <2>0 DEF FreshRows
    <3> QED
      BY <2>0, <2>2, <3>1, <3>2 DEF FileInv, TextInv
  <2>4. DiskInv(f)'
    <3>1. Told(f) => Reading(f)'
      <4>1. ASSUME Told(f)
            PROVE  kind = "change" /\ disk[f] # Absent
        BY <1>2, <4>1 DEF Told
      <4> QED
        BY <1>2, <2>0, <4>1 DEF Reading, Moves
    <3>2. ~Reading(f)
      BY <1>2 DEF Reading
    <3>3. Match(f) => Match(f)'
      BY <2>0, <2>2 DEF Match, Filed, Readable, RowsDocs, RowsChunks
    <3>4. Marked(f)' <=> Marked(f)
      BY <2>0 DEF Marked
    <3> QED
      BY <1>2, <2>0, <2>2, <3>1, <3>2, <3>3, <3>4 DEF FileInv, DiskInv
  <2> QED
    BY <2>3, <2>4 DEF FileInv
<1> QED
  BY <1>2, <1>3, <1>4, <1>5 DEF FilesInv, ShapeInv

LEMMA HeedRemoveStep ==
  ASSUME FilesInv, HeedRemove
  PROVE  FilesInv'
<1>0. Heed("remove", "remove docs")
  BY DEF HeedRemove
<1>1. PICK f \in Files : f = Head(channel).file
  BY <1>0, HeedIt DEF FileEvent
<1> DEFINE s == (flaws[f] \ ({"failed"} \cup (IF disk[f] = Absent THEN {"missed"} ELSE {})
                                        \cup (IF Alone("watcher", f) THEN {"raced"} ELSE {})))
                \cup (IF Alone("watcher", f) THEN {} ELSE {"raced"})
           r == [file |-> f, text |-> 0]
<1>2. /\ at["watcher"] = "idle" /\ work["watcher"].file = None
      /\ DiskOK' /\ FailsOK' /\ WalksOK' /\ InboxOK' /\ WorkersOK' /\ RowsOK'
      /\ Moves("watcher", "remove docs", r)
      /\ Waiting(f, {"remove"})' => Waiting(f, {"remove"})
      /\ Waiting(f, {"remove"})
  BY <1>0, <1>1, HeedIt
<1>3. FlawsOK' /\ flaws'[f] = s /\ \A g \in Files \ {f} : flaws'[g] = flaws[g]
  <2>0. FlawsOK
    BY DEF FilesInv, ShapeInv
  <2>1. s \in FlawSet
    BY <2>0 DEF FlawsOK, FlawSet
  <2>2. Flaws(f, s)
    BY <1>1 DEF HeedRemove, Flaws, Alone, Touches
  <2> QED
    BY <2>0, <2>1, <2>2, FlawsOf
<1>4. ASSUME NEW g \in Files \ {f} PROVE FileInv(g)'
  BY <1>0, <1>1, <1>3, <1>4, HeedAside
<1>5. FileInv(f)'
  <2>1. disk[f] = Absent \/ "missed" \in flaws[f]
    BY <1>2 DEF FilesInv, FileInv, DiskInv
  <2>2. disk[f] = Absent \/ "missed" \in flaws'[f]
    BY <1>3, <2>1
  <2>3. Alone("watcher", f) \/ "raced" \in flaws'[f]
    BY <1>3
  <2>4. r.file = f
    OBVIOUS
  <2>5. Marked(f)' \/ disk[f] = Absent
    BY <2>2 DEF Marked, Marks
  <2>6. "watcher" \in Workers /\ UNCHANGED disk
    BY <1>0 DEF Workers, Heed, outer, around
  <2> HIDE DEF r, s
  <2> QED
    BY <1>2, <2>2, <2>3, <2>4, <2>5, <2>6, TurnTo
<1> QED
  BY <1>2, <1>3, <1>4, <1>5 DEF FilesInv, ShapeInv
-----------------------------------------------------------------------------
(* The file system.                                                          *)
LEMMA ChangeStep ==
  ASSUME FilesInv, NEW f \in Files, NEW c \in {Absent, Unfit, changes + 1},
         NEW kind \in ToldAs(c), Change(f, c, kind)
  PROVE  FilesInv'
<1> DEFINE s == IF Calm(f) /\ (c = Absent => kind = "remove")
                THEN flaws[f] \ {"missed"} ELSE flaws[f] \cup {"missed"}
<1>0. /\ DiskOK /\ FailsOK /\ WalksOK /\ InboxOK /\ WorkersOK /\ RowsOK /\ FlawsOK
      /\ UNCHANGED <<failures, walks, fresh, at, work, todo, tables, docs, chunks>>
      /\ disk' = [disk EXCEPT ![f] = c] /\ changes' = changes + 1 /\ changes < MaxChanges
      /\ Tell(f, kind) /\ Flaws(f, s)
  BY DEF FilesInv, ShapeInv, Change, index
<1>1. DiskOK'
  <2>1. changes + 1 \in 0..MaxChanges
    BY <1>0, FileIndexAssumption DEF DiskOK
  <2>2. c \in Texts \cup {Absent, Unfit}
    BY <2>1 DEF Texts
  <2> QED
    BY <1>0, <2>1, <2>2 DEF DiskOK
<1>2. FlawsOK' /\ flaws'[f] = s /\ \A g \in Files \ {f} : flaws'[g] = flaws[g]
  <2>1. s \in FlawSet
    BY <1>0 DEF FlawsOK, FlawSet
  <2> QED
    BY <1>0, <2>1, FlawsOf
<1>3. /\ InboxOK' /\ \A g \in Files \ {f} : Heard(g)
      /\ Calm(f) => ComesNext(f, kind)' /\ (Waiting(f, {"remove"})' => kind = "remove")
  <2>1. kind \in Kinds
    BY DEF Kinds, ToldAs
  <2> QED
    BY <1>0, <2>1, TellIt
<1>4. FailsOK' /\ WalksOK' /\ WorkersOK' /\ RowsOK'
  BY <1>0 DEF FailsOK, WalksOK, WorkersOK, RowsOK
<1>5. disk'[f] = c /\ \A g \in Files \ {f} : disk'[g] = disk[g]
  BY <1>0 DEF DiskOK
<1>6. ASSUME NEW g \in Files \ {f} PROVE FileInv(g)'
  <2>1. Kept(g) /\ Apart(g)
    BY <1>0, <1>2, <1>5 DEF Kept, Apart
  <2> QED
    BY <1>3, <2>1, Aside DEF FilesInv
<1>7. FileInv(f)'
  <2>1. TextInv(f)'
    <3>1. flaws'[f] \ {"missed"} = flaws[f] \ {"missed"}
      BY <1>2
    <3>2. /\ \A v \in Workers : /\ Touches(v, f)' <=> Touches(v, f)
                                /\ Replacing(v, f)' <=> Replacing(v, f)
                                /\ StageInv(v, f)' <=> StageInv(v, f)
          /\ FreshRows(f)' = FreshRows(f)
      BY <1>0, <3>1 DEF Touches, Replacing, StageInv, RowsDocs, RowsChunks, FreshRows
    <3> QED
      BY <1>0, <3>1, <3>2 DEF FilesInv, FileInv, TextInv
  <2>2. DiskInv(f)'
    <3>1. CASE Calm(f) /\ (c = Absent => kind = "remove")
      BY <1>3, <1>5, <3>1 DEF DiskInv, Told, ToldAs
    <3>2. CASE ~(Calm(f) /\ (c = Absent => kind = "remove"))
      BY <1>2, <3>2 DEF DiskInv, Marked, Marks
    <3> QED
      BY <3>1, <3>2
  <2> QED
    BY <2>1, <2>2 DEF FileInv
<1> QED
  BY <1>1, <1>2, <1>3, <1>4, <1>6, <1>7 DEF FilesInv, ShapeInv

LEMMA AccessStep ==
  ASSUME FilesInv, NEW f \in Files, Access(f)
  PROVE  FilesInv'
<1>0. ShapeInv /\ Tell(f, "other") /\ UNCHANGED <<disk, changes, walks, failures, fresh, at, work, todo, tables, docs, chunks, flaws>>
  BY DEF FilesInv, Access, around, outer, index
<1>1. InboxOK' /\ \A g \in Files : Heard(g)
  <2>1. "other" \in Kinds /\ InboxOK
    BY <1>0 DEF Kinds, ShapeInv
  <2> QED
    BY <1>0, <2>1, TellIt
<1>2. ShapeInv'
  BY <1>0, <1>1 DEF ShapeInv, DiskOK, FailsOK, WalksOK, WorkersOK, RowsOK, FlawsOK
<1>3. \A g \in Files : FileInv(g)'
  BY <1>0, <1>1, Still DEF FilesInv
<1> QED
  BY <1>2, <1>3 DEF FilesInv

LEMMA ElapseStep ==
  ASSUME FilesInv, NEW f \in Files, Elapse(f)
  PROVE  FilesInv'
<1>0. ShapeInv /\ fresh' = fresh \ {f} /\ UNCHANGED <<disk, changes, walks, failures, channel, at, work, todo, tables, docs, chunks, flaws>>
  BY DEF FilesInv, Elapse, around, outer, index
<1>1. ShapeInv'
  BY <1>0 DEF ShapeInv, DiskOK, FailsOK, WalksOK, WorkersOK, RowsOK, FlawsOK, InboxOK
<1>2. \A g \in Files : Heard(g)
  BY <1>0 DEF Heard, ComesNext, FirstIs, Waiting
<1>3. \A g \in Files : FileInv(g)'
  BY <1>0, <1>2, Still DEF FilesInv
<1> QED
  BY <1>1, <1>3 DEF FilesInv
-----------------------------------------------------------------------------
(* Steps of the reindex, and the start of the watcher, that change no rows.  *)
LEMMA NoRowsStep ==
  ASSUME FilesInv, NEW w \in Workers, NEW to, at[w] \notin Busy, to \notin Busy, to \in Stations(w),
         at' = [at EXCEPT ![w] = to], to \in Clearing => at[w] \in Clearing,
         UNCHANGED <<disk, changes, channel, fresh, work, docs, chunks, flaws>>,
         Failure \/ UNCHANGED failures, WalksOK', tables \subseteq tables', tables' \subseteq Both
  PROVE  FilesInv'
<1>0. ShapeInv
  BY DEF FilesInv
<1>1. work[w].file = None /\ work[w] \in Job
  BY <1>0, Station DEF ShapeInv
<1>2. WorkersOK' /\ Moves(w, to, work[w])
  <2>1. StandsAt(w, to, work[w])
    BY <1>1 DEF StandsAt
  <2> QED
    BY <1>0, <2>1, Move DEF ShapeInv
<1>3. ShapeInv'
  <2>1. FailsOK'
    BY <1>0, OneMoreFailure DEF ShapeInv
  <2>2. RowsOK'
    BY <1>0 DEF ShapeInv, RowsOK
  <2> QED
    BY <1>0, <1>2, <2>1, <2>2 DEF ShapeInv, DiskOK, InboxOK, FlawsOK
<1>4. ASSUME NEW f \in Files PROVE FileInv(f)'
  <2>1. Kept(f) /\ Heard(f)
    BY SameInbox DEF Kept, inbox
  <2>2. Apart(f)
    BY <1>1, <1>2, ApartFrom, FileIndexAssumption
  <2> QED
    BY <2>1, <2>2, Aside DEF FilesInv
<1> QED
  BY <1>3, <1>4 DEF FilesInv

LEMMA QuietSteps ==
  ASSUME FilesInv, Start \/ Ensure \/ List \/ Finish \/ \E f \in Files : SkipVisit(f)
  PROVE  FilesInv'
<1> USE DEF around, outer, inbox, index
<1>0. WalksOK /\ tables \subseteq Both /\ at \in [Workers -> Steps] /\ "watcher" \in Workers /\ "reindex" \in Workers
  BY DEF FilesInv, ShapeInv, RowsOK, WorkersOK, Workers
<1>1. \A s \in {"down", "idle", "list", "walk", "ensure"} : s \notin Busy
  BY DEF Busy, Handling, Inserting, Removing
<1>2. /\ "idle" \in Stations("watcher")
      /\ \A s \in {"idle", "list", "walk"} : s \in Stations("reindex") /\ s \notin Clearing
  BY DEF Stations, Clearing
<1>3. CASE Start
  <2>1. /\ at["watcher"] = "down" /\ at' = [at EXCEPT !["watcher"] = "idle"]
        /\ UNCHANGED <<disk, changes, walks, failures, channel, fresh, work, todo, docs, chunks, flaws>>
        /\ tables' = Both
    BY <1>3 DEF Start, Goto
  <2>2. WalksOK'
    BY <1>0, <2>1 DEF WalksOK
  <2> QED
    BY <1>0, <1>1, <1>2, <2>1, <2>2, NoRowsStep
<1>4. CASE Ensure
  <2>1. PICK to \in {"list", "idle"} :
          /\ at["reindex"] = "ensure" /\ at' = [at EXCEPT !["reindex"] = to]
          /\ UNCHANGED <<disk, changes, walks, channel, fresh, work, todo, docs, chunks, flaws>>
          /\ tables \subseteq tables' /\ tables' \subseteq Both /\ (Failure \/ UNCHANGED failures)
    BY <1>0, <1>4 DEF Ensure, Goto, Both
  <2>2. WalksOK'
    BY <1>0, <2>1 DEF WalksOK
  <2> QED
    BY <1>0, <1>1, <1>2, <2>1, <2>2, NoRowsStep
<1>5. CASE List
  <2>1. /\ at["reindex"] = "list" /\ at' = [at EXCEPT !["reindex"] = "walk"]
        /\ UNCHANGED <<disk, changes, walks, failures, channel, fresh, work, docs, chunks, flaws, tables>>
        /\ todo' \subseteq Files
    BY <1>5 DEF List, Goto
  <2>2. WalksOK'
    BY <1>0, <2>1 DEF WalksOK
  <2> QED
    BY <1>0, <1>1, <1>2, <2>1, <2>2, NoRowsStep
<1>6. CASE Finish
  <2>1. /\ at["reindex"] = "walk" /\ at' = [at EXCEPT !["reindex"] = "idle"]
        /\ UNCHANGED <<disk, changes, walks, failures, channel, fresh, work, todo, docs, chunks, flaws, tables>>
    BY <1>6 DEF Finish, Goto
  <2>2. WalksOK'
    BY <1>0, <2>1 DEF WalksOK
  <2> QED
    BY <1>0, <1>1, <1>2, <2>1, <2>2, NoRowsStep
<1>7. CASE \E f \in Files : SkipVisit(f)
  <2>1. /\ at["reindex"] = "walk" /\ at' = [at EXCEPT !["reindex"] = "walk"]
        /\ UNCHANGED <<disk, changes, walks, channel, fresh, work, docs, chunks, flaws, tables>>
        /\ todo' \subseteq todo /\ (Failure \/ UNCHANGED failures)
    BY <1>0, <1>7 DEF SkipVisit
  <2>2. WalksOK'
    BY <1>0, <2>1 DEF WalksOK
  <2> QED
    BY <1>0, <1>1, <1>2, <2>1, <2>2, NoRowsStep
<1> QED
  BY <1>3, <1>4, <1>5, <1>6, <1>7

(* The daemon or the reindex ends, wherever it stands.                       *)
LEMMA EndsAt ==
  ASSUME FilesInv, NEW w \in Workers, NEW f \in Files,
         NEW to \in {"idle", "down"}, Moves(w, to, NoWork),
         UNCHANGED <<disk, docs, chunks>>,
         flaws'[f] \ {"missed"} = Broken(w, f) \ {"missed"},
         "missed" \in flaws[f] => "missed" \in flaws'[f],
         Told(f) => Told(f)' \/ Marked(f)',
         Waiting(f, {"remove"})' => Waiting(f, {"remove"})
  PROVE  FileInv(f)'
<1>0. FileInv(f) /\ work'[w].file # f /\ \A v \in Workers \ {w} : work'[v] = work[v] /\ at'[v] = at[v]
  BY NoWorkIsJob, FileIndexAssumption DEF FilesInv, Moves
<1>1. /\ flaws[f] \subseteq flaws'[f]
      /\ "raced" \in flaws'[f] <=> "raced" \in flaws[f]
      /\ work[w].file = f => "failed" \in flaws'[f]
      /\ Replacing(w, f) => "stale docs" \in flaws'[f] /\ "stale chunks" \in flaws'[f]
      /\ ~Replacing(w, f) => ("stale docs" \in flaws'[f] <=> "stale docs" \in flaws[f])
      /\ ~Replacing(w, f) => ("stale chunks" \in flaws'[f] <=> "stale chunks" \in flaws[f])
  <2>1. \A x : x # "missed" => (x \in flaws'[f] <=> x \in Broken(w, f))
    OBVIOUS
  <2>2. \A x : x \in Broken(w, f) <=> \/ x \in flaws[f]
                                      \/ x = "failed" /\ work[w].file = f
                                      \/ x \in {"stale docs", "stale chunks"} /\ Replacing(w, f)
    BY DEF Broken
  <2>3. flaws[f] \subseteq flaws'[f]
    BY <2>1, <2>2
  <2>4. "raced" \in flaws'[f] <=> "raced" \in flaws[f]
    <3>1. "raced" \in flaws'[f] <=> "raced" \in Broken(w, f)
      BY <2>1
    <3>2. "raced" \in Broken(w, f) <=> "raced" \in flaws[f]
      BY DEF Broken
    <3> QED
      BY <3>1, <3>2
  <2>5. work[w].file = f => "failed" \in flaws'[f]
    BY <2>1, <2>2
  <2>6. Replacing(w, f) => "stale docs" \in flaws'[f] /\ "stale chunks" \in flaws'[f]
    BY <2>1, <2>2
  <2>7. /\ ~Replacing(w, f) => ("stale docs" \in flaws'[f] <=> "stale docs" \in flaws[f])
        /\ ~Replacing(w, f) => ("stale chunks" \in flaws'[f] <=> "stale chunks" \in flaws[f])
    BY <2>1, <2>2
  <2> QED
    BY <2>3, <2>4, <2>5, <2>6, <2>7
<1>2. \A v \in Workers : Touches(v, f)' => Touches(v, f)
  BY <1>0 DEF Touches, Moves, Clearing
<1>3. TextInv(f)'
  <2> SUFFICES ASSUME "raced" \notin flaws'[f]
               PROVE  /\ \A u, v \in Workers : Touches(u, f)' /\ Touches(v, f)' => u = v
                      /\ \A v \in Workers : work'[v].file = f => StageInv(v, f)'
                      /\ (\A v \in Workers : ~Replacing(v, f)') => \A x, y \in FreshRows(f)' : x = y
    BY DEF TextInv
  <2>0. /\ \A u, v \in Workers : Touches(u, f) /\ Touches(v, f) => u = v
        /\ \A v \in Workers : work[v].file = f => StageInv(v, f)
        /\ (\A v \in Workers : ~Replacing(v, f)) => \A x, y \in FreshRows(f) : x = y
    BY <1>0, <1>1 DEF FileInv, TextInv
  <2>1. ASSUME NEW v \in Workers, work'[v].file = f
        PROVE  StageInv(v, f)'
    <3>1. v # w /\ work[v].file = f /\ StageInv(v, f)
      BY <1>0, <2>0, <2>1
    <3> QED
      BY <1>0, <1>1, <3>1 DEF StageInv, RowsDocs, RowsChunks
  <2>2. ASSUME \A v \in Workers : ~Replacing(v, f)'
        PROVE  \A x, y \in FreshRows(f)' : x = y
    <3>1. CASE Replacing(w, f)
      BY <1>1, <3>1 DEF FreshRows
    <3>2. CASE ~Replacing(w, f)
      <4>1. \A v \in Workers : ~Replacing(v, f)
        BY <1>0, <2>2, <3>2 DEF Replacing
      <4>2. FreshRows(f)' = FreshRows(f)
        BY <1>1, <3>2 DEF FreshRows
      <4> QED
        BY <2>0, <4>1, <4>2
    <3> QED
      BY <3>1, <3>2
  <2> QED
    BY <1>2, <2>0, <2>1, <2>2
<1>4. DiskInv(f)'
  <2>1. "missed" \notin flaws'[f] /\ Waiting(f, {"remove"})' => disk'[f] = Absent
    BY <1>0 DEF FileInv, DiskInv
  <2>2. SUFFICES ASSUME ~Marked(f)'
                 PROVE  (Told(f) \/ Reading(f) \/ (\E v \in Workers : Doing(v, f)) \/ Match(f))'
    BY <2>1 DEF DiskInv
  <2>3. ~Marked(f) /\ work[w].file # f
    BY <1>1, <2>2 DEF Marked, Marks
  <2>4. Told(f) => Told(f)'
    BY <2>2
  <2>5. Reading(f) => Reading(f)'
    BY <1>0, <2>3 DEF Reading, Workers
  <2>6. \A v \in Workers : Doing(v, f) => Doing(v, f)'
    BY <1>0, <2>3 DEF Doing
  <2>7. Match(f) => Match(f)'
    <3>1. \A v \in Workers : Handles(v, f)' => Handles(v, f)
      BY <1>0 DEF Handles
    <3> QED
      BY <1>1, <3>1 DEF Match, Filed, Readable, RowsDocs, RowsChunks
  <2> QED
    BY <1>0, <2>3, <2>4, <2>5, <2>6, <2>7 DEF FileInv, DiskInv
<1> QED
  BY <1>3, <1>4 DEF FileInv

LEMMA StopStep ==
  ASSUME FilesInv, Stop
  PROVE  FilesInv'
<1>0. /\ DiskOK /\ FailsOK /\ WalksOK /\ InboxOK /\ WorkersOK /\ RowsOK /\ FlawsOK /\ "watcher" \in Workers
      /\ UNCHANGED <<disk, changes, walks, todo, tables, docs, chunks>> /\ Failure
      /\ at' = [at EXCEPT !["watcher"] = "down"] /\ work' = [work EXCEPT !["watcher"] = NoWork]
      /\ channel' = << >> /\ fresh' = {}
      /\ flaws' = [f \in Files |->
           Broken("watcher", f) \cup IF Waiting(f, {"change", "remove"}) THEN {"missed"} ELSE {}]
  BY DEF FilesInv, ShapeInv, Stop, around, index, Workers
<1>1. StandsAt("watcher", "down", NoWork)
  BY NoWorkIsJob DEF StandsAt, Stations, Busy, Handling, Inserting, Removing
<1>2. WorkersOK' /\ Moves("watcher", "down", NoWork)
  BY <1>0, <1>1, Move
<1>3. FailsOK'
  BY <1>0, OneMoreFailure
<1>4. InboxOK'
  <2>1. channel' \in Seq(FileEvent) /\ Len(channel') = 0
    BY <1>0
  <2> QED
    BY <1>0, <2>1, FileIndexAssumption DEF InboxOK
<1>5. FlawsOK'
  <2>1. \A f \in Files : Broken("watcher", f) \in FlawSet
    BY <1>0, BrokenType
  <2>2. \A f \in Files :
          Broken("watcher", f) \cup (IF Waiting(f, {"change", "remove"}) THEN {"missed"} ELSE {}) \in FlawSet
    BY <2>1 DEF FlawSet
  <2> QED
    BY <1>0, <2>2 DEF FlawsOK
<1>6. DiskOK' /\ WalksOK' /\ RowsOK'
  BY <1>0 DEF DiskOK, WalksOK, RowsOK
<1>7. ASSUME NEW f \in Files PROVE FileInv(f)'
  <2>1. flaws'[f] = Broken("watcher", f) \cup IF Waiting(f, {"change", "remove"}) THEN {"missed"} ELSE {}
    BY <1>0
  <2>2. flaws'[f] \ {"missed"} = Broken("watcher", f) \ {"missed"}
    BY <2>1
  <2>3. "missed" \in flaws[f] => "missed" \in flaws'[f]
    BY <2>1 DEF Broken
  <2>4. Told(f) => Marked(f)'
    <3>1. Told(f) => Waiting(f, {"change", "remove"})
      BY DEF Told, ComesNext, FirstIs, Waiting
    <3> QED
      BY <2>1, <3>1 DEF Marked, Marks
  <2>5. ~Waiting(f, {"remove"})'
    <3>1. DOMAIN channel' = {}
      BY <1>0
    <3> QED
      BY <3>1 DEF Waiting
  <2> QED
    BY <1>0, <1>2, <2>2, <2>3, <2>4, <2>5, EndsAt
<1> QED
  BY <1>2, <1>3, <1>4, <1>5, <1>6, <1>7 DEF FilesInv, ShapeInv

LEMMA AbortStep ==
  ASSUME FilesInv, Abort
  PROVE  FilesInv'
<1>0. /\ DiskOK /\ FailsOK /\ WalksOK /\ InboxOK /\ WorkersOK /\ RowsOK /\ FlawsOK /\ "reindex" \in Workers
      /\ UNCHANGED <<disk, changes, walks, channel, fresh, tables, docs, chunks>> /\ Failure
      /\ at' = [at EXCEPT !["reindex"] = "idle"] /\ work' = [work EXCEPT !["reindex"] = NoWork]
      /\ todo' = {} /\ flaws' = [f \in Files |-> Broken("reindex", f)]
  BY DEF FilesInv, ShapeInv, Abort, around, inbox, index, Workers
<1>1. StandsAt("reindex", "idle", NoWork)
  BY NoWorkIsJob DEF StandsAt, Stations, Busy, Handling, Inserting, Removing
<1>2. WorkersOK' /\ Moves("reindex", "idle", NoWork)
  BY <1>0, <1>1, Move
<1>3. FailsOK'
  BY <1>0, OneMoreFailure
<1>4. FlawsOK'
  BY <1>0, BrokenType DEF FlawsOK
<1>5. DiskOK' /\ WalksOK' /\ RowsOK' /\ InboxOK'
  BY <1>0 DEF DiskOK, WalksOK, RowsOK, InboxOK
<1>6. ASSUME NEW f \in Files PROVE FileInv(f)'
  <2>1. flaws'[f] = Broken("reindex", f)
    BY <1>0
  <2>2. "missed" \in flaws[f] => "missed" \in flaws'[f]
    BY <2>1 DEF Broken
  <2>3. Heard(f) /\ disk'[f] = disk[f]
    BY <1>0, SameInbox DEF inbox
  <2>4. Told(f) => Told(f)'
    BY <2>3 DEF Told, Heard
  <2>5. Waiting(f, {"remove"})' => Waiting(f, {"remove"})
    BY <2>3 DEF Heard
  <2> QED
    BY <1>0, <1>2, <2>1, <2>2, <2>4, <2>5, EndsAt
<1> QED
  BY <1>2, <1>3, <1>4, <1>5, <1>6 DEF FilesInv, ShapeInv

LEMMA StartReindexStep ==
  ASSUME FilesInv, NEW force \in BOOLEAN, StartReindex(force)
  PROVE  FilesInv'
<1> DEFINE to == IF force THEN "clear docs" ELSE "list"
<1>0. /\ DiskOK /\ FailsOK /\ WalksOK /\ InboxOK /\ WorkersOK /\ RowsOK /\ FlawsOK /\ "reindex" \in Workers
      /\ UNCHANGED <<disk, changes, failures, channel, fresh, work, todo, docs, chunks>>
      /\ at["reindex"] = "idle" /\ at' = [at EXCEPT !["reindex"] = to] /\ tables' = Both
      /\ walks < MaxWalks /\ walks' = walks + 1
      /\ flaws' = [f \in Files |->
           IF force /\ Touches("watcher", f) THEN flaws[f] \cup {"raced"} ELSE flaws[f]]
  BY DEF FilesInv, ShapeInv, StartReindex, Goto, inbox, Workers
<1>1. work["reindex"].file = None /\ work["reindex"] \in Job
  BY <1>0, Station DEF Busy, Handling, Inserting, Removing
<1>2. StandsAt("reindex", to, work["reindex"])
  BY <1>1 DEF StandsAt, Stations, Busy, Handling, Inserting, Removing, Clearing
<1>3. WorkersOK' /\ Moves("reindex", to, work["reindex"])
  BY <1>0, <1>2, Move
<1>4. WalksOK'
  <2>1. walks \in 0..MaxWalks /\ MaxWalks \in Nat /\ todo \subseteq Files
    BY <1>0, FileIndexAssumption DEF WalksOK
  <2>2. walks < MaxWalks /\ walks' = walks + 1 /\ todo' = todo
    BY <1>0
  <2>3. walks + 1 \in 0..MaxWalks
    BY <2>1, <2>2
  <2> QED
    BY <2>1, <2>2, <2>3 DEF WalksOK
<1>5. FlawsOK'
  <2>1. \A f \in Files : flaws[f] \in FlawSet /\ flaws[f] \cup {"raced"} \in FlawSet
    BY <1>0 DEF FlawsOK, FlawSet
  <2> QED
    BY <1>0, <2>1 DEF FlawsOK
<1>6. DiskOK' /\ FailsOK' /\ InboxOK' /\ RowsOK'
  BY <1>0 DEF DiskOK, FailsOK, InboxOK, RowsOK, Both
<1>7. ASSUME NEW f \in Files PROVE FileInv(f)'
  <2>0. /\ FileInv(f) /\ Heard(f) /\ flaws[f] \subseteq flaws'[f] /\ flaws'[f] \ {"raced"} = flaws[f] \ {"raced"}
        /\ work["reindex"].file # f /\ work' = work /\ at'["watcher"] = at["watcher"]
        /\ "raced" \notin flaws'[f] => "raced" \notin flaws[f] /\ (force => ~Touches("watcher", f))
        /\ Workers = {"watcher", "reindex"} /\ at'["reindex"] = to
    BY <1>0, <1>1, <1>3, SameInbox, FileIndexAssumption DEF FilesInv, inbox, Moves, Workers
  <2>1. TextInv(f)'
    <3>1. \A v \in Workers : Replacing(v, f)' <=> Replacing(v, f)
      BY <2>0 DEF Replacing
    <3>2. FreshRows(f)' = FreshRows(f)
      BY <1>0, <2>0 DEF FreshRows
    <3>3. \A v \in Workers : work'[v].file = f => (StageInv(v, f)' <=> StageInv(v, f))
      BY <1>0, <2>0, ZenonT(40) DEF StageInv, RowsDocs, RowsChunks
    <3>4. Touches("watcher", f)' <=> Touches("watcher", f)
      BY <2>0 DEF Touches
    <3>5. Touches("reindex", f)' => force
      BY <2>0 DEF Touches, Clearing
    <3>6. \A u, v \in Workers : "raced" \notin flaws'[f] /\ Touches(u, f)' /\ Touches(v, f)' => u = v
      BY <2>0, <3>4, <3>5
    <3> QED
      BY <2>0, <3>1, <3>2, <3>3, <3>6 DEF FileInv, TextInv
  <2>2. DiskInv(f)'
    <3>1. Told(f) => Told(f)'
      BY <1>0, <2>0 DEF Told, Heard
    <3>2. Reading(f) => Reading(f)'
      BY <1>0, <2>0 DEF Reading
    <3>3. \A v \in Workers : Doing(v, f) => Doing(v, f)'
      BY <1>0, <2>0 DEF Doing
    <3>4. Match(f) => Match(f)'
      <4>1. \A v \in Workers : Handles(v, f)' => Handles(v, f)
        BY <2>0 DEF Handles
      <4> QED
        BY <1>0, <2>0, <4>1 DEF Match, Filed, Readable, RowsDocs, RowsChunks
    <3>5. Marked(f) => Marked(f)'
      BY <2>0 DEF Marked
    <3>6. "missed" \in flaws'[f] <=> "missed" \in flaws[f]
      BY <2>0
    <3> QED
      BY <1>0, <2>0, <3>1, <3>2, <3>3, <3>4, <3>5, <3>6 DEF FileInv, DiskInv, Heard
  <2> QED
    BY <2>1, <2>2 DEF FileInv
<1> QED
  BY <1>3, <1>4, <1>5, <1>6, <1>7 DEF FilesInv, ShapeInv
-----------------------------------------------------------------------------
(* A reindex with force drops a table: the watcher works on no file that is  *)
(* not raced, and a file that is there has its rows still to come.           *)
LEMMA TableDropped ==
  ASSUME FilesInv, NEW f \in Files, NEW to \in {"clear chunks", "ensure"},
         at["reindex"] \in Clearing, Moves("reindex", to, work["reindex"]),
         UNCHANGED <<disk, channel, fresh>>,
         \/ docs'[f] = {}
         \/ docs'[f] = docs[f] /\ ("stale docs" \in flaws[f] => "stale docs" \in flaws'[f]),
         \/ chunks'[f] = {}
         \/ chunks'[f] = chunks[f] /\ ("stale chunks" \in flaws[f] => "stale chunks" \in flaws'[f]),
         \/ disk[f] = Absent /\ flaws'[f] \cap Marks = flaws[f] \cap Marks
         \/ "missed" \in flaws'[f] /\ ("raced" \in flaws[f] => "raced" \in flaws'[f])
         \/ disk[f] = Absent /\ docs'[f] = {} /\ chunks'[f] = {} /\ ~Touches("watcher", f)
  PROVE  FileInv(f)'
<1>0. /\ FileInv(f) /\ Heard(f) /\ disk'[f] = disk[f] /\ Workers = {"watcher", "reindex"}
      /\ work'["watcher"] = work["watcher"] /\ work'["reindex"] = work["reindex"]
      /\ at'["watcher"] = at["watcher"] /\ at'["reindex"] \in Clearing
  BY SameInbox DEF FilesInv, Workers, Moves, inbox, Clearing
<1>1. work["reindex"].file = None /\ None # f
  BY Station, FileIndexAssumption DEF FilesInv, ShapeInv, Workers, Busy, Handling, Inserting, Removing, Clearing
<1>2. "raced" \notin flaws'[f] => ~Touches("watcher", f)
  <2>1. "raced" \notin flaws[f] => ~Touches("watcher", f)
    <3>1. Touches("reindex", f)
      BY DEF Touches
    <3> QED
      BY <1>0, <3>1 DEF FileInv, TextInv
  <2> QED
    BY <2>1 DEF Marks
<1>3. /\ Touches("watcher", f)' <=> Touches("watcher", f)
      /\ ~Replacing("reindex", f)' /\ ~Replacing("reindex", f)
      /\ \A v \in Workers : Handles(v, f)' <=> Handles(v, f)
      /\ \A v \in Workers : Doing(v, f) => Doing(v, f)'
  BY <1>0, <1>1 DEF Touches, Replacing, Handles, Doing
<1>4. TextInv(f)'
  <2> SUFFICES ASSUME "raced" \notin flaws'[f]
               PROVE  /\ \A u, v \in Workers : Touches(u, f)' /\ Touches(v, f)' => u = v
                      /\ \A v \in Workers : work'[v].file = f => StageInv(v, f)'
                      /\ \A x, y \in FreshRows(f)' : x = y
    BY DEF TextInv
  <2>1. ~Touches("watcher", f)'
    BY <1>2, <1>3
  <2>2. \A v \in Workers : work'[v].file = f => StageInv(v, f)'
    <3>1. work'["reindex"].file # f
      BY <1>0, <1>1
    <3>2. work'["watcher"].file = f => StageInv("watcher", f)'
      BY <2>1 DEF Touches, StageInv, Inserting, Removing
    <3> QED
      BY <1>0, <3>1, <3>2
  <2>3. \A x, y \in FreshRows(f)' : x = y
    <3>1. CASE docs'[f] = {} /\ chunks'[f] = {}
      BY <3>1 DEF FreshRows
    <3>2. CASE "raced" \notin flaws[f]
      <4>1. ~Replacing("watcher", f)
        BY <1>2 DEF Replacing, Touches, Inserting
      <4>2. \A x, y \in FreshRows(f) : x = y
        BY <1>0, <1>3, <3>2, <4>1 DEF FileInv, TextInv
      <4>3. FreshRows(f)' \subseteq FreshRows(f)
        BY DEF FreshRows
      <4> QED
        BY <4>2, <4>3
    <3> QED
      BY <3>1, <3>2 DEF Marks
  <2> QED
    BY <1>0, <2>1, <2>2, <2>3
<1>5. DiskInv(f)'
  <2>1. CASE disk[f] = Absent /\ flaws'[f] \cap Marks = flaws[f] \cap Marks
    <3>1. Told(f) => Told(f)'
      BY <1>0 DEF Told, Heard
    <3>2. Reading(f) => Reading(f)'
      BY <1>0 DEF Reading
    <3>3. Match(f) => Match(f)'
      <4>1. RowsDocs(f, {}) => RowsDocs(f, {})'
        BY DEF RowsDocs
      <4>2. RowsChunks(f, {}) => RowsChunks(f, {})'
        BY DEF RowsChunks
      <4>3. Absent \notin Texts
        BY AbsentIsNoText
      <4> QED
        BY <1>0, <1>3, <2>1, <4>1, <4>2, <4>3, FileIndexAssumption DEF Match, Filed, Readable, Texts
    <3>4. Marked(f)' <=> Marked(f)
      BY <2>1 DEF Marked
    <3> QED
      BY <1>0, <1>3, <2>1, <3>1, <3>2, <3>3, <3>4 DEF FileInv, DiskInv
  <2>2. CASE "missed" \in flaws'[f]
    BY <2>2 DEF DiskInv, Marked, Marks
  <2>3. CASE disk[f] = Absent /\ docs'[f] = {} /\ chunks'[f] = {} /\ ~Touches("watcher", f)
    <3>1. RowsDocs(f, {})' /\ RowsChunks(f, {})'
      BY <2>3 DEF RowsDocs, RowsChunks
    <3>2. ~Readable(f)' /\ disk'[f] = Absent
      <4>1. Absent \notin Texts
        BY AbsentIsNoText
      <4> QED
        BY <1>0, <2>3, <4>1 DEF Readable, Texts
    <3>3. \A v \in Workers : ~Handles(v, f)'
      BY <1>0, <1>1, <2>3 DEF Handles, Touches, Handling
    <3>4. Match(f)'
      BY <3>1, <3>2, <3>3 DEF Match, Filed
    <3> QED
      BY <3>2, <3>4 DEF DiskInv
  <2> QED
    BY <2>1, <2>2, <2>3
<1> QED
  BY <1>4, <1>5 DEF FileInv

LEMMA DropDocsStep ==
  ASSUME FilesInv, DropDocs
  PROVE  FilesInv'
<1>0. /\ DiskOK /\ FailsOK /\ WalksOK /\ InboxOK /\ WorkersOK /\ RowsOK /\ FlawsOK /\ "reindex" \in Workers
      /\ UNCHANGED <<disk, changes, walks, channel, fresh, work, todo, chunks>>
      /\ at["reindex"] = "clear docs" /\ at' = [at EXCEPT !["reindex"] = "clear chunks"]
      /\ Failure \/ UNCHANGED failures
  BY DEF FilesInv, ShapeInv, DropDocs, Goto, around, inbox, Workers
<1>1. work["reindex"].file = None /\ work["reindex"] \in Job
  BY <1>0, Station DEF Busy, Handling, Inserting, Removing
<1>2. StandsAt("reindex", "clear chunks", work["reindex"])
  BY <1>1 DEF StandsAt, Stations, Busy, Handling, Inserting, Removing, Clearing
<1>3. WorkersOK' /\ Moves("reindex", "clear chunks", work["reindex"])
  BY <1>0, <1>2, Move
<1>4. FailsOK' /\ DiskOK' /\ WalksOK' /\ InboxOK'
  BY <1>0, OneMoreFailure DEF DiskOK, WalksOK, InboxOK
<1>5. CASE UNCHANGED <<tables, docs, flaws>>
  <2>1. RowsOK' /\ FlawsOK'
    BY <1>0, <1>5 DEF RowsOK, FlawsOK
  <2>2. ASSUME NEW f \in Files PROVE FileInv(f)'
    <3>1. Kept(f) /\ Heard(f)
      BY <1>0, <1>5, SameInbox DEF Kept, inbox
    <3>2. Apart(f)
      BY <1>0, <1>1, <1>3, ApartFrom, FileIndexAssumption DEF Clearing
    <3> QED
      BY <3>1, <3>2, Aside DEF FilesInv
  <2> QED
    BY <1>3, <1>4, <2>1, <2>2 DEF FilesInv, ShapeInv
<1>6. CASE /\ tables' = tables \ {"docs"} /\ docs' = [f \in Files |-> {}]
           /\ flaws' = [f \in Files |-> (flaws[f] \ {"stale docs"}) \cup Missing(f)]
  <2>1. RowsOK'
    BY <1>0, <1>6 DEF RowsOK
  <2>2. FlawsOK'
    <3>1. \A f \in Files : (flaws[f] \ {"stale docs"}) \cup Missing(f) \in FlawSet
      BY <1>0 DEF FlawsOK, FlawSet, Missing
    <3> QED
      BY <1>6, <3>1 DEF FlawsOK
  <2>3. ASSUME NEW f \in Files PROVE FileInv(f)'
    <3>1. docs'[f] = {} /\ flaws'[f] = (flaws[f] \ {"stale docs"}) \cup Missing(f)
      BY <1>6
    <3>2. chunks'[f] = chunks[f] /\ ("stale chunks" \in flaws[f] => "stale chunks" \in flaws'[f])
      BY <1>0, <3>1
    <3>3. \/ disk[f] = Absent /\ flaws'[f] \cap Marks = flaws[f] \cap Marks
          \/ "missed" \in flaws'[f] /\ ("raced" \in flaws[f] => "raced" \in flaws'[f])
      BY <3>1 DEF Missing, Marks
    <3>4. at["reindex"] \in Clearing
      BY <1>0 DEF Clearing
    <3> QED
      BY <1>0, <1>3, <3>1, <3>2, <3>3, <3>4, TableDropped
  <2> QED
    BY <1>3, <1>4, <2>1, <2>2, <2>3 DEF FilesInv, ShapeInv
<1> QED
  BY <1>5, <1>6 DEF DropDocs

LEMMA DropChunksStep ==
  ASSUME FilesInv, DropChunks
  PROVE  FilesInv'
<1>0. /\ DiskOK /\ FailsOK /\ WalksOK /\ InboxOK /\ WorkersOK /\ RowsOK /\ FlawsOK /\ "reindex" \in Workers
      /\ UNCHANGED <<disk, changes, walks, channel, fresh, work, todo, docs>>
      /\ at["reindex"] = "clear chunks" /\ at' = [at EXCEPT !["reindex"] = "ensure"]
      /\ Failure \/ UNCHANGED failures
  BY DEF FilesInv, ShapeInv, DropChunks, Goto, around, inbox, Workers
<1>1. work["reindex"].file = None /\ work["reindex"] \in Job
  BY <1>0, Station DEF Busy, Handling, Inserting, Removing
<1>2. StandsAt("reindex", "ensure", work["reindex"])
  BY <1>1 DEF StandsAt, Stations, Busy, Handling, Inserting, Removing, Clearing
<1>3. WorkersOK' /\ Moves("reindex", "ensure", work["reindex"])
  BY <1>0, <1>2, Move
<1>4. FailsOK' /\ DiskOK' /\ WalksOK' /\ InboxOK'
  BY <1>0, OneMoreFailure DEF DiskOK, WalksOK, InboxOK
<1>5. CASE UNCHANGED <<tables, chunks, flaws>>
  <2>1. RowsOK' /\ FlawsOK'
    BY <1>0, <1>5 DEF RowsOK, FlawsOK
  <2>2. ASSUME NEW f \in Files PROVE FileInv(f)'
    <3>1. Kept(f) /\ Heard(f)
      BY <1>0, <1>5, SameInbox DEF Kept, inbox
    <3>2. Apart(f)
      BY <1>0, <1>1, <1>3, ApartFrom, FileIndexAssumption DEF Clearing
    <3> QED
      BY <3>1, <3>2, Aside DEF FilesInv
  <2> QED
    BY <1>3, <1>4, <2>1, <2>2 DEF FilesInv, ShapeInv
<1>6. CASE /\ tables' = tables \ {"chunks"} /\ chunks' = [f \in Files |-> {}]
           /\ flaws' = [f \in Files |->
                IF "docs" \notin tables /\ disk[f] = Absent /\ ~Touches("watcher", f)
                THEN {} ELSE (flaws[f] \ {"stale chunks"}) \cup Missing(f)]
  <2>1. RowsOK'
    BY <1>0, <1>6 DEF RowsOK
  <2>2. FlawsOK'
    <3>1. \A f \in Files : {} \in FlawSet /\ (flaws[f] \ {"stale chunks"}) \cup Missing(f) \in FlawSet
      BY <1>0 DEF FlawsOK, FlawSet, Missing
    <3> QED
      BY <1>6, <3>1 DEF FlawsOK
  <2>3. ASSUME NEW f \in Files PROVE FileInv(f)'
    <3>0. chunks'[f] = {} /\ docs'[f] = docs[f] /\ at["reindex"] \in Clearing
      BY <1>0, <1>6 DEF Clearing
    <3>1. CASE "docs" \notin tables /\ disk[f] = Absent /\ ~Touches("watcher", f)
      <4>1. docs[f] = {}
        BY <1>0, <3>1 DEF RowsOK
      <4> QED
        BY <1>0, <1>3, <3>0, <3>1, <4>1, TableDropped
    <3>2. CASE ~("docs" \notin tables /\ disk[f] = Absent /\ ~Touches("watcher", f))
      <4>1. flaws'[f] = (flaws[f] \ {"stale chunks"}) \cup Missing(f)
        BY <1>6, <3>2
      <4>2. "stale docs" \in flaws[f] => "stale docs" \in flaws'[f]
        BY <4>1
      <4>3. \/ disk[f] = Absent /\ flaws'[f] \cap Marks = flaws[f] \cap Marks
            \/ "missed" \in flaws'[f] /\ ("raced" \in flaws[f] => "raced" \in flaws'[f])
        BY <4>1 DEF Missing, Marks
      <4> QED
        BY <1>0, <1>3, <3>0, <4>2, <4>3, TableDropped
    <3> QED
      BY <3>1, <3>2
  <2> QED
    BY <1>3, <1>4, <2>1, <2>2, <2>3 DEF FilesInv, ShapeInv
<1> QED
  BY <1>5, <1>6 DEF DropChunks
-----------------------------------------------------------------------------
LEMMA AtMostOne ==
  ASSUME NEW S, \A x, y \in S : x = y
  PROVE  Cardinality(S) <= 1
<1>1. CASE S = {}
  <2>1. Cardinality(S) = 0
    BY <1>1, FS_EmptySet
  <2> QED
    BY <2>1
<1>2. CASE S # {}
  <2>1. PICK x \in S : TRUE
    BY <1>2
  <2>2. S = {x}
    BY <2>1
  <2>3. Cardinality(S) = 1
    BY <2>2, FS_Singleton
  <2> QED
    BY <2>3
<1> QED
  BY <1>1, <1>2

LEMMA FilesStart == FilesInit => FilesInv
<1> SUFFICES ASSUME FilesInit PROVE FilesInv
  OBVIOUS
<1>0. /\ disk \in [Files -> {0, Absent}] /\ changes = 0 /\ failures = 0 /\ walks = 0
      /\ channel = << >> /\ fresh = {} /\ todo = {} /\ tables = Both
      /\ at = [w \in Workers |-> IF w = "watcher" THEN "down" ELSE "idle"]
      /\ work = [w \in Workers |-> NoWork]
      /\ docs = [f \in Files |-> {}] /\ chunks = [f \in Files |-> {}]
      /\ flaws = [f \in Files |-> IF disk[f] = Absent THEN {} ELSE {"missed"}]
  BY DEF FilesInit
<1>1. DiskOK /\ FailsOK /\ WalksOK
  BY <1>0, ZeroIsText, FileIndexAssumption DEF DiskOK, FailsOK, WalksOK
<1>2. InboxOK
  BY <1>0, FileIndexAssumption DEF InboxOK
<1>3. WorkersOK
  <2>1. \A w \in Workers : StandsAt(w, at[w], work[w])
    BY <1>0, NoWorkIsJob DEF StandsAt, Stations, Busy, Handling, Inserting, Removing, Workers
  <2> QED
    BY <1>0, <2>1, NoWorkIsJob DEF WorkersOK, Steps
<1>4. RowsOK /\ FlawsOK
  BY <1>0 DEF RowsOK, FlawsOK, FlawSet
<1>5. ASSUME NEW f \in Files PROVE FileInv(f)
  <2>0. /\ docs[f] = {} /\ chunks[f] = {}
        /\ \A w \in Workers : work[w].file # f /\ at[w] \in {"down", "idle"}
        /\ flaws[f] = IF disk[f] = Absent THEN {} ELSE {"missed"}
    BY <1>0, NoWorkIsJob, FileIndexAssumption
  <2>1. \A w \in Workers : ~Touches(w, f) /\ ~Handles(w, f)
    BY <2>0 DEF Touches, Handles, Clearing
  <2>2. TextInv(f)
    BY <2>0, <2>1 DEF TextInv, FreshRows
  <2>3. ~Waiting(f, {"remove"})
    <3>1. DOMAIN channel = {}
      BY <1>0
    <3> QED
      BY <3>1 DEF Waiting
  <2>4. disk[f] = Absent => Match(f)
    <3>1. Absent \notin Texts
      BY AbsentIsNoText
    <3> QED
      BY <2>0, <2>1, <3>1 DEF Match, Filed, RowsDocs, RowsChunks, Readable
  <2>5. disk[f] # Absent => Marked(f)
    BY <2>0 DEF Marked, Marks
  <2> QED
    BY <2>2, <2>3, <2>4, <2>5 DEF FileInv, DiskInv
<1> QED
  BY <1>1, <1>2, <1>3, <1>4, <1>5 DEF FilesInv, ShapeInv

LEMMA FilesStep == FilesInv /\ [FilesNext]_fileVars => FilesInv'
<1> SUFFICES ASSUME FilesInv, [FilesNext]_fileVars PROVE FilesInv'
  OBVIOUS
<1>1. ASSUME NEW w \in Workers, Insert(w) PROVE FilesInv'
  BY <1>1, ResetDocsStep, ResetChunksStep, InsertDocStep, InsertChunkStep, FailInsertStep DEF Insert
<1>2. CASE Watch
  <2>1. "watcher" \in Workers
    BY DEF Workers
  <2>2. HeedOther \/ HeedChange => FilesInv'
    <3>1. HeedOther => FilesInv'
      BY HeedSoft DEF HeedOther
    <3>2. HeedChange => FilesInv'
      BY HeedSoft DEF HeedChange
    <3> QED
      BY <3>1, <3>2
  <2> QED
    BY <1>1, <1>2, <2>1, <2>2, IgnoreStep, HeedRemoveStep, ReadStep, SkipReadStep, RemoveDocsStep, RemoveChunksStep,
       FailRemoveStep DEF Watch
<1>3. CASE Walk
  <2>1. "reindex" \in Workers
    BY DEF Workers
  <2> QED
    BY <1>1, <1>3, <2>1, DropDocsStep, DropChunksStep, QuietSteps, VisitStep DEF Walk
<1>4. CASE UNCHANGED fileVars
  <2>1. UNCHANGED <<disk, changes, failures, walks, channel, fresh, at, work, todo, tables, docs, chunks, flaws>>
    BY <1>4 DEF fileVars
  <2>2. ShapeInv'
    BY <2>1 DEF FilesInv, ShapeInv, DiskOK, FailsOK, WalksOK, InboxOK, WorkersOK, RowsOK, FlawsOK
  <2>3. \A f \in Files : FileInv(f)'
    BY <2>1, SameInbox, Still DEF FilesInv, inbox
  <2> QED
    BY <2>2, <2>3 DEF FilesInv
<1> QED
  BY <1>2, <1>3, <1>4, ChangeStep, AccessStep, ElapseStep, QuietSteps, StopStep, AbortStep, StartReindexStep
  DEF FilesNext
-----------------------------------------------------------------------------
LEMMA FilesInvariant == FilesSpec => []FilesInv
  BY FilesStart, FilesStep, PTL DEF FilesSpec

(* Every variable of the file index keeps its shape.                         *)
THEOREM FilesTypeCorrect == FilesSpec => []FilesTypeOK
<1>1. FilesInv => FilesTypeOK
  BY ShapeIsType DEF FilesInv
<1> QED
  BY <1>1, FilesInvariant, PTL

(* However watcher, reindex, failures and restarts interleave, the rows of a *)
(* file on which they did not meet, and whose old rows were deleted, are of  *)
(* one text (insert_document deletes before it inserts, table by table).     *)
THEOREM RowsAreOfOneText == FilesSpec => []IndexIsOfOneText
<1>1. FilesInv => IndexIsOfOneText
  <2> SUFFICES ASSUME FilesInv, NEW f \in Files, \A w \in Workers : ~Replacing(w, f),
                      flaws[f] \cap {"raced", "stale docs", "stale chunks"} = {}
               PROVE  Cardinality(docs[f] \cup chunks[f]) <= 1
    BY DEF IndexIsOfOneText
  <2>1. "raced" \notin flaws[f] /\ FreshRows(f) = docs[f] \cup chunks[f]
    BY DEF FreshRows
  <2>2. \A x, y \in docs[f] \cup chunks[f] : x = y
    BY <2>1 DEF FilesInv, FileInv, TextInv
  <2> QED
    BY <2>2, AtMostOne
<1> QED
  BY <1>1, FilesInvariant, PTL

(* When nothing is left to do for a file about which nothing went wrong, its *)
(* rows hold what is on the disk (FileIndexer::handle_event, index_file).    *)
THEOREM IndexFollowsTheDisk == FilesSpec => []IndexFollowsDisk
<1>1. FilesInv => IndexFollowsDisk
  <2> SUFFICES ASSUME FilesInv, NEW f \in Files, Settled(f), flaws[f] = {}
               PROVE  /\ disk[f] = Absent => docs[f] = {} /\ chunks[f] = {}
                      /\ Readable(f) => docs[f] = {disk[f]} /\ chunks[f] = {disk[f]}
    BY DEF IndexFollowsDisk
  <2>1. ~Marked(f)
    BY DEF Marked
  <2>2. ~Told(f)
    BY DEF Settled, Told, ComesNext, FirstIs, Waiting
  <2>3. ~Reading(f) /\ \A w \in Workers : ~Doing(w, f)
    BY DEF Settled, Reading, Doing, Workers
  <2>4. Match(f)
    BY <2>1, <2>2, <2>3 DEF FilesInv, FileInv, DiskInv
  <2>5. Unfit # Absent /\ (Readable(f) => disk[f] # Unfit)
    BY FileIndexAssumption DEF Readable, Texts
  <2> QED
    BY <2>4, <2>5 DEF Match, Filed, RowsDocs, RowsChunks
<1> QED
  BY <1>1, FilesInvariant, PTL
-----------------------------------------------------------------------------
(* Why the watcher works off what it was told, but for the fairness that     *)
(* lets it go on.  How many steps the file it works on takes at most.        *)
StepsLeft == [stop \in Steps |->
  CASE stop = "read"                       -> 5
    [] stop = "reset docs"                 -> 4
    [] stop = "reset chunks"               -> 3
    [] stop \in {"doc", "remove docs"}     -> 2
    [] stop \in {"chunk", "remove chunks"} -> 1
    [] OTHER                               -> 0]

Burden == 6 * Len(channel) + StepsLeft[at["watcher"]]

(* Every step of the watcher, also one that fails, takes some of its work    *)
(* from it and leaves it running; only a new event adds to its work.         *)
WatcherWorksOff ==
  [][/\ Watch => Burden' < Burden /\ at'["watcher"] # "down"
     /\ Burden' <= Burden \/ Len(channel') > Len(channel)]_fileVars

LEMMA StepsLeftIsNumber == StepsLeft \in [Steps -> Nat]
  BY DEF StepsLeft

LEMMA FewerStepsLeft ==
  /\ StepsLeft["doc"] < StepsLeft["reset docs"] /\ StepsLeft["doc"] < StepsLeft["reset chunks"]
  /\ StepsLeft["reset chunks"] < StepsLeft["reset docs"]
  /\ StepsLeft["chunk"] < StepsLeft["doc"] /\ StepsLeft["idle"] < StepsLeft["chunk"]
  /\ StepsLeft["idle"] < StepsLeft["doc"] /\ StepsLeft["reset docs"] < StepsLeft["read"]
  /\ StepsLeft["idle"] < StepsLeft["read"] /\ StepsLeft["remove chunks"] < StepsLeft["remove docs"]
  /\ StepsLeft["idle"] < StepsLeft["remove docs"] /\ StepsLeft["idle"] < StepsLeft["remove chunks"]
  BY DEF StepsLeft, Steps, Inserting, Removing, Clearing

LEMMA NoStepsLeft == StepsLeft["idle"] = 0 /\ StepsLeft["down"] = 0
  BY DEF StepsLeft, Steps

LEMMA OneEventIsMore ==
  /\ StepsLeft["idle"] < StepsLeft["idle"] + 6 /\ StepsLeft["read"] < StepsLeft["idle"] + 6
  /\ StepsLeft["remove docs"] < StepsLeft["idle"] + 6
  BY DEF StepsLeft, Steps, Inserting, Removing, Clearing

\* What a step of the watcher that takes no event may be.
NextStop(from, to) ==
  \/ from = "reset docs" /\ to \in {"reset chunks", "doc"}
  \/ from = "reset chunks" /\ to = "doc"
  \/ from = "doc" /\ to \in {"chunk", "idle"}
  \/ from = "chunk" /\ to = "idle"
  \/ from = "read" /\ to \in {"reset docs", "idle"}
  \/ from = "remove docs" /\ to \in {"remove chunks", "idle"}
  \/ from = "remove chunks" /\ to = "idle"

LEMMA NextStopIsCloser ==
  ASSUME NEW from, NEW to, NextStop(from, to)
  PROVE  StepsLeft[to] < StepsLeft[from] /\ to \in Steps /\ to # "down"
<1>1. to \in Steps /\ to # "down"
  BY DEF NextStop, Steps, Inserting, Removing, Clearing
<1>2. StepsLeft[to] < StepsLeft[from]
  BY FewerStepsLeft, Zenon DEF NextStop
<1> QED
  BY <1>1, <1>2

\* The arithmetic of it, with lengths and steps as numbers.
LEMMA BurdenOf ==
  ASSUME FilesTypeOK, FilesTypeOK'
  PROVE  \E m, n, x, y \in Nat :
           /\ m = Len(channel) /\ n = Len(channel')
           /\ x = StepsLeft[at["watcher"]] /\ y = StepsLeft[at'["watcher"]]
           /\ Burden = 6 * m + x /\ Burden' = 6 * n + y
<1>1. "watcher" \in Workers
  BY DEF Workers
<1>2. StepsLeft[at["watcher"]] \in Nat /\ StepsLeft[at'["watcher"]] \in Nat
  BY <1>1, StepsLeftIsNumber DEF FilesTypeOK
<1>3. Len(channel) \in Nat /\ Len(channel') \in Nat
  <2>1. channel \in Seq(FileEvent) /\ channel' \in Seq(FileEvent)
    BY DEF FilesTypeOK, FileEvent
  <2> QED
    BY <2>1
<1>4. Burden = 6 * Len(channel) + StepsLeft[at["watcher"]]
  BY DEF Burden
<1>5. Burden' = 6 * Len(channel') + StepsLeft[at'["watcher"]]
  BY DEF Burden
<1> QED
  BY <1>2, <1>3, <1>4, <1>5

LEMMA TakesAway ==
  ASSUME FilesTypeOK, FilesTypeOK',
         \/ UNCHANGED channel /\ StepsLeft[at'["watcher"]] < StepsLeft[at["watcher"]]
         \/ NextEvent /\ StepsLeft[at'["watcher"]] < StepsLeft[at["watcher"]] + 6
  PROVE  Burden' < Burden
<1>1. PICK m \in Nat, n \in Nat, x \in Nat, y \in Nat :
           /\ m = Len(channel) /\ n = Len(channel')
           /\ x = StepsLeft[at["watcher"]] /\ y = StepsLeft[at'["watcher"]]
           /\ Burden = 6 * m + x /\ Burden' = 6 * n + y
  BY BurdenOf
<1>2. CASE UNCHANGED channel /\ StepsLeft[at'["watcher"]] < StepsLeft[at["watcher"]]
  <2>1. n = m /\ y < x
    BY <1>1, <1>2
  <2> QED
    BY <1>1, <2>1
<1>3. CASE NextEvent /\ StepsLeft[at'["watcher"]] < StepsLeft[at["watcher"]] + 6
  <2>1. n = m - 1
    <3>1. channel \in Seq(FileEvent) /\ channel # << >> /\ channel' = Tail(channel)
      BY <1>3 DEF FilesTypeOK, NextEvent, FileEvent
    <3> QED
      BY <1>1, <3>1
  <2>2. y < x + 6
    BY <1>1, <1>3
  <2>3. 6 * n + y < 6 * m + x
    BY <2>1, <2>2
  <2> QED
    BY <1>1, <2>3
<1> QED
  BY <1>2, <1>3

LEMMA WatchWorksOff ==
  ASSUME FilesTypeOK, FilesTypeOK', Watch
  PROVE  Burden' < Burden /\ at'["watcher"] # "down"
<1> DEFINE s == at["watcher"]
           t == at'["watcher"]
<1>1. "watcher" \in Workers /\ at \in [Workers -> Steps]
  BY DEF Workers, FilesTypeOK
<1>2. ASSUME UNCHANGED channel, NextStop(s, t) PROVE Burden' < Burden /\ t # "down"
  BY <1>2, NextStopIsCloser, TakesAway
<1>3. ASSUME NextEvent, s = "idle", t \in {"idle", "read", "remove docs"}
      PROVE  Burden' < Burden /\ t # "down"
  BY <1>3, OneEventIsMore, TakesAway
<1>4. CASE Insert("watcher")
  <2>1. CASE ResetDocs("watcher") \/ ResetChunks("watcher") \/ InsertDoc("watcher")
    BY <1>1, <1>2, <2>1 DEF ResetDocs, ResetChunks, InsertDoc, Goto, NextStop, inbox, outer
  <2>2. CASE InsertChunk("watcher") \/ FailInsert("watcher")
    BY <1>1, <1>2, <2>2 DEF InsertChunk, FailInsert, Leave, Onward, AfterError, Goto, NextStop, inbox
  <2> QED
    BY <1>4, <2>1, <2>2 DEF Insert
<1>5. CASE Ignore \/ HeedOther \/ HeedChange \/ HeedRemove
  <2>1. NextEvent /\ s = "idle"
    BY <1>5 DEF Ignore, HeedOther, HeedChange, HeedRemove, Heed, Goto
  <2>2. t \in {"idle", "read", "remove docs"}
    BY <1>1, <1>5 DEF Ignore, HeedOther, HeedChange, HeedRemove, Heed, Goto
  <2> QED
    BY <1>3, <2>1, <2>2
<1>6. CASE Read \/ SkipRead
  BY <1>1, <1>2, <1>6 DEF Read, SkipRead, Take, Leave, Onward, Goto, NextStop, inbox
<1>7. CASE RemoveDocs \/ RemoveChunks \/ FailRemove
  BY <1>1, <1>2, <1>7 DEF RemoveDocs, RemoveChunks, FailRemove, Leave, Onward, Goto, NextStop, inbox
<1> QED
  BY <1>4, <1>5, <1>6, <1>7 DEF Watch

LEMMA NobodyAddsWork ==
  ASSUME FilesTypeOK, FilesTypeOK', [FilesNext]_fileVars, ~Watch
  PROVE  Burden' <= Burden \/ Len(channel') > Len(channel)
<1>1. /\ "watcher" \in Workers /\ "reindex" \in Workers /\ "watcher" # "reindex"
      /\ at \in [Workers -> Steps]
  BY DEF Workers, FilesTypeOK
<1>2. PICK m \in Nat, n \in Nat, x \in Nat, y \in Nat :
           /\ m = Len(channel) /\ n = Len(channel')
           /\ x = StepsLeft[at["watcher"]] /\ y = StepsLeft[at'["watcher"]]
           /\ Burden = 6 * m + x /\ Burden' = 6 * n + y
  BY BurdenOf
<1>3. ASSUME at'["watcher"] = at["watcher"], UNCHANGED channel \/ Len(channel') > Len(channel)
      PROVE  Burden' <= Burden \/ Len(channel') > Len(channel)
  <2>1. x = y /\ (n = m \/ Len(channel') > Len(channel))
    BY <1>2, <1>3
  <2> QED
    BY <1>2, <2>1
<1>4. ASSUME NEW f, NEW kind, Tell(f, kind) PROVE UNCHANGED channel \/ Len(channel') > Len(channel)
  <2>1. UNCHANGED channel \/ channel' = Append(channel, [file |-> f, kind |-> kind])
    BY <1>4 DEF Tell
  <2>2. channel \in Seq([file : Files, kind : Kinds]) /\ channel' \in Seq([file : Files, kind : Kinds])
    BY DEF FilesTypeOK
  <2>3. Len(Append(channel, [file |-> f, kind |-> kind])) = Len(channel) + 1
    BY <2>2
  <2> QED
    BY <1>2, <2>1, <2>3
<1>5. CASE \E f \in Files : Access(f) \/ Elapse(f)
                            \/ \E c \in {Absent, Unfit, changes + 1} :
                                 \E kind \in ToldAs(c) : Change(f, c, kind)
  <2>1. UNCHANGED at
    BY <1>5 DEF Access, Elapse, Change
  <2>2. UNCHANGED channel \/ \E f, kind : Tell(f, kind)
    BY <1>5, Zenon DEF Access, Elapse, Change
  <2> QED
    BY <1>3, <1>4, <2>1, <2>2
<1>6. CASE Start
  <2>1. at["watcher"] = "down" /\ at'["watcher"] = "idle" /\ UNCHANGED channel
    BY <1>1, <1>6 DEF Start, Goto, inbox
  <2>2. x = 0 /\ y = 0 /\ n = m
    BY <1>2, <2>1, NoStepsLeft
  <2> QED
    BY <1>2, <2>2
<1>7. CASE Stop
  <2>1. at'["watcher"] = "down" /\ channel' = << >>
    BY <1>1, <1>7 DEF Stop
  <2>2. y = 0 /\ n = 0
    BY <1>2, <2>1, NoStepsLeft
  <2> QED
    BY <1>2, <2>2
<1>8. CASE Abort \/ \E force \in BOOLEAN : StartReindex(force)
  <2>1. at'["watcher"] = at["watcher"] /\ UNCHANGED channel
    BY <1>1, <1>8 DEF Abort, StartReindex, Goto, inbox
  <2> QED
    BY <1>3, <2>1
<1>9. CASE Walk
  <2>1. CASE Insert("reindex")
    <3>1. at'["watcher"] = at["watcher"] /\ UNCHANGED channel
      BY <1>1, <2>1 DEF Insert, ResetDocs, ResetChunks, InsertDoc, InsertChunk, FailInsert, Leave, Goto, inbox
    <3> QED
      BY <1>3, <3>1
  <2>2. CASE DropDocs \/ DropChunks \/ Ensure \/ List \/ Finish
    <3>1. at'["watcher"] = at["watcher"] /\ UNCHANGED channel
      BY <1>1, <2>2 DEF DropDocs, DropChunks, Ensure, List, Finish, Goto, inbox
    <3> QED
      BY <1>3, <3>1
  <2>3. CASE \E f \in Files : Visit(f) \/ SkipVisit(f)
    <3>1. at'["watcher"] = at["watcher"] /\ UNCHANGED channel
      BY <1>1, <2>3 DEF Visit, SkipVisit, Take, Goto, inbox
    <3> QED
      BY <1>3, <3>1
  <2> QED
    BY <1>9, <2>1, <2>2, <2>3 DEF Walk
<1>10. CASE UNCHANGED fileVars
  BY <1>3, <1>10 DEF fileVars
<1> QED
  BY <1>5, <1>6, <1>7, <1>8, <1>9, <1>10 DEF FilesNext

(* No error ends the watcher or makes it do a file over (indexer.rs logs it  *)
(* and takes the next event); what it was told of is worked off.             *)
THEOREM WatcherGoesOn == FilesSpec => WatcherWorksOff
<1> DEFINE Off == /\ Watch => Burden' < Burden /\ at'["watcher"] # "down"
                  /\ Burden' <= Burden \/ Len(channel') > Len(channel)
<1>1. ASSUME FilesTypeOK, FilesTypeOK', [FilesNext]_fileVars PROVE Off
  <2>1. CASE Watch
    <3>1. Burden' < Burden /\ at'["watcher"] # "down"
      BY <1>1, <2>1, WatchWorksOff
    <3>2. Burden' \in Int /\ Burden \in Int
      BY <1>1, BurdenOf
    <3> QED
      BY <3>1, <3>2
  <2>2. CASE ~Watch
    BY <1>1, <2>2, NobodyAddsWork
  <2> QED
    BY <2>1, <2>2
<1> HIDE DEF Off
<1>2. FilesTypeOK /\ FilesTypeOK' /\ [FilesNext]_fileVars => [Off]_fileVars
  BY <1>1
<1>3. FilesSpec => [][Off]_fileVars
  BY <1>2, FilesTypeCorrect, PTL DEF FilesSpec
<1> QED
  BY <1>3, PTL DEF WatcherWorksOff, Off
-----------------------------------------------------------------------------
(* The query router.                                                         *)

(* A ranking, and what it says of its ids.                                 *)
LEMMA RankingForm ==
  ASSUME NEW s \in Rankings
  PROVE  /\ s \in Seq(Ids) /\ Range(s) \subseteq Ids
         /\ s = << >> <=> Range(s) = {}
<1>1. PICK n \in 0..TopK : s \in [1..n -> Ids]
  BY DEF Rankings
<1>2. n \in Nat
  BY QueryRouterAssumption
<1>3. s \in Seq(Ids)
  BY <1>1, <1>2
<1>4. Range(s) \subseteq Ids
  BY <1>1 DEF Range
<1>5. s = << >> <=> Range(s) = {}
  <2>1. CASE n = 0
    BY <1>1, <2>1 DEF Range
  <2>2. CASE n # 0
    <3>1. 1 \in DOMAIN s /\ Len(s) # 0
      BY <1>1, <1>2, <2>2
    <3>2. s[1] \in Range(s)
      BY <3>1 DEF Range
    <3> QED BY <3>1, <3>2, <1>3
  <2> QED BY <2>1, <2>2
<1> QED BY <1>3, <1>4, <1>5

(* No results is a ranking.                                                *)
LEMMA EmptyRanking == << >> \in Rankings
<1>1. << >> \in {s \in [1..0 -> Ids] : \A i, j \in 1..0 : s[i] = s[j] => i = j}
  OBVIOUS
<1>2. 0 \in 0..TopK
  BY QueryRouterAssumption
<1> QED BY <1>1, <1>2 DEF Rankings

(* Fusion yields rankings, whatever the scores.                            *)
LEMMA FusedIsRanking ==
  ASSUME NEW ls, \A m \in DOMAIN ls : ls[m].results \in Rankings, NEW k,
         NEW s \in Fused(ls, k)
  PROVE  s \in Rankings
<1> DEFINE found == UNION {Range(ls[m].results) : m \in DOMAIN ls}
           n     == Cut(Cardinality(found))
<1>1. found \subseteq Ids
  BY RankingForm
<1>2. IsFiniteSet(found)
  BY <1>1, QueryRouterAssumption, FS_Subset
<1>3. Cardinality(found) \in Nat
  BY <1>2, FS_CardinalityType
<1>4. n \in 0..TopK
  BY <1>3, QueryRouterAssumption DEF Cut
<1>5. s \in [1..n -> found] /\ \A i, j \in 1..n : i < j => s[i] # s[j]
  BY DEF Fused
<1> HIDE DEF n, found
<1>6. s \in [1..n -> Ids]
  BY <1>1, <1>5
<1>7. \A i, j \in 1..n : s[i] = s[j] => i = j
  <2> SUFFICES ASSUME NEW i \in 1..n, NEW j \in 1..n, s[i] = s[j], i # j
               PROVE  FALSE
    OBVIOUS
  <2>1. i < j \/ j < i
    BY <1>4
  <2> QED BY <2>1, <1>5
<1> QED BY <1>4, <1>6, <1>7 DEF Rankings

(* Merging yields rankings.                                                *)
LEMMA MergedIsRanking ==
  ASSUME NEW ls \in Seq(Rankings), NEW s \in Merged(ls)
  PROVE  s \in Rankings
<1>1. CASE Len(ls) = 1
  <2>1. ls[1] \in Rankings
    BY <1>1
  <2> QED BY <1>1, <2>1 DEF Merged
<1>2. CASE Len(ls) # 1
  <2> DEFINE ws == [m \in DOMAIN ls |-> Signal(ls[m], 1)]
  <2>1. s \in Fused(ws, 60)
    BY <1>2 DEF Merged
  <2>2. \A m \in DOMAIN ws : ws[m].results \in Rankings
    BY DEF Signal
  <2> HIDE DEF ws
  <2> QED BY <2>1, <2>2, FusedIsRanking
<1> QED BY <1>1, <1>2

(* The stores planned are stores.                                          *)
LEMMA PlannedStores ==
  ASSUME NEW u \in Users, NEW scope \in Scopes
  PROVE  Planned(u, scope) \subseteq Stores
BY DEF Planned, Personal, Owned, Scopes

LEMMA TypeInit == Init => TypeOK
BY EmptyRanking DEF Init, TypeOK

LEMMA SignalType ==
  ASSUME NEW list \in Rankings, NEW w \in Nat
  PROVE  Signal(list, w) \in Signals
BY DEF Signal, Signals

LEMMA TypeStep == TypeOK /\ [Next]_vars => TypeOK'
<1> SUFFICES ASSUME TypeOK, [Next]_vars
             PROVE  TypeOK'
  OBVIOUS
<1> USE DEF TypeOK
<1>1. ASSUME NEW u \in Users, NEW scope \in Scopes, Plan(u, scope)
      PROVE  TypeOK'
  BY <1>1, PlannedStores DEF Plan
<1>2. CASE Embed
  BY <1>2 DEF Embed
<1>3. CASE Fail
  BY <1>3 DEF Fail
<1>4. CASE Fuse
  <2>1. PICK s \in Fused(signals, RrfK) : lists' = Append(lists, s)
    BY <1>4 DEF Fuse
  <2>2. \A m \in DOMAIN signals : signals[m].results \in Rankings
    <3>1. \A m \in DOMAIN signals : signals[m] \in Signals
      OBVIOUS
    <3>2. \A r \in Signals : r.results \in Rankings
      BY DEF Signals
    <3> QED BY <3>1, <3>2
  <2>3. s \in Rankings
    BY <2>2, FusedIsRanking
  <2> QED BY <1>4, <2>1, <2>3 DEF Fuse
<1>5. CASE Merge
  <2>1. PICK s \in Merged(lists) : merged' = s /\ first' = IF round = 1 THEN s ELSE first
    BY <1>5 DEF Merge
  <2>2. s \in Rankings
    BY MergedIsRanking
  <2> QED BY <1>5, <2>1, <2>2 DEF Merge
<1>6. ASSUME NEW s \in Stores, NEW list \in Rankings, VectorSearch(s, list)
      PROVE  TypeOK'
  <2>1. Signal(list, VectorWeight) \in Signals
    BY SignalType, QueryRouterAssumption
  <2> QED BY <1>6, <2>1 DEF VectorSearch
<1>7. ASSUME NEW list \in Rankings, KeywordSearch(list)
      PROVE  TypeOK'
  <2>1. Signal(list, KeywordWeight) \in Signals
    BY SignalType, QueryRouterAssumption
  <2> QED BY <1>7, <2>1 DEF KeywordSearch
<1>8. ASSUME NEW list \in Rankings, NEW w \in GraphWeights, GraphSearch(list, w)
      PROVE  TypeOK'
  <2>1. Signal(list, w) \in Signals
    BY SignalType, QueryRouterAssumption
  <2> QED BY <1>8, <2>1 DEF GraphSearch
<1>9. ASSUME NEW healthy \in SUBSET Nodes, AskNodes(healthy)
      PROVE  TypeOK'
  BY <1>9 DEF AskNodes
<1>10. ASSUME NEW n \in Nodes, NEW list \in Rankings, NodeAnswers(n, list)
       PROVE  TypeOK'
  BY <1>10 DEF NodeAnswers
<1>11. ASSUME NEW n \in Nodes, NodeFails(n)
       PROVE  TypeOK'
  BY <1>11 DEF NodeFails
<1>12. ASSUME NEW low \in BOOLEAN, NEW expandable \in BOOLEAN, Answer(low, expandable)
       PROVE  TypeOK'
  BY <1>12 DEF Answer, Reordered
<1>13. ASSUME NEW low \in BOOLEAN, NEW expandable \in BOOLEAN, Expand(low, expandable)
       PROVE  TypeOK'
  BY <1>13 DEF Expand
<1>14. CASE UNCHANGED vars
  BY <1>14 DEF vars
<1> QED
  BY <1>1, <1>2, <1>3, <1>4, <1>5, <1>6, <1>7, <1>8, <1>9, <1>10, <1>11, <1>12,
     <1>13, <1>14 DEF Next

(* TypeOK is invariant for any ids, stores, users and nodes, and any number *)
(* of results asked for: neither fusion repeats an id or exceeds TopK.      *)
THEOREM TypeCorrectness == Spec => []TypeOK
<1> QED BY TypeInit, TypeStep, PTL DEF Spec
-----------------------------------------------------------------------------
(* Induction over numbers and over finite sets, with the set of those for    *)
(* which a statement holds in place of the statement.                        *)
LEMMA AllNumbers ==
  ASSUME NEW G, 0 \in G, \A n \in Nat : n \in G => n + 1 \in G
  PROVE  \A n \in Nat : n \in G
<1> SUFFICES ASSUME Nat \ G # {}
             PROVE  FALSE
  OBVIOUS
<1> DEFINE Less == OpToRel(<, Nat)
<1>1. \E n \in Nat \ G : \A m \in Nat \ G : ~(<<m, n>> \in Less)
  <2>1. IsWellFoundedOn(Less, Nat)
    BY NatLessThanWellFounded
  <2> HIDE DEF Less
  <2> QED BY <2>1, WFMin
<1>2. PICK n \in Nat \ G : \A m \in Nat \ G : ~(<<m, n>> \in Less)
  BY <1>1
<1>3. \A m \in Nat \ G : ~(m < n)
  BY <1>2 DEF OpToRel
<1> HIDE DEF Less
<1>4. n # 0
  BY <1>2
<1>a. n - 1 \in Nat /\ n - 1 < n /\ (n - 1) + 1 = n
  BY <1>4
<1>5. n - 1 \in G
  BY <1>3, <1>a
<1> QED BY <1>2, <1>a, <1>5

LEMMA AllSubsets ==
  ASSUME NEW S, IsFiniteSet(S), NEW G,
         \A T \in SUBSET S : (\A U \in SUBSET T : U # T => U \in G) => T \in G
  PROVE  \A T \in SUBSET S : T \in G
<1> SUFFICES ASSUME (SUBSET S) \ G # {}
             PROVE  FALSE
  OBVIOUS
<1> DEFINE bad == (SUBSET S) \ G
<1>1. IsWellFoundedOn(StrictSubsetOrdering(S), SUBSET S)
  <2>1. FiniteSubsetsOf(S) = SUBSET S
    BY FS_FiniteSubsetsOfFinite
  <2>2. IsWellFoundedOn(StrictSubsetOrdering(S), FiniteSubsetsOf(S))
    BY FS_StrictSubsetOrderingWellFounded
  <2> QED BY <2>1, <2>2
<1>2. \E T \in bad : \A U \in bad : ~(<<U, T>> \in StrictSubsetOrdering(S))
  <2>1. bad \subseteq SUBSET S /\ bad # {}
    OBVIOUS
  <2> HIDE DEF bad
  <2> QED BY <1>1, <2>1, WFMin
<1>3. PICK T \in bad : \A U \in bad : ~(<<U, T>> \in StrictSubsetOrdering(S))
  BY <1>2
<1>4. \A U \in SUBSET T : U # T => U \in G
  BY <1>3 DEF StrictSubsetOrdering
<1> QED BY <1>3, <1>4
-----------------------------------------------------------------------------
(* The folds of the community modules: a function on the subsets of a set    *)
(* that takes one chosen element after the other.                            *)
Picked(s) == CHOOSE x \in s : TRUE
FoldsTo(h, D, base, g) ==
  \A s \in SUBSET D : h[s] = IF s = {} THEN base ELSE g[<<Picked(s), h[s \ {Picked(s)}]>>]

LEMMA PickedIsIn == \A s : s # {} => Picked(s) \in s
  BY DEF Picked

LEMMA FoldExists ==
  ASSUME NEW D, IsFiniteSet(D), NEW V, NEW base \in V, NEW g \in [D \X V -> V]
  PROVE  \E h \in [SUBSET D -> V] : FoldsTo(h, D, base, g)
<1> DEFINE Small(n) == {s \in SUBSET D : Cardinality(s) <= n}
           Step(h, s) == IF s = {} THEN base ELSE g[<<Picked(s), h[s \ {Picked(s)}]>>]
           G == {n \in Nat : \E h \in [Small(n) -> V] : \A s \in Small(n) : h[s] = Step(h, s)}
<1>1. \A s \in SUBSET D : IsFiniteSet(s) /\ Cardinality(s) \in Nat
  BY FS_Subset, FS_CardinalityType
<1>2. ASSUME NEW n \in Nat, NEW s \in Small(n + 1), s # {}
      PROVE  s \ {Picked(s)} \in Small(n) /\ Picked(s) \in D
  <2>1. Picked(s) \in s
    BY <1>2, PickedIsIn
  <2>2. Cardinality(s \ {Picked(s)}) = Cardinality(s) - 1
    BY <1>1, <2>1, FS_RemoveElement
  <2> QED BY <1>1, <1>2, <2>1, <2>2
<1>3. 0 \in G
  <2> DEFINE h == [s \in Small(0) |-> base]
  <2>1. \A s \in Small(0) : s = {}
    BY <1>1, FS_EmptySet
  <2>2. h \in [Small(0) -> V] /\ \A s \in Small(0) : h[s] = Step(h, s)
    BY <2>1
  <2> QED BY <2>2
<1>4. ASSUME NEW n \in Nat, n \in G
      PROVE  n + 1 \in G
  <2>1. PICK h \in [Small(n) -> V] : \A s \in Small(n) : h[s] = Step(h, s)
    BY <1>4
  <2> DEFINE k == [s \in Small(n + 1) |-> Step(h, s)]
  <2>2. Small(n) \subseteq Small(n + 1)
    BY <1>1
  <2>3. \A s \in Small(n) : k[s] = h[s]
    BY <2>1, <2>2
  <2>4. ASSUME NEW s \in Small(n + 1)
        PROVE  Step(h, s) \in V /\ Step(k, s) = Step(h, s)
    <3>1. CASE s = {}
      BY <3>1
    <3>2. CASE s # {}
      <4>1. s \ {Picked(s)} \in Small(n) /\ Picked(s) \in D
        BY <1>2, <3>2
      <4>2. k[s \ {Picked(s)}] = h[s \ {Picked(s)}] /\ h[s \ {Picked(s)}] \in V
        BY <2>3, <4>1
      <4> HIDE DEF k
      <4> QED BY <3>2, <4>1, <4>2
    <3> QED BY <3>1, <3>2
  <2>5. k \in [Small(n + 1) -> V] /\ \A s \in Small(n + 1) : k[s] = Step(k, s)
    <3>1. k \in [Small(n + 1) -> V] /\ \A s \in Small(n + 1) : k[s] = Step(h, s)
      BY <2>4
    <3> HIDE DEF k, Small, Step
    <3> QED BY <2>4, <3>1
  <2>6. n + 1 \in Nat
    OBVIOUS
  <2> HIDE DEF k, Small, Step
  <2> QED BY <2>5, <2>6
<1>5. Cardinality(D) \in G
  <2>1. \A n \in Nat : n \in G
    <3>1. \A n \in Nat : n \in G => n + 1 \in G
      BY <1>4
    <3> HIDE DEF G
    <3> QED BY <1>3, <3>1, AllNumbers
  <2>2. Cardinality(D) \in Nat
    BY FS_CardinalityType
  <2> QED BY <2>1, <2>2
<1>6. Small(Cardinality(D)) = SUBSET D
  BY FS_Subset
<1>7. PICK h \in [SUBSET D -> V] : \A s \in SUBSET D : h[s] = Step(h, s)
  BY <1>5, <1>6
<1> QED BY <1>7 DEF FoldsTo

-----------------------------------------------------------------------------
(* Sums: SumFunctionOnSet(w, s) for the subsets s of the domain of w, and     *)
(* that any element may be taken first.                                      *)
SumStep(w, h, D) ==
  \A s \in SUBSET D : h[s] = IF s = {} THEN 0 ELSE w[Picked(s)] + h[s \ {Picked(s)}]

LEMMA SumExists ==
  ASSUME NEW D, IsFiniteSet(D), NEW w \in [D -> Nat]
  PROVE  \E h \in [SUBSET D -> Nat] : SumStep(w, h, D)
<1> DEFINE g == [p \in D \X Nat |-> w[p[1]] + p[2]]
<1>1. g \in [D \X Nat -> Nat]
  OBVIOUS
<1>2. \A x \in D, n \in Nat : g[<<x, n>>] = w[x] + n
  OBVIOUS
<1> HIDE DEF g
<1>3. PICK h \in [SUBSET D -> Nat] : FoldsTo(h, D, 0, g)
  BY <1>1, FoldExists
<1>4. ASSUME NEW s \in SUBSET D
      PROVE  h[s] = IF s = {} THEN 0 ELSE w[Picked(s)] + h[s \ {Picked(s)}]
  <2>1. s # {} => Picked(s) \in D /\ h[s \ {Picked(s)}] \in Nat
    BY PickedIsIn
  <2> QED BY <1>2, <1>3, <2>1 DEF FoldsTo
<1> QED BY <1>4 DEF SumStep

(* SumFunction is such a sum.                                                *)
LEMMA SumFolds ==
  ASSUME NEW D, IsFiniteSet(D), NEW w \in [D -> Nat]
  PROVE  \E h \in [SUBSET D -> Nat] : SumStep(w, h, D) /\ SumFunction(w) = h[D]
<1> DEFINE Is(h) == h = [s \in SUBSET D |->
                           IF s = {} THEN 0 ELSE w[CHOOSE x \in s : TRUE] + h[s \ {CHOOSE x \in s : TRUE}]]
           k == CHOOSE h : Is(h)
           G == {s \in SUBSET D : k[s] \in Nat}
<1>1. PICK h \in [SUBSET D -> Nat] : SumStep(w, h, D)
  BY SumExists
<1>2. Is(h)
  BY <1>1 DEF SumStep, Picked
<1>3. Is(k)
  <2> HIDE DEF Is
  <2> QED BY <1>2, Zenon
<1>4. SumFunction(w) = k[D]
  <2>1. DOMAIN w = D
    OBVIOUS
  <2> QED BY <2>1, Zenon DEF SumFunction, SumFunctionOnSet, FoldFunctionOnSet, MapThenFoldSet
<1> HIDE DEF k
<1>5. SumStep(w, k, D) /\ DOMAIN k = SUBSET D
  BY <1>3 DEF SumStep, Picked
<1> HIDE DEF Is
<1>6. ASSUME NEW T \in SUBSET D, \A U \in SUBSET T : U # T => U \in G
      PROVE  T \in G
  <2>1. CASE T = {}
    <3>1. k[{}] = 0
      BY <1>5 DEF SumStep
    <3> QED BY <2>1, <3>1
  <2>2. CASE T # {}
    <3>1. Picked(T) \in T
      BY <2>2, PickedIsIn
    <3>2. k[T \ {Picked(T)}] \in Nat /\ w[Picked(T)] \in Nat
      BY <1>6, <3>1
    <3> QED BY <1>5, <2>2, <3>2 DEF SumStep
  <2> QED BY <2>1, <2>2
<1>7. \A T \in SUBSET D : T \in G
  <2>1. \A T \in SUBSET D : (\A U \in SUBSET T : U # T => U \in G) => T \in G
    BY <1>6
  <2> HIDE DEF G
  <2> QED BY <2>1, AllSubsets
<1>8. k = [s \in SUBSET D |-> k[s]]
  BY <1>3 DEF Is
<1>9. k \in [SUBSET D -> Nat]
  BY <1>7, <1>8
<1> QED BY <1>4, <1>5, <1>9

SumsUp(w, h, D) == /\ h[{}] = 0
                   /\ \A T \in SUBSET D : \A x \in T : h[T] = w[x] + h[T \ {x}]

LEMMA SumSumsUp ==
  ASSUME NEW D, IsFiniteSet(D), NEW w \in [D -> Nat]
  PROVE  \E h \in [SUBSET D -> Nat] : SumsUp(w, h, D) /\ SumFunction(w) = h[D]
<1>1. PICK h \in [SUBSET D -> Nat] : SumStep(w, h, D) /\ SumFunction(w) = h[D]
  BY SumFolds
<1> DEFINE G == {T \in SUBSET D : \A x \in T : h[T] = w[x] + h[T \ {x}]}
<1>2. ASSUME NEW T \in SUBSET D, \A U \in SUBSET T : U # T => U \in G
      PROVE  T \in G
  <2> SUFFICES ASSUME NEW x \in T PROVE h[T] = w[x] + h[T \ {x}]
    OBVIOUS
  <2> DEFINE c == Picked(T)
  <2>1. c \in T
    BY PickedIsIn
  <2>2. h[T] = w[c] + h[T \ {c}]
    BY <1>1, <2>1 DEF SumStep
  <2> HIDE DEF c
  <2>3. CASE x = c
    BY <2>2, <2>3
  <2>4. CASE x # c
    <3>1. T \ {c} \in G /\ T \ {x} \in G
      BY <1>2, <2>1
    <3>2. h[T \ {c}] = w[x] + h[(T \ {c}) \ {x}] /\ h[T \ {x}] = w[c] + h[(T \ {x}) \ {c}]
      BY <2>1, <2>4, <3>1
    <3>3. (T \ {c}) \ {x} = (T \ {x}) \ {c} /\ (T \ {x}) \ {c} \in SUBSET D
      OBVIOUS
    <3>4. h[(T \ {x}) \ {c}] \in Nat /\ w[x] \in Nat /\ w[c] \in Nat
      BY <2>1, <3>3
    <3>5. h[T] = w[c] + (w[x] + h[(T \ {x}) \ {c}]) /\ h[T \ {x}] = w[c] + h[(T \ {x}) \ {c}]
      BY <2>2, <3>2, <3>3
    <3> QED BY <3>4, <3>5
  <2> QED BY <2>3, <2>4
<1>3. \A T \in SUBSET D : T \in G
  <2>1. \A T \in SUBSET D : (\A U \in SUBSET T : U # T => U \in G) => T \in G
    BY <1>2
  <2> HIDE DEF G
  <2> QED BY <2>1, AllSubsets
<1>4. h[{}] = 0
  BY <1>1 DEF SumStep
<1> QED BY <1>1, <1>3, <1>4 DEF SumsUp

(* Whoever gets more of each of his terms gets more in all.                  *)
LEMMA SumsCompare ==
  ASSUME NEW X, IsFiniteSet(X), NEW Y \in SUBSET X, Y # {},
         NEW v \in [X -> Nat], NEW w \in [Y -> Nat], \A m \in Y : v[m] > w[m]
  PROVE  SumFunction(v) > SumFunction(w)
<1>0. IsFiniteSet(Y)
  BY FS_Subset
<1>1. PICK a \in [SUBSET X -> Nat] : SumsUp(v, a, X) /\ SumFunction(v) = a[X]
  BY SumSumsUp
<1>2. PICK b \in [SUBSET Y -> Nat] : SumsUp(w, b, Y) /\ SumFunction(w) = b[Y]
  BY <1>0, SumSumsUp
<1> DEFINE G == {T \in SUBSET X : /\ a[T] >= b[T \cap Y]
                                  /\ T \cap Y # {} => a[T] > b[T \cap Y]}
<1>3. ASSUME NEW T \in SUBSET X, \A U \in SUBSET T : U # T => U \in G
      PROVE  T \in G
  <2>1. CASE T = {}
    <3>1. T \cap Y = {} /\ a[T] = 0 /\ b[T \cap Y] = 0
      BY <1>1, <1>2, <2>1 DEF SumsUp
    <3> QED BY <3>1
  <2>2. CASE T # {}
    <3>1. PICK c \in T : TRUE
      BY <2>2
    <3> DEFINE R == T \ {c}
    <3>2. R \in G /\ R \in SUBSET X /\ R \cap Y \in SUBSET Y
      BY <1>3, <3>1
    <3>3. a[R] \in Nat /\ b[R \cap Y] \in Nat /\ v[c] \in Nat
      BY <3>1, <3>2
    <3>4. a[T] = v[c] + a[R]
      BY <1>1, <3>1 DEF SumsUp
    <3>5. CASE c \notin Y
      <4>1. T \cap Y = R \cap Y
        BY <3>5
      <4>2. a[R] >= b[R \cap Y] /\ (R \cap Y # {} => a[R] > b[R \cap Y])
        BY <3>2
      <4> HIDE DEF R
      <4>a. a[R] + v[c] >= b[R \cap Y] /\ (R \cap Y # {} => a[R] + v[c] > b[R \cap Y])
        BY <3>3, <4>2
      <4>b. b[T \cap Y] = b[R \cap Y]
        BY <4>1, Zenon
      <4>c. a[T] = a[R] + v[c]
        BY <3>3, <3>4
      <4>3. a[T] >= b[T \cap Y] /\ (T \cap Y # {} => a[T] > b[T \cap Y])
        BY <4>1, <4>a, <4>b, <4>c, Zenon
      <4> QED BY <4>3
    <3>6. CASE c \in Y
      <4>1. R \cap Y = (T \cap Y) \ {c} /\ c \in T \cap Y /\ T \cap Y \in SUBSET Y
        BY <3>1, <3>6
      <4>2. b[T \cap Y] = w[c] + b[R \cap Y]
        BY <1>2, <4>1 DEF SumsUp
      <4>3. w[c] \in Nat /\ v[c] > w[c] /\ a[R] >= b[R \cap Y]
        BY <3>2, <3>6
      <4>4. b[T \cap Y] \in Nat /\ a[T] \in Nat
        BY <4>1
      <4> HIDE DEF R
      <4>5. a[T] > b[T \cap Y]
        BY <3>3, <3>4, <4>2, <4>3
      <4> QED BY <4>4, <4>5
    <3> QED BY <3>5, <3>6
  <2> QED BY <2>1, <2>2
<1>4. \A T \in SUBSET X : T \in G
  <2>1. \A T \in SUBSET X : (\A U \in SUBSET T : U # T => U \in G) => T \in G
    BY <1>3
  <2> HIDE DEF G
  <2> QED BY <2>1, AllSubsets
<1>5. X \in G /\ X \cap Y = Y
  BY <1>4
<1> QED BY <1>1, <1>2, <1>5
(* The order of the terms does not matter.                                   *)
LEMMA SumsReorder ==
  ASSUME NEW X, NEW Y, IsFiniteSet(X), IsFiniteSet(Y), NEW p \in Bijection(X, Y),
         NEW v \in [X -> Nat], NEW w \in [Y -> Nat], \A m \in X : v[m] = w[p[m]]
  PROVE  SumFunction(v) = SumFunction(w)
<1>1. PICK a \in [SUBSET X -> Nat] : SumsUp(v, a, X) /\ SumFunction(v) = a[X]
  BY SumSumsUp
<1>2. PICK b \in [SUBSET Y -> Nat] : SumsUp(w, b, Y) /\ SumFunction(w) = b[Y]
  BY SumSumsUp
<1>3. /\ p \in [X -> Y]
      /\ \A m, n \in X : p[m] = p[n] => m = n
      /\ \A y \in Y : \E m \in X : p[m] = y
  BY DEF Bijection, Injection, IsInjective, Surjection
<1> DEFINE Img(T) == {p[m] : m \in T}
           G == {T \in SUBSET X : a[T] = b[Img(T)]}
<1>4. ASSUME NEW T \in SUBSET X, \A U \in SUBSET T : U # T => U \in G
      PROVE  T \in G
  <2>1. CASE T = {}
    <3>1. Img(T) = {} /\ a[{}] = 0 /\ b[{}] = 0
      BY <1>1, <1>2, <2>1 DEF SumsUp
    <3> QED BY <2>1, <3>1
  <2>2. CASE T # {}
    <3>1. PICK c \in T : TRUE
      BY <2>2
    <3>2. T \ {c} \in G
      <4>1. T \ {c} \in SUBSET T /\ T \ {c} # T
        BY <3>1
      <4> HIDE DEF G
      <4> QED BY <1>4, <4>1
    <3>3. a[T] = v[c] + a[T \ {c}]
      BY <1>1, <3>1 DEF SumsUp
    <3>4. Img(T) \in SUBSET Y /\ p[c] \in Img(T) /\ Img(T) \ {p[c]} = Img(T \ {c})
      BY <1>3, <3>1
    <3>5. b[Img(T)] = w[p[c]] + b[Img(T) \ {p[c]}]
      BY <1>2, <3>4 DEF SumsUp
    <3>6. v[c] = w[p[c]] /\ a[T \ {c}] = b[Img(T \ {c})]
      BY <3>1, <3>2
    <3> HIDE DEF Img
    <3> QED BY <3>3, <3>4, <3>5, <3>6
  <2> QED BY <2>1, <2>2
<1>5. \A T \in SUBSET X : T \in G
  <2>1. \A T \in SUBSET X : (\A U \in SUBSET T : U # T => U \in G) => T \in G
    BY <1>4
  <2> HIDE DEF G
  <2> QED BY <2>1, AllSubsets
<1>6. a[X] = b[Img(X)] /\ Img(X) = Y
  BY <1>3, <1>5
<1> QED BY <1>1, <1>2, <1>6
-----------------------------------------------------------------------------
(* Products, and that a product is a multiple of each of its factors.        *)
LEMMA ProductFolds ==
  ASSUME NEW D, IsFiniteSet(D), D \subseteq Nat
  PROVE  \E h \in [SUBSET D -> Nat] :
           /\ \A s \in SUBSET D : h[s] = IF s = {} THEN 1 ELSE Picked(s) * h[s \ {Picked(s)}]
           /\ ProductSet(D) = h[D]
<1> DEFINE Is(h) == h = [s \in SUBSET D |->
                           IF s = {} THEN 1 ELSE (CHOOSE x \in s : TRUE) * h[s \ {CHOOSE x \in s : TRUE}]]
           k == CHOOSE h : Is(h)
           G == {s \in SUBSET D : k[s] \in Nat}
           g == [p \in D \X Nat |-> p[1] * p[2]]
<1>1. \E h : Is(h)
  <2>1. \A x \in D, n \in Nat : g[<<x, n>>] = x * n
    OBVIOUS
  <2>2. g \in [D \X Nat -> Nat]
    <3>1. ASSUME NEW p \in D \X Nat PROVE p[1] * p[2] \in Nat
      <4>1. p[1] \in Nat /\ p[2] \in Nat
        OBVIOUS
      <4> QED BY <4>1
    <3> QED BY <3>1
  <2> HIDE DEF g
  <2>3. PICK h \in [SUBSET D -> Nat] : FoldsTo(h, D, 1, g)
    BY <2>2, FoldExists
  <2>4. ASSUME NEW s \in SUBSET D
        PROVE  h[s] = IF s = {} THEN 1 ELSE Picked(s) * h[s \ {Picked(s)}]
    <3>1. s # {} => Picked(s) \in D /\ h[s \ {Picked(s)}] \in Nat
      BY PickedIsIn
    <3> QED BY <2>1, <2>3, <3>1 DEF FoldsTo
  <2>5. Is(h)
    BY <2>4 DEF Picked
  <2> QED BY <2>5
<1>3. Is(k)
  <2> HIDE DEF Is
  <2> QED BY <1>1, Zenon
<1>4. ProductSet(D) = k[D]
  BY Zenon DEF ProductSet, FoldSet, MapThenFoldSet
<1> HIDE DEF k
<1>5. \A s \in SUBSET D : k[s] = IF s = {} THEN 1 ELSE Picked(s) * k[s \ {Picked(s)}]
  BY <1>3 DEF Picked
<1> HIDE DEF Is
<1>6. ASSUME NEW T \in SUBSET D, \A U \in SUBSET T : U # T => U \in G
      PROVE  T \in G
  <2>1. CASE T = {}
    <3>1. k[{}] = 1
      BY <1>5
    <3> QED BY <2>1, <3>1
  <2>2. CASE T # {}
    <3>1. Picked(T) \in T /\ Picked(T) \in Nat
      BY <2>2, PickedIsIn
    <3>2. k[T \ {Picked(T)}] \in Nat
      BY <1>6, <3>1
    <3>3. k[T] = Picked(T) * k[T \ {Picked(T)}]
      BY <1>5, <2>2
    <3> QED BY <3>1, <3>2, <3>3
  <2> QED BY <2>1, <2>2
<1>7. \A T \in SUBSET D : T \in G
  <2>1. \A T \in SUBSET D : (\A U \in SUBSET T : U # T => U \in G) => T \in G
    BY <1>6
  <2> HIDE DEF G
  <2> QED BY <2>1, AllSubsets
<1>8. k = [s \in SUBSET D |-> k[s]]
  BY <1>3 DEF Is
<1>9. k \in [SUBSET D -> Nat]
  BY <1>7, <1>8
<1> QED BY <1>4, <1>5, <1>9

LEMMA ProductIsMultiple ==
  ASSUME NEW D, IsFiniteSet(D), D \subseteq Nat \ {0}
  PROVE  /\ ProductSet(D) \in Nat \ {0}
         /\ \A x \in D : \E q \in Nat : ProductSet(D) = x * q
<1>1. PICK h \in [SUBSET D -> Nat] :
        /\ \A s \in SUBSET D : h[s] = IF s = {} THEN 1 ELSE Picked(s) * h[s \ {Picked(s)}]
        /\ ProductSet(D) = h[D]
  BY ProductFolds
<1> DEFINE G == {T \in SUBSET D : /\ h[T] \in Nat \ {0}
                                  /\ \A x \in T : \E q \in Nat : h[T] = x * q}
<1>2. ASSUME NEW T \in SUBSET D, \A U \in SUBSET T : U # T => U \in G
      PROVE  T \in G
  <2>1. CASE T = {}
    <3>1. h[{}] = 1
      BY <1>1
    <3> QED BY <2>1, <3>1
  <2>2. CASE T # {}
    <3> DEFINE c == Picked(T)
               r == h[T \ {c}]
    <3>0. c \in T /\ c = Picked(T)
      BY <2>2, PickedIsIn
    <3>1. c \in T /\ c \in Nat \ {0}
      <4> HIDE DEF c
      <4> QED BY <3>0
    <3> HIDE DEF c
    <3>2. T \ {c} \in G
      <4>1. T \ {c} \in SUBSET T /\ T \ {c} # T
        BY <3>1
      <4> HIDE DEF G
      <4> QED BY <1>2, <4>1
    <3>3. r \in Nat \ {0} /\ h[T] = c * r
      BY <1>1, <2>2, <3>0, <3>2
    <3>4. ASSUME NEW x \in T \ {c}
          PROVE  \E q \in Nat : h[T] = x * q
      <4>1. PICK q \in Nat : r = x * q
        BY <3>2
      <4> HIDE DEF r
      <4>2. x \in Nat /\ c * (x * q) = x * (c * q) /\ c * q \in Nat
        BY <3>1
      <4> QED BY <3>3, <4>1, <4>2
    <3> HIDE DEF r
    <3>5. h[T] \in Nat \ {0}
      BY <3>1, <3>3
    <3> QED BY <3>1, <3>3, <3>4, <3>5
  <2> QED BY <2>1, <2>2
<1>3. \A T \in SUBSET D : T \in G
  <2>1. \A T \in SUBSET D : (\A U \in SUBSET T : U # T => U \in G) => T \in G
    BY <1>2
  <2> HIDE DEF G
  <2> QED BY <2>1, AllSubsets
<1>4. D \in G
  BY <1>3
<1> QED BY <1>1, <1>4
-----------------------------------------------------------------------------
(* Reciprocal ranks: a better place earns more.                              *)
LEMMA ExactQuotient ==
  ASSUME NEW a \in Nat \ {0}, NEW q \in Nat
  PROVE  (a * q) \div a = q
  OBVIOUS

LEMMA SmallerShare ==
  ASSUME NEW a \in Nat \ {0}, NEW b \in Nat, a < b, NEW p \in Nat, NEW q \in Nat,
         a * p = b * q, a * p # 0
  PROVE  p > q
<1>1. q # 0
  BY SMT
<1>2. a * q < b * q
  <2>1. b = a + (b - a) /\ b - a \in Nat \ {0}
    OBVIOUS
  <2>2. b * q = a * q + (b - a) * q
    BY <2>1
  <2>3. (b - a) * q > 0
    BY <1>1, <2>1
  <2>4. a * q \in Nat /\ (b - a) * q \in Nat
    BY <2>1
  <2> QED BY <2>2, <2>3, <2>4
<1>3. a * q < a * p
  BY <1>2
<1>4. ASSUME p <= q PROVE FALSE
  <2>1. q = p + (q - p) /\ q - p \in Nat
    BY <1>4
  <2>2. a * q = a * p + a * (q - p)
    BY <2>1
  <2>3. a * (q - p) \in Nat /\ a * p \in Nat /\ a * q \in Nat
    BY <2>1
  <2> QED BY <1>3, <2>2, <2>3
<1> QED BY <1>4

LEMMA CommonIsMultiple ==
  ASSUME NEW k \in Nat
  PROVE  /\ Common(k) \in Nat \ {0}
         /\ \A i \in 1..TopK : \E q \in Nat : Common(k) = (k + i) * q
<1> DEFINE D == {k + i : i \in 1..TopK}
<1>1. IsFiniteSet(D) /\ D \subseteq Nat \ {0}
  <2>1. D \in SUBSET ((k + 1)..(k + TopK))
    BY QueryRouterAssumption
  <2>2. IsFiniteSet((k + 1)..(k + TopK))
    BY QueryRouterAssumption, FS_Interval
  <2>3. D \subseteq Nat \ {0}
    BY QueryRouterAssumption
  <2> HIDE DEF D
  <2> QED BY <2>1, <2>2, <2>3, FS_Subset
<1>2. Common(k) = ProductSet(D)
  BY DEF Common
<1>3. \A i \in 1..TopK : k + i \in D
  OBVIOUS
<1> HIDE DEF D
<1> QED BY <1>1, <1>2, <1>3, ProductIsMultiple

LEMMA BetterPlaceEarnsMore ==
  ASSUME NEW k \in Nat, NEW w \in Nat \ {0}, NEW i \in 1..TopK, NEW j \in 1..TopK, i < j
  PROVE  Points(w, k, i) > Points(w, k, j)
<1>1. PICK p \in Nat : Common(k) = (k + i) * p
  BY CommonIsMultiple
<1>2. PICK q \in Nat : Common(k) = (k + j) * q
  BY CommonIsMultiple
<1>3. /\ k + i \in Nat \ {0} /\ k + j \in Nat \ {0} /\ k + i < k + j
  BY QueryRouterAssumption
<1>4. Common(k) \div (k + i) = p /\ Common(k) \div (k + j) = q
  BY <1>1, <1>2, <1>3, ExactQuotient
<1>5. p > q
  <2>1. Common(k) # 0
    BY CommonIsMultiple
  <2> QED BY <1>1, <1>2, <1>3, <2>1, SmallerShare
<1>6. w * p > w * q
  <2>1. p = q + (p - q) /\ p - q \in Nat \ {0}
    BY <1>5
  <2>2. w * p = w * q + w * (p - q)
    BY <2>1
  <2>3. w * (p - q) \in Nat \ {0} /\ w * q \in Nat
    BY <2>1
  <2> QED BY <2>2, <2>3
<1> QED BY <1>4, <1>6 DEF Points

LEMMA PointsAreNumbers ==
  ASSUME NEW k \in Nat, NEW w \in Nat, NEW i \in 1..TopK
  PROVE  Points(w, k, i) \in Nat
<1>1. PICK p \in Nat : Common(k) = (k + i) * p
  BY CommonIsMultiple
<1>2. k + i \in Nat \ {0}
  BY QueryRouterAssumption
<1>3. Common(k) \div (k + i) = p
  BY <1>1, <1>2, ExactQuotient
<1>4. w * p \in Nat
  OBVIOUS
<1> QED BY <1>3, <1>4 DEF Points

(* The place of an id of a ranking.                                          *)
LEMMA RankIsPlace ==
  ASSUME NEW s \in Rankings, NEW x \in Range(s)
  PROVE  Rank(s, x) \in 1..TopK /\ Rank(s, x) \in DOMAIN s /\ s[Rank(s, x)] = x
<1>1. PICK n \in 0..TopK : s \in [1..n -> Ids]
  BY DEF Rankings
<1>2. \E i \in DOMAIN s : s[i] = x
  BY DEF Range
<1>3. Rank(s, x) \in DOMAIN s /\ s[Rank(s, x)] = x
  BY <1>2 DEF Rank
<1>4. DOMAIN s = 1..n /\ n \in Nat /\ n <= TopK
  BY <1>1, QueryRouterAssumption
<1> QED BY <1>3, <1>4, QueryRouterAssumption

(* A list of rankings with the weight each has in the fusion.                *)
Fusible(ls) == /\ IsFiniteSet(DOMAIN ls)
               /\ \A m \in DOMAIN ls : ls[m].results \in Rankings /\ ls[m].weight \in Nat

LEMMA TermsOfScore ==
  ASSUME NEW ls, Fusible(ls), NEW k \in Nat, NEW x
  PROVE  /\ IsFiniteSet(Counted(ls, x))
         /\ [m \in Counted(ls, x) |-> Points(ls[m].weight, k, Rank(ls[m].results, x))]
              \in [Counted(ls, x) -> Nat]
<1>1. Counted(ls, x) \in SUBSET DOMAIN ls
  BY DEF Counted, Holding
<1>2. ASSUME NEW m \in Counted(ls, x)
      PROVE  Points(ls[m].weight, k, Rank(ls[m].results, x)) \in Nat
  <2>1. ls[m].results \in Rankings /\ ls[m].weight \in Nat /\ x \in Range(ls[m].results)
    BY DEF Counted, Holding, Fusible
  <2>2. Rank(ls[m].results, x) \in 1..TopK
    BY <2>1, RankIsPlace
  <2> QED BY <2>1, <2>2, PointsAreNumbers
<1> QED BY <1>1, <1>2, FS_Subset DEF Fusible

(* What every list that holds y places above y has a higher score.           *)
LEMMA AgreedScore ==
  ASSUME NEW ls, Fusible(ls), \A m \in DOMAIN ls : ls[m].weight > 0, NEW k \in Nat, NEW x, NEW y,
         Holding(ls, y) # {}, \A m \in Holding(ls, y) : Above(ls[m].results, x, y)
  PROVE  Score(ls, k, x) > Score(ls, k, y)
<1> DEFINE v == [m \in Counted(ls, x) |-> Points(ls[m].weight, k, Rank(ls[m].results, x))]
           w == [m \in Counted(ls, y) |-> Points(ls[m].weight, k, Rank(ls[m].results, y))]
<1>1. Counted(ls, y) \in SUBSET Counted(ls, x) /\ Counted(ls, y) # {}
  BY DEF Counted, Holding, Above
<1>2. IsFiniteSet(Counted(ls, x)) /\ v \in [Counted(ls, x) -> Nat] /\ w \in [Counted(ls, y) -> Nat]
  BY TermsOfScore
<1>3. ASSUME NEW m \in Counted(ls, y)
      PROVE  v[m] > w[m]
  <2> DEFINE r == ls[m].results
  <2>1. /\ r \in Rankings /\ ls[m].weight \in Nat \ {0} /\ x \in Range(r) /\ y \in Range(r)
        /\ Rank(r, x) < Rank(r, y)
    BY DEF Counted, Holding, Fusible, Above
  <2>2. Rank(r, x) \in 1..TopK /\ Rank(r, y) \in 1..TopK
    BY <2>1, RankIsPlace
  <2>3. Points(ls[m].weight, k, Rank(r, x)) > Points(ls[m].weight, k, Rank(r, y))
    BY <2>1, <2>2, BetterPlaceEarnsMore
  <2>4. m \in Counted(ls, x)
    BY <1>1
  <2> QED BY <2>3, <2>4
<1>4. Score(ls, k, x) = SumFunction(v) /\ Score(ls, k, y) = SumFunction(w)
  BY DEF Score
<1> HIDE DEF v, w
<1> QED BY <1>1, <1>2, <1>3, <1>4, SumsCompare

(* Fusion keeps what all lists agree on: what every list that holds the later *)
(* of two results places behind the other is placed behind it in the fusion,  *)
(* whatever the positive weights and the constant of rrf.rs are.              *)
THEOREM FusionKeepsAgreement ==
  ASSUME NEW ls, Fusible(ls), \A m \in DOMAIN ls : ls[m].weight > 0, NEW k \in Nat, NEW x, NEW y,
         Holding(ls, y) # {}, \A m \in Holding(ls, y) : Above(ls[m].results, x, y),
         NEW s \in Fused(ls, k), y \in Range(s)
  PROVE  Above(s, x, y)
<1> DEFINE found == UNION {Range(ls[m].results) : m \in DOMAIN ls}
           n     == Cut(Cardinality(found))
<1>1. Score(ls, k, x) > Score(ls, k, y)
  BY AgreedScore
<1>2. Score(ls, k, x) \in Nat /\ Score(ls, k, y) \in Nat
  <2>1. ASSUME NEW z PROVE Score(ls, k, z) \in Nat
    <3> DEFINE w == [m \in Counted(ls, z) |-> Points(ls[m].weight, k, Rank(ls[m].results, z))]
    <3>1. IsFiniteSet(Counted(ls, z)) /\ w \in [Counted(ls, z) -> Nat]
      BY TermsOfScore
    <3>2. Score(ls, k, z) = SumFunction(w)
      BY DEF Score
    <3> HIDE DEF w
    <3>3. PICK h \in [SUBSET Counted(ls, z) -> Nat] : SumFunction(w) = h[Counted(ls, z)]
      BY <3>1, SumSumsUp
    <3> QED BY <3>2, <3>3
  <2> QED BY <2>1
<1>3. x \in found
  BY DEF Holding, Above
<1>4. s \in Rankings
  BY FusedIsRanking DEF Fusible
<1>5. /\ s \in [1..n -> found]
      /\ \A i, j \in 1..n : i < j => Score(ls, k, s[i]) >= Score(ls, k, s[j])
      /\ \A z \in found \ Range(s) : \A i \in 1..n : Score(ls, k, s[i]) >= Score(ls, k, z)
  BY DEF Fused
<1> HIDE DEF n, found
<1>6. Rank(s, y) \in 1..n /\ s[Rank(s, y)] = y
  BY <1>4, <1>5, RankIsPlace
<1>7. x \in Range(s)
  <2> SUFFICES ASSUME x \notin Range(s) PROVE FALSE
    OBVIOUS
  <2>1. Score(ls, k, y) >= Score(ls, k, x)
    BY <1>3, <1>5, <1>6
  <2> QED BY <1>1, <1>2, <2>1
<1>8. Rank(s, x) \in 1..n /\ s[Rank(s, x)] = x
  BY <1>4, <1>5, <1>7, RankIsPlace
<1>9. Rank(s, x) \in Nat /\ Rank(s, y) \in Nat
  BY <1>4, <1>7, RankIsPlace
<1>10. ~(Rank(s, y) < Rank(s, x))
  <2> SUFFICES ASSUME Rank(s, y) < Rank(s, x) PROVE FALSE
    OBVIOUS
  <2>1. Score(ls, k, y) >= Score(ls, k, x)
    BY <1>5, <1>6, <1>8
  <2> QED BY <1>1, <1>2, <2>1
<1>11. Rank(s, x) # Rank(s, y)
  BY <1>1, <1>2, <1>6, <1>8
<1>12. Rank(s, x) < Rank(s, y)
  BY <1>9, <1>10, <1>11
<1> QED BY <1>7, <1>12 DEF Above

(* Fusion does not depend on the order of the lists: merge_signals and         *)
(* merge_rrf key their map by id, so results may come in as they are found     *)
(* and nodes may answer in any order.                                          *)
THEOREM FusionIgnoresOrder ==
  ASSUME NEW ls, Fusible(ls), NEW k \in Nat, NEW p \in Bijection(DOMAIN ls, DOMAIN ls)
  PROVE  Fused([m \in DOMAIN ls |-> ls[p[m]]], k) = Fused(ls, k)
<1> DEFINE os == [m \in DOMAIN ls |-> ls[p[m]]]
<1>1. /\ p \in [DOMAIN ls -> DOMAIN ls]
      /\ \A m, n \in DOMAIN ls : p[m] = p[n] => m = n
      /\ \A y \in DOMAIN ls : \E m \in DOMAIN ls : p[m] = y
  BY DEF Bijection, Injection, IsInjective, Surjection
<1>2. DOMAIN os = DOMAIN ls /\ \A m \in DOMAIN ls : os[m] = ls[p[m]]
  OBVIOUS
<1> HIDE DEF os
<1>3. Fusible(os)
  BY <1>1, <1>2 DEF Fusible
<1>4. ASSUME NEW x
      PROVE  Score(os, k, x) = Score(ls, k, x)
  <2> DEFINE v == [m \in Counted(os, x) |-> Points(os[m].weight, k, Rank(os[m].results, x))]
             w == [m \in Counted(ls, x) |-> Points(ls[m].weight, k, Rank(ls[m].results, x))]
             q == [m \in Counted(os, x) |-> p[m]]
  <2>1. /\ IsFiniteSet(Counted(os, x)) /\ v \in [Counted(os, x) -> Nat]
        /\ IsFiniteSet(Counted(ls, x)) /\ w \in [Counted(ls, x) -> Nat]
    BY <1>3, TermsOfScore
  <2>2. \A m \in DOMAIN ls : m \in Counted(os, x) <=> p[m] \in Counted(ls, x)
    BY <1>1, <1>2 DEF Counted, Holding
  <2>3. Counted(os, x) \subseteq DOMAIN ls /\ Counted(ls, x) \subseteq DOMAIN ls
    BY <1>2 DEF Counted, Holding
  <2>4. q \in Bijection(Counted(os, x), Counted(ls, x))
    <3>1. q \in [Counted(os, x) -> Counted(ls, x)]
      BY <2>2, <2>3
    <3>2. \A m, n \in Counted(os, x) : q[m] = q[n] => m = n
      BY <1>1, <2>3
    <3>3. \A y \in Counted(ls, x) : \E m \in Counted(os, x) : q[m] = y
      BY <1>1, <2>2, <2>3
    <3> QED BY <3>1, <3>2, <3>3 DEF Bijection, Injection, IsInjective, Surjection
  <2>5. \A m \in Counted(os, x) : v[m] = w[q[m]]
    BY <1>2, <2>2, <2>3
  <2>6. Score(os, k, x) = SumFunction(v) /\ Score(ls, k, x) = SumFunction(w)
    BY DEF Score
  <2> HIDE DEF v, w, q
  <2> QED BY <2>1, <2>4, <2>5, <2>6, SumsReorder
<1>5. UNION {Range(os[m].results) : m \in DOMAIN os} = UNION {Range(ls[m].results) : m \in DOMAIN ls}
  BY <1>1, <1>2
<1> DEFINE found == UNION {Range(ls[m].results) : m \in DOMAIN ls}
           n     == Cut(Cardinality(found))
           Sorted(l, s) ==
             /\ \A i, j \in 1..n : i < j => s[i] # s[j] /\ Score(l, k, s[i]) >= Score(l, k, s[j])
             /\ \A x \in found \ Range(s) : \A i \in 1..n : Score(l, k, s[i]) >= Score(l, k, x)
<1>6. /\ Fused(os, k) = {s \in [1..n -> found] : Sorted(os, s)}
      /\ Fused(ls, k) = {s \in [1..n -> found] : Sorted(ls, s)}
  BY <1>5, Zenon DEF Fused
<1>7. \A s : Sorted(os, s) <=> Sorted(ls, s)
  <2> HIDE DEF n, found
  <2> QED BY <1>4
<1>8. Fused(os, k) = Fused(ls, k)
  <2> HIDE DEF n, found, Sorted
  <2> QED BY <1>6, <1>7
<1> QED BY <1>8 DEF os
-----------------------------------------------------------------------------
(* The merged list is one the merger may produce from the lists of the round. *)
MergedInv == step = "judge" => merged \in Merged(lists)

LEMMA MergedStep == MergedInv /\ [Next]_vars => MergedInv'
<1> SUFFICES ASSUME MergedInv, [Next]_vars
             PROVE  MergedInv'
  OBVIOUS
<1>1. CASE Merge
  <2>1. merged' \in Merged(lists) /\ lists' = lists
    BY <1>1 DEF Merge
  <2> QED BY <2>1 DEF MergedInv
<1>2. CASE ~Merge
  <2>1. step' = "judge" => step = "judge" /\ merged' = merged /\ lists' = lists
    BY <1>2 DEF Next, vars, Plan, Embed, Fail, Fuse, VectorSearch, KeywordSearch,
       GraphSearch, AskNodes, NodeAnswers, NodeFails, Answer, Expand
  <2> QED BY <2>1 DEF MergedInv
<1> QED BY <1>1, <1>2

LEMMA MergerKeepsAgreement ==
  ASSUME NEW ls \in Seq(Rankings), NEW s \in Merged(ls), NEW x, NEW y,
         \E m \in DOMAIN ls : y \in Range(ls[m]),
         \A m \in DOMAIN ls : y \in Range(ls[m]) => Above(ls[m], x, y),
         y \in Range(s)
  PROVE  Above(s, x, y)
<1>1. CASE Len(ls) = 1
  <2>1. s = ls[1] /\ 1 \in DOMAIN ls
    BY <1>1 DEF Merged
  <2> QED BY <2>1
<1>2. CASE Len(ls) # 1
  <2> DEFINE ws == [m \in DOMAIN ls |-> Signal(ls[m], 1)]
  <2>1. s \in Fused(ws, 60)
    BY <1>2 DEF Merged
  <2>2. /\ DOMAIN ws = DOMAIN ls
        /\ \A m \in DOMAIN ls : ws[m].results = ls[m] /\ ws[m].weight = 1
    BY DEF Signal
  <2>3. IsFiniteSet(DOMAIN ls)
    <3>1. DOMAIN ls = 1..Len(ls) /\ Len(ls) \in Nat
      OBVIOUS
    <3> QED BY <3>1, FS_Interval
  <2>4. \A m \in DOMAIN ls : ls[m] \in Rankings
    OBVIOUS
  <2> HIDE DEF ws
  <2>5. Fusible(ws) /\ \A m \in DOMAIN ws : ws[m].weight > 0
    BY <2>2, <2>3, <2>4 DEF Fusible
  <2>6. /\ Holding(ws, y) # {}
        /\ \A m \in Holding(ws, y) : Above(ws[m].results, x, y)
    BY <2>2 DEF Holding
  <2> QED BY <2>1, <2>5, <2>6, FusionKeepsAgreement
<1> QED BY <1>1, <1>2

(* An id that every list with y places above y is above y in the merged list: *)
(* ResultMerger::merge_rrf keeps what all stores and nodes agree on, for any   *)
(* number of lists and of results asked for.                                  *)
THEOREM AgreementIsAlwaysKept == Spec => []AgreementIsKept
<1>1. Init => MergedInv
  BY DEF Init, MergedInv
<1>2. TypeOK /\ MergedInv => AgreementIsKept
  <2> SUFFICES ASSUME TypeOK, MergedInv, step = "judge", NEW x \in Ids, NEW y \in Ids,
                      \E m \in DOMAIN lists : y \in Range(lists[m]),
                      \A m \in DOMAIN lists : y \in Range(lists[m]) => Above(lists[m], x, y),
                      y \in Range(merged)
               PROVE  Above(merged, x, y)
    BY DEF AgreementIsKept
  <2>1. lists \in Seq(Rankings) /\ merged \in Merged(lists)
    BY DEF TypeOK, MergedInv
  <2> QED BY <2>1, MergerKeepsAgreement
<1> QED BY <1>1, <1>2, MergedStep, TypeCorrectness, PTL DEF Spec
-----------------------------------------------------------------------------
(* Until the answer is chosen, the first round's list is what was merged.   *)
FirstInv == step = "judge" /\ round = 1 => first = merged

LEMMA FirstStep == TypeOK /\ FirstInv /\ [Next]_vars => FirstInv'
<1> SUFFICES ASSUME TypeOK, FirstInv, [Next]_vars
             PROVE  FirstInv'
  OBVIOUS
<1>1. CASE Merge
  BY <1>1 DEF Merge, FirstInv
<1>2. CASE ~Merge
  BY <1>2 DEF FirstInv, Next, vars, Plan, Embed, Fail, Fuse, VectorSearch, KeywordSearch,
     GraphSearch, AskNodes, NodeAnswers, NodeFails, Answer, Expand
<1> QED BY <1>1, <1>2

(* One step: an answer is chosen from a list that is not empty, if the      *)
(* first round's is not, and reordering it loses nothing.                   *)
LEMMA AnswerStep ==
  ASSUME TypeOK, FirstInv, NEW low \in BOOLEAN, NEW expandable \in BOOLEAN,
         Answer(low, expandable), first # << >>
  PROVE  merged' # << >>
<1>1. Best(low) \in Rankings /\ Best(low) # << >>
  BY DEF TypeOK, FirstInv, Answer, Best, Convincing
<1>2. merged' \in Rankings /\ Range(merged') = Range(Best(low))
  BY DEF Answer, Reordered
<1> QED BY <1>1, <1>2, RankingForm

LEMMA FoundStep ==
  ASSUME TypeOK, FirstInv, [Next]_vars
  PROVE  \/ /\ step' = "failed" => Needed
            /\ step' = "answered" /\ first # << >> => merged' # << >>
         \/ UNCHANGED vars
<1>1. CASE \E low, expandable \in BOOLEAN : Answer(low, expandable)
  <2>1. PICK low \in BOOLEAN, expandable \in BOOLEAN : Answer(low, expandable)
    BY <1>1
  <2>2. first # << >> => merged' # << >>
    BY <2>1, AnswerStep
  <2>3. step' = "answered"
    BY <2>1 DEF Answer
  <2> QED BY <2>2, <2>3
<1>2. CASE ~\E low, expandable \in BOOLEAN : Answer(low, expandable)
  BY <1>2 DEF TypeOK, Next, vars, Plan, Embed, Fail, Fuse, Merge, VectorSearch, KeywordSearch,
     GraphSearch, AskNodes, NodeAnswers, NodeFails, Expand
<1> QED BY <1>1, <1>2

(* A query fails only where it uses the record store, the model or the      *)
(* vector store, and never answers nothing when the first round found       *)
(* something: route() for any number of stores and nodes.                   *)
THEOREM FoundIsAlwaysAnswered == Spec => FoundIsAnswered
<1>1. Init => FirstInv
  BY DEF Init, FirstInv
<1>2. TypeOK /\ FirstInv /\ [Next]_vars
      => [/\ step' = "failed" => Needed
          /\ step' = "answered" /\ first # << >> => merged' # << >>]_vars
  BY FoundStep
<1> QED BY <1>1, <1>2, FirstStep, TypeCorrectness, PTL DEF Spec, FoundIsAnswered
=============================================================================
