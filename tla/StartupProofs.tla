---------------------------- MODULE StartupProofs ----------------------------
(***************************************************************************)
(* Proofs about what a start passes before anything runs: the record store *)
(* (StoreBoot), for any number of rows and any tagged articles; the PID    *)
(* file (AgentProcess), for any number of ids and of starts; and the table *)
(* of capabilities (CapabilityRegistry), for any number of calls.          *)
(*                                                                         *)
(* About the store: between two commands nothing is remembered but what is *)
(* on disk; so the invariant says what the files and the stop of the       *)
(* process tell about one another: how far a copy has come, that a start   *)
(* is only ever under way with a marker or without a database to migrate,  *)
(* and how much of a first start is done.                                  *)
(***************************************************************************)
EXTENDS StoreBoot, AgentProcess, CapabilityRegistry, TLAPS

AllRows == \A r \in Rows : rows[r] # "none"
NoRows  == \A r \in Rows : rows[r] = "none"

\* What the files say.
FilesInv ==
  /\ MarkerMeansComplete
  /\ marker \/ at \notin {"down", "connect"} => dir
  /\ ~dir => fresh = {}
  /\ ~marker /\ ~legacy => NoRows
  /\ "owner" \in fresh => ~legacy /\ NoRows

\* What the stop says: how far a copy has come.
CopyInv ==
  /\ Migrating /\ at # "down" => legacy
  /\ at \in Opening => next = 1
  /\ at = "copy" => Migrating /\ \A r \in Rows : r < next => rows[r] # "none"

\* How far a start has come.
StartInv ==
  /\ command = "start" /\ at # "down" => marker \/ ~legacy
  /\ command = "reindex" /\ at # "down" => marker
  /\ at \in {"owner", "store"} => command = "start"
  /\ command = "start" /\ ~marker /\ at \in Opening \cup {"owner"} => fresh = {}
  /\ at = "store" => ~marker /\ fresh = {"owner"}
  /\ at = "up" => marker \/ fresh = {"owner", "store"}

\* How far the upgrade has come.
TagsInv ==
  /\ version = "p1" => origin = "p1"
  /\ origin = "p1" => AllRows /\ version # "none"
  /\ at = "version" /\ version = "p1" => Tagged \subseteq edges \cup refused
  /\ TagsUpgraded

IInv == TypeOK /\ FilesInv /\ CopyInv /\ StartInv /\ TagsInv
-----------------------------------------------------------------------------
\* Arithmetic of the copy.
LEMMA CopyArithmetic ==
  ASSUME NEW n \in Positions
  PROVE  /\ n <= RowCount => n \in Rows /\ n + 1 \in Positions
         /\ ~(n <= RowCount) => \A r \in Rows : r < n
         /\ \A r \in Rows : r < n + 1 => r < n \/ r = n
  BY StoreBootAssumption DEF Rows, Positions

LEMMA RowsStartAtOne == \A r \in Rows : ~(r < 1)
  BY StoreBootAssumption DEF Rows

LEMMA TaggedAreRows == Tagged \subseteq Rows
  BY StoreBootAssumption DEF Rows

LEMMA InitIInv == Init => IInv
<1> SUFFICES ASSUME Init PROVE IInv
  OBVIOUS
<1> USE DEF Init
<1>0. 1 \in Positions
  BY StoreBootAssumption DEF Positions
<1>1. TypeOK
  BY <1>0 DEF TypeOK, Commands, Stops
<1>2. FilesInv /\ CopyInv /\ StartInv /\ TagsInv
  BY DEF FilesInv, CopyInv, StartInv, TagsInv, MarkerMeansComplete, NoRows, AllRows,
         TagsUpgraded, Migrating, Opening
<1> QED
  BY <1>1, <1>2 DEF IInv

LEMMA TypeStep == IInv /\ [Next]_vars => TypeOK'
<1> SUFFICES ASSUME TypeOK, [Next]_vars PROVE TypeOK'
  BY DEF IInv
<1>0. 1 \in Positions
  BY StoreBootAssumption DEF Positions
<1>14. CASE UNCHANGED vars
  BY <1>14 DEF vars, TypeOK
<1> USE DEF TypeOK, Commands, Stops, Opening, data, past
<1>1. CASE RefuseStart
  BY <1>1 DEF RefuseStart
<1>2. ASSUME NEW cmd \in Commands, Begin(cmd)
      PROVE  TypeOK'
  BY <1>0, <1>2 DEF Begin
<1>3. CASE Start \/ Reindex \/ \E cmd \in {"migrate", "migrate --force"} : Migrate(cmd)
  BY <1>2, <1>3 DEF Start, Reindex, Migrate
<1>4. CASE Connect
  BY <1>4 DEF Connect
<1>5. CASE Schema
  BY <1>5 DEF Schema
<1>6. CASE \E r \in Tagged : TagArticle(r)
  <2>1. edges' \subseteq Tagged /\ refused' \subseteq Tagged
    BY <1>6 DEF TagArticle
  <2> QED
    BY <1>6, <2>1, ZenonT(40) DEF TagArticle
<1>7. CASE TagsDone
  BY <1>7 DEF TagsDone
<1>8. CASE RecordVersion
  <2>1. at' \in {"copy", "owner", "up"}
    BY <1>8 DEF RecordVersion
  <2> QED
    BY <1>8, <2>1, ZenonT(40) DEF RecordVersion
<1>9. CASE FindOwner \/ CreateOwner \/ CreatePersonalStore
  <2>1. CASE FindOwner
    BY <2>1 DEF FindOwner
  <2>2. CASE CreateOwner
    BY <2>2 DEF CreateOwner
  <2>3. CASE CreatePersonalStore
    BY <2>3 DEF CreatePersonalStore
  <2> QED
    BY <1>9, <2>1, <2>2, <2>3
<1>10. CASE CopyRow
  <2>1. next' \in Positions
    BY <1>10, CopyArithmetic DEF CopyRow, MoreRows
  <2>2. rows' \in [Rows -> {"none", "copied", "edited"}]
    BY <1>10 DEF CopyRow
  <2> QED
    BY <1>10, <2>1, <2>2 DEF CopyRow
<1>11. CASE WriteMarker
  BY <1>11 DEF WriteMarker
<1>12. CASE \E r \in Rows : Edit(r)
  BY <1>12 DEF Edit
<1>13. CASE Exit
  BY <1>13 DEF Exit
<1> QED
  BY <1>1, <1>3, <1>4, <1>5, <1>6, <1>7, <1>8, <1>9, <1>10, <1>11, <1>12, <1>13, <1>14 DEF Next

\* Commands begin, or are refused.
LEMMA BeginStep ==
  ASSUME IInv,
         RefuseStart \/ Start \/ Reindex \/ \E cmd \in {"migrate", "migrate --force"} : Migrate(cmd)
  PROVE  FilesInv' /\ CopyInv' /\ StartInv' /\ TagsInv'
<1> USE DEF IInv, TypeOK, FilesInv, CopyInv, StartInv, TagsInv, MarkerMeansComplete, NoRows,
            AllRows, TagsUpgraded, Migrating, Opening, data, past
<1>1. CASE RefuseStart
  BY <1>1 DEF RefuseStart
<1>2. CASE Start
  BY <1>2 DEF Start, Begin, Ready, Unmigrated
<1>3. CASE Reindex
  BY <1>3 DEF Reindex, Begin, Ready
<1>4. ASSUME NEW cmd \in {"migrate", "migrate --force"}, Migrate(cmd)
      PROVE  FilesInv' /\ CopyInv' /\ StartInv' /\ TagsInv'
  BY <1>4 DEF Migrate, Begin
<1> QED
  BY <1>1, <1>2, <1>3, <1>4

\* The store is opened and its schema upgraded.
LEMMA OpenStep ==
  ASSUME IInv,
         Connect \/ Schema \/ (\E r \in Tagged : TagArticle(r)) \/ TagsDone \/ RecordVersion
  PROVE  FilesInv' /\ CopyInv' /\ StartInv' /\ TagsInv'
<1> USE DEF IInv, TypeOK, FilesInv, CopyInv, StartInv, TagsInv, MarkerMeansComplete, NoRows,
            AllRows, TagsUpgraded, Migrating, Opening, data, past
<1>1. CASE Connect
  BY <1>1 DEF Connect
<1>2. CASE Schema
  BY <1>2 DEF Schema, NeedsTags
<1>3. ASSUME NEW r \in Tagged, TagArticle(r)
      PROVE  FilesInv' /\ CopyInv' /\ StartInv' /\ TagsInv'
  BY <1>3 DEF TagArticle
<1>4. CASE TagsDone
  BY <1>4, TaggedAreRows DEF TagsDone
<1>5. CASE RecordVersion
  <2>1. at' \in {"copy", "owner", "up"} /\ (at' = "copy" <=> Migrating)
        /\ (at' = "owner" <=> command = "start")
    BY <1>5 DEF RecordVersion
  <2> QED
    <3>1. FilesInv'
      BY <1>5 DEF RecordVersion
    <3>2. CopyInv'
      <4>1. \A r \in Rows : ~(r < next)
        <5>1. next = 1
          BY <1>5 DEF RecordVersion
        <5> QED
          BY <5>1, RowsStartAtOne
      <4> QED
        BY <1>5, <2>1, <4>1 DEF RecordVersion
    <3>3. StartInv'
      BY <1>5, <2>1 DEF RecordVersion, Commands
    <3>4. TagsInv'
      BY <1>5 DEF RecordVersion
    <3> QED
      BY <3>1, <3>2, <3>3, <3>4
<1> QED
  BY <1>1, <1>2, <1>3, <1>4, <1>5

\* The owner and her store are found or created.
LEMMA OwnerStep ==
  ASSUME IInv, FindOwner \/ CreateOwner \/ CreatePersonalStore
  PROVE  FilesInv' /\ CopyInv' /\ StartInv' /\ TagsInv'
<1>0. OwnerRow \in Rows
  BY StoreBootAssumption DEF OwnerRow, Rows
<1> USE DEF IInv, TypeOK, FilesInv, CopyInv, StartInv, TagsInv, MarkerMeansComplete, NoRows,
            AllRows, TagsUpgraded, Migrating, Opening, data, past
<1>1. CASE FindOwner
  BY <1>0, <1>1 DEF FindOwner, HasOwner
<1>2. CASE CreateOwner
  <2>1. ~marker /\ ~legacy /\ NoRows /\ fresh = {} /\ dir
    BY <1>0, <1>2 DEF CreateOwner, HasOwner
  <2>2. FilesInv' /\ CopyInv'
    BY <1>2, <2>1 DEF CreateOwner
  <2>3. StartInv' /\ TagsInv'
    BY <1>2, <2>1 DEF CreateOwner
  <2> QED
    BY <2>2, <2>3
<1>3. CASE CreatePersonalStore
  BY <1>3 DEF CreatePersonalStore
<1> QED
  BY <1>1, <1>2, <1>3

\* Rows are copied and the marker written.
LEMMA CopyStep ==
  ASSUME IInv, CopyRow \/ WriteMarker
  PROVE  FilesInv' /\ CopyInv' /\ StartInv' /\ TagsInv'
<1> USE DEF IInv, TypeOK, FilesInv, CopyInv, StartInv, TagsInv, MarkerMeansComplete, NoRows,
            AllRows, TagsUpgraded, Migrating, Opening, data, past
<1>1. CASE CopyRow
  <2>1. legacy /\ next \in Rows
    BY <1>1, CopyArithmetic DEF CopyRow, MoreRows
  <2>2. \A r \in Rows : rows'[r] = IF r = next THEN "copied" ELSE rows[r]
    BY <1>1, <2>1 DEF CopyRow
  <2>3. "owner" \notin fresh
    BY <2>1
  <2>4. FilesInv' /\ TagsInv'
    BY <1>1, <2>1, <2>2, <2>3 DEF CopyRow
  <2>5. CopyInv'
    <3>1. ASSUME NEW r \in Rows, r < next'
          PROVE  rows'[r] # "none"
      <4>1. r < next \/ r = next
        BY <1>1, <3>1, CopyArithmetic DEF CopyRow
      <4> QED
        BY <1>1, <2>2, <4>1 DEF CopyRow
    <3> QED
      BY <1>1, <3>1 DEF CopyRow
  <2>6. StartInv'
    BY <1>1 DEF CopyRow
  <2> QED
    BY <2>4, <2>5, <2>6
<1>2. CASE WriteMarker
  <2>1. AllRows /\ legacy
    BY <1>2, CopyArithmetic DEF WriteMarker, MoreRows
  <2>2. dir
    BY <1>2, <2>1 DEF WriteMarker
  <2> QED
    BY <1>2, <2>1, <2>2 DEF WriteMarker
<1> QED
  BY <1>1, <1>2

\* The service changes a row, or the process ends.
LEMMA RunStep ==
  ASSUME IInv, (\E r \in Rows : Edit(r)) \/ Exit \/ UNCHANGED vars
  PROVE  FilesInv' /\ CopyInv' /\ StartInv' /\ TagsInv'
<1> USE DEF IInv, TypeOK, FilesInv, CopyInv, StartInv, TagsInv, MarkerMeansComplete, NoRows,
            AllRows, TagsUpgraded, Migrating, Opening, data, past
<1>1. ASSUME NEW r \in Rows, Edit(r)
      PROVE  FilesInv' /\ CopyInv' /\ StartInv' /\ TagsInv'
  BY <1>1 DEF Edit
<1>2. CASE Exit
  BY <1>2 DEF Exit
<1>3. CASE UNCHANGED vars
  BY <1>3 DEF vars
<1> QED
  BY <1>1, <1>2, <1>3

(* The invariant holds however often commands are begun, fail or are killed. *)
THEOREM Invariance == Spec => []IInv
<1>1. IInv /\ [Next]_vars => IInv'
  <2> SUFFICES ASSUME IInv, [Next]_vars PROVE IInv'
    OBVIOUS
  <2>1. TypeOK'
    BY TypeStep
  <2>2. FilesInv' /\ CopyInv' /\ StartInv' /\ TagsInv'
    BY BeginStep, OpenStep, OwnerStep, CopyStep, RunStep DEF Next
  <2> QED
    BY <2>1, <2>2 DEF IInv
<1> QED
  BY InitIInv, <1>1, PTL DEF Spec

(* Every variable keeps its type.                                            *)
THEOREM TypeCorrectness == Spec => []TypeOK
<1>1. IInv => TypeOK
  BY DEF IInv
<1> QED
  BY Invariance, <1>1, PTL

(* The marker of a migration means that all of it is there.                  *)
THEOREM MarkerIsHonest == Spec => []MarkerMeansComplete
<1>1. IInv => MarkerMeansComplete
  BY DEF IInv, FilesInv
<1> QED
  BY Invariance, <1>1, PTL

(* A service that is up never sees half a migration or half a first start.   *)
THEOREM ServiceIsReady == Spec => []UpMeansReady
<1>1. OwnerRow \in Rows /\ PersonalStoreRow \in Rows
  BY StoreBootAssumption DEF OwnerRow, PersonalStoreRow, Rows
<1>2. IInv => UpMeansReady
  BY <1>1 DEF IInv, FilesInv, StartInv, MarkerMeansComplete, UpMeansReady
<1> QED
  BY Invariance, <1>2, PTL

(* No start creates a second owner.                                          *)
THEOREM OwnerIsUnique == Spec => []OneOwner
<1>1. IInv => OneOwner
  BY DEF IInv, FilesInv, OneOwner, NoRows
<1> QED
  BY Invariance, <1>1, PTL

(* An upgrade from p1 that is recorded was finished.                         *)
THEOREM UpgradeIsComplete == Spec => []TagsUpgraded
<1>1. IInv => TagsUpgraded
  BY DEF IInv, TagsInv
<1> QED
  BY Invariance, <1>1, PTL

\* Edits are made where there is a marker, and it stops every migration that
\* does not insist.
EditsInv ==
  /\ \A r \in Rows : rows[r] = "edited" => marker
  /\ command = "migrate" /\ at # "down" => ~marker

LEMMA EditsInvStep == IInv /\ EditsInv /\ [Next]_vars => EditsInv'
<1> SUFFICES ASSUME IInv, EditsInv, [Next]_vars PROVE EditsInv'
  OBVIOUS
<1> USE DEF EditsInv, data, past
<1>1. CASE RefuseStart \/ Start \/ Reindex
  BY <1>1 DEF RefuseStart, Start, Reindex, Begin
<1>2. ASSUME NEW cmd \in {"migrate", "migrate --force"}, Migrate(cmd) PROVE EditsInv'
  BY <1>2 DEF Migrate, Begin, AlreadyMigrated
<1>3. CASE Connect \/ Schema \/ (\E r \in Tagged : TagArticle(r)) \/ TagsDone \/ RecordVersion
  <2>1. command' = command /\ marker' = marker /\ rows' = rows /\ at # "down"
    BY <1>3 DEF Connect, Schema, TagArticle, TagsDone, RecordVersion
  <2> QED
    BY <2>1
<1>4. CASE FindOwner \/ CreateOwner \/ CreatePersonalStore
  <2>1. command' = command /\ marker' = marker /\ rows' = rows /\ at # "down"
    BY <1>4 DEF FindOwner, CreateOwner, CreatePersonalStore
  <2> QED
    BY <2>1
<1>5. CASE CopyRow \/ WriteMarker \/ Exit
  <2>1. CASE CopyRow
    BY <2>1 DEF CopyRow, IInv, TypeOK
  <2>2. CASE WriteMarker \/ Exit
    BY <2>2 DEF WriteMarker, Exit
  <2> QED
    BY <1>5, <2>1, <2>2
<1>6. ASSUME NEW r \in Rows, Edit(r) PROVE EditsInv'
  <2>1. marker
    BY <1>6 DEF Edit, IInv, FilesInv, StartInv, NoRows
  <2> QED
    BY <1>6, <2>1 DEF Edit
<1>7. CASE UNCHANGED vars
  BY <1>7 DEF vars
<1> QED
  BY <1>1, <1>2, <1>3, <1>4, <1>5, <1>6, <1>7 DEF Next

(* Only migrate --force writes over what the service has changed: a command  *)
(* that copies without it has found no marker, and so no row to be lost.     *)
THEOREM EditsAreKept == Spec => EditsSurvive
<1>1. Init => EditsInv
  BY DEF Init, EditsInv
<1>2. Spec => []EditsInv
  BY <1>1, Invariance, EditsInvStep, PTL DEF Spec
<1>3. IInv /\ EditsInv /\ [Next]_vars
      => [\A r \in Rows : rows[r] = "edited" /\ rows'[r] # "edited" =>
             command = "migrate --force"]_vars
  <2> SUFFICES ASSUME IInv, EditsInv, Next, NEW r \in Rows, rows[r] = "edited", rows'[r] # "edited"
               PROVE  command = "migrate --force"
    OBVIOUS
  <2>1. rows' # rows
    OBVIOUS
  <2>2. CASE CopyRow
    BY <2>2 DEF CopyRow, IInv, CopyInv, EditsInv, Migrating
  <2>3. CASE \E q \in Rows : Edit(q)
    BY <2>3 DEF Edit, IInv, TypeOK
  <2>4. CopyRow \/ (\E q \in Rows : Edit(q)) \/ rows' = rows
    BY DEF Next, RefuseStart, Start, Reindex, Migrate, Begin, Connect, Schema, TagArticle,
           TagsDone, RecordVersion, FindOwner, CreateOwner, CreatePersonalStore, WriteMarker,
           Exit, data
  <2> QED
    BY <2>1, <2>2, <2>3, <2>4
<1> QED
  BY <1>2, <1>3, Invariance, PTL DEF Spec, EditsSurvive
-----------------------------------------------------------------------------
(***************************************************************************)
(* The agent's process, for any number of ids and of starts.  While no     *)
(* command has met another one, what a start or a stop command has read is *)
(* still what the file says when it acts on it.                            *)
(***************************************************************************)
StopStands == {"idle", "check", "terminate", "wait", "remove"}

ProcTypeOK ==
  /\ process \in [Pids -> {"none", "stranger"} \cup Agent]
  /\ seen \in [Pids -> Pids \cup {NoPid}]
  /\ stop \in [at : StopStands, pid : Pids \cup {NoPid}]
  /\ overlap \in BOOLEAN
  /\ \A p \in Pids : process[p] = "check" => seen[p] \in Pids
  /\ stop.at # "idle" => stop.pid \in Pids

NobodyUp == \A q \in Pids : process[q] # "up"

\* One command at a time.
OneCommand ==
  /\ \A p, q \in Pids : process[p] \in Beginning /\ process[q] \in Beginning => p = q
  /\ stop.at # "idle" => \A p \in Pids : process[p] \notin Beginning

\* What a start knows: whom it has read of, or that nobody is up.
StartKnows ==
  \A p \in Pids :
    /\ process[p] = "check" => \A q \in Pids : process[q] = "up" => seen[p] = q
    /\ process[p] \in {"stale", "write", "fill", "guarded"} => NobodyUp
    /\ process[p] = "guarded" => pidFile = p

\* What a stop knows.
StopKnows ==
  /\ stop.at \in {"check", "terminate"} => \A q \in Pids : process[q] = "up" => stop.pid = q
  /\ stop.at \in {"wait", "remove"} => NobodyUp

UpIsInFile == \A p \in Pids : process[p] = "up" => pidFile = p

InTurn  == OneCommand /\ StartKnows /\ StopKnows /\ UpIsInFile
ProcInv == ProcTypeOK /\ (~overlap => InTurn)
-----------------------------------------------------------------------------
LEMMA ProcInitInv == ProcInit => ProcInv
<1> SUFFICES ASSUME ProcInit PROVE ProcTypeOK /\ InTurn
  BY DEF ProcInv
<1>1. \A p \in Pids : process[p] = "none"
  BY DEF ProcInit
<1>2. stop.at = "idle" /\ stop \in [at : StopStands, pid : Pids \cup {NoPid}]
  BY DEF ProcInit, Idle, StopStands
<1>3. ProcTypeOK
  BY <1>1, <1>2 DEF ProcInit, ProcTypeOK
<1>4. InTurn
  BY <1>1, <1>2 DEF InTurn, OneCommand, StartKnows, StopKnows, UpIsInFile, Beginning
<1> QED
  BY <1>3, <1>4

LEMMA ProcTypeStep == ProcInv /\ [ProcNext]_procVars => ProcTypeOK'
<1> SUFFICES ASSUME ProcTypeOK, [ProcNext]_procVars PROVE ProcTypeOK'
  BY DEF ProcInv
<1> USE AgentProcessAssumption DEF ProcTypeOK, Agent, Beginning, Becomes, Ends
<1>1. ASSUME NEW p \in Pids, ReadPid(p) PROVE ProcTypeOK'
  BY <1>1 DEF ReadPid, UnderWay
<1>2. ASSUME NEW p \in Pids, CheckPid(p) PROVE ProcTypeOK'
  BY <1>2 DEF CheckPid
<1>3. ASSUME NEW p \in Pids, RemoveStale(p) PROVE ProcTypeOK'
  BY <1>3 DEF RemoveStale
<1>4. ASSUME NEW p \in Pids, EmptyFile(p) PROVE ProcTypeOK'
  BY <1>4 DEF EmptyFile
<1>5. ASSUME NEW p \in Pids, WritePid(p) PROVE ProcTypeOK'
  BY <1>5 DEF WritePid
<1>6. ASSUME NEW p \in Pids, ComeUp(p) PROVE ProcTypeOK'
  BY <1>6 DEF ComeUp
<1>7. ASSUME NEW p \in Pids, FailEarly(p) PROVE ProcTypeOK'
  BY <1>7 DEF FailEarly
<1>8. ASSUME NEW p \in Pids, FailLate(p) PROVE ProcTypeOK'
  BY <1>8 DEF FailLate
<1>9. ASSUME NEW p \in Pids, Interrupt(p) PROVE ProcTypeOK'
  BY <1>9 DEF Interrupt
<1>10. ASSUME NEW p \in Pids, Quit(p) PROVE ProcTypeOK'
  BY <1>10 DEF Quit
<1>11. ASSUME NEW p \in Pids, Killed(p) PROVE ProcTypeOK'
  BY <1>11 DEF Killed
<1>12. ASSUME NEW p \in Pids, Stranger(p) PROVE ProcTypeOK'
  BY <1>12 DEF Stranger
<1>13. CASE ReadForStop
  BY <1>13 DEF ReadForStop, StopStands, UnderWay
<1>14. CASE CheckForStop
  BY <1>14 DEF CheckForStop, StopTo, StopStands
<1>15. CASE Terminate
  BY <1>15 DEF Terminate, StopTo, StopEnds, Idle, StopStands
<1>16. CASE KillHard
  BY <1>16 DEF KillHard, StopTo, StopStands
<1>17. CASE RemoveForStop
  BY <1>17 DEF RemoveForStop, StopEnds, Idle, StopStands
<1>18. CASE UNCHANGED procVars
  BY <1>18 DEF procVars
<1> QED
  BY <1>1, <1>2, <1>3, <1>4, <1>5, <1>6, <1>7, <1>8, <1>9, <1>10, <1>11, <1>12, <1>13,
     <1>14, <1>15, <1>16, <1>17, <1>18 DEF ProcNext

(* A command that meets no other one begins when none is under way.          *)
LEMMA NothingUnderWay ==
  ASSUME ~overlap', overlap' = (overlap \/ UnderWay)
  PROVE  stop.at = "idle" /\ \A q \in Pids : process[q] \notin Beginning
<1>1. ~UnderWay
  BY Zenon
<1> QED
  BY <1>1 DEF UnderWay

(* A start: nobody else begins, and nobody comes up but the one that did.    *)
LEMMA StartSteps ==
  ASSUME NEW p \in Pids, ProcInv, ~overlap', ~overlap, ProcTypeOK',
         \/ ReadPid(p) \/ CheckPid(p) \/ RemoveStale(p) \/ EmptyFile(p) \/ WritePid(p)
         \/ ComeUp(p) \/ FailEarly(p) \/ FailLate(p)
  PROVE  InTurn'
<1> USE DEF ProcInv, ProcTypeOK, InTurn, OneCommand, StartKnows, StopKnows, UpIsInFile, NobodyUp,
            Beginning, Agent, Becomes, Ends
<1>1. CASE ReadPid(p)
  <2>1. stop.at = "idle" /\ \A q \in Pids : process[q] \notin Beginning
    BY <1>1, NothingUnderWay DEF ReadPid
  <2>2. CASE pidFile \in Pids
    <3>1. process' = [process EXCEPT ![p] = "check"] /\ seen' = [seen EXCEPT ![p] = pidFile]
      BY <1>1, <2>2 DEF ReadPid
    <3> QED
      BY <1>1, <2>1, <3>1 DEF ReadPid
  <2>3. CASE pidFile \notin Pids
    <3>1. process' = [process EXCEPT ![p] = "write"] /\ NobodyUp
      BY <1>1, <2>3 DEF ReadPid
    <3> QED
      BY <1>1, <2>1, <3>1 DEF ReadPid
  <2> QED
    BY <2>2, <2>3
<1>2. CASE CheckPid(p)
  <2> PICK running \in SeenRunning(seen[p]) :
        IF AlreadyRunning(running) THEN Ends(p, "refused")
        ELSE /\ Becomes(p, "check", "stale")
             /\ seen' = [seen EXCEPT ![p] = NoPid] /\ UNCHANGED ended
    BY <1>2 DEF CheckPid
  <2>1. CASE running
    BY <1>2, <2>1 DEF CheckPid, AlreadyRunning
  <2>2. CASE ~running
    <3>1. process[seen[p]] \in {"none", "stranger"}
      BY <1>2, <2>2 DEF CheckPid, SeenRunning
    <3>2. NobodyUp
      BY <3>1, <1>2 DEF CheckPid
    <3> QED
      BY <1>2, <2>2, <3>2 DEF CheckPid, AlreadyRunning
  <2>3. running \in BOOLEAN
    BY DEF SeenRunning
  <2> QED
    BY <2>1, <2>2, <2>3
<1>3. CASE RemoveStale(p)
  BY <1>3 DEF RemoveStale
<1>4. CASE EmptyFile(p)
  BY <1>4 DEF EmptyFile
<1>5. CASE WritePid(p)
  BY <1>5 DEF WritePid
<1>6. CASE ComeUp(p)
  BY <1>6 DEF ComeUp
<1>7. CASE FailEarly(p)
  BY <1>7 DEF FailEarly
<1>8. CASE FailLate(p)
  BY <1>8 DEF FailLate
<1> QED
  BY <1>1, <1>2, <1>3, <1>4, <1>5, <1>6, <1>7, <1>8

(* The ways in which an agent ends, and a stranger, change what nobody knew. *)
LEMMA EndSteps ==
  ASSUME NEW p \in Pids, ProcInv, ~overlap', ~overlap, ProcTypeOK',
         Interrupt(p) \/ Quit(p) \/ Killed(p) \/ Stranger(p)
  PROVE  InTurn'
<1> USE DEF ProcInv, ProcTypeOK, InTurn, OneCommand, StartKnows, StopKnows, UpIsInFile, NobodyUp,
            Beginning, Agent, Becomes, Ends
<1>1. CASE Interrupt(p)
  BY <1>1 DEF Interrupt
<1>2. CASE Quit(p)
  BY <1>2 DEF Quit
<1>3. CASE Killed(p)
  BY <1>3 DEF Killed
<1>4. CASE Stranger(p)
  BY <1>4 DEF Stranger
<1> QED
  BY <1>1, <1>2, <1>3, <1>4

(* A stop: after the signal nobody is up, so the file names nobody that is.  *)
LEMMA StopSteps ==
  ASSUME ProcInv, ~overlap', ~overlap, ProcTypeOK',
         ReadForStop \/ CheckForStop \/ Terminate \/ KillHard \/ RemoveForStop
  PROVE  InTurn'
<1> USE DEF ProcInv, ProcTypeOK, InTurn, OneCommand, StartKnows, StopKnows, UpIsInFile, NobodyUp,
            Beginning, Agent, Becomes, Ends, StopTo, StopEnds, Idle
<1>1. CASE ReadForStop
  <2>1. \A q \in Pids : process[q] \notin Beginning
    BY <1>1, NothingUnderWay DEF ReadForStop
  <2> QED
    BY <1>1, <2>1 DEF ReadForStop
<1>2. CASE CheckForStop
  <2> PICK running \in SeenRunning(stop.pid) :
        StopTo("check", IF running THEN "terminate" ELSE "remove")
    BY <1>2 DEF CheckForStop
  <2>1. CASE running
    BY <1>2, <2>1 DEF CheckForStop
  <2>2. CASE ~running
    <3>1. process[stop.pid] \in {"none", "stranger"}
      BY <2>2 DEF SeenRunning
    <3>2. stop'.at = "remove" /\ NobodyUp
      BY <1>2, <2>2, <3>1 DEF CheckForStop
    <3> QED
      BY <1>2, <3>2 DEF CheckForStop
  <2> QED
    BY <2>1, <2>2
<1>3. CASE Terminate
  BY <1>3 DEF Terminate
<1>4. CASE KillHard
  BY <1>4 DEF KillHard
<1>5. CASE RemoveForStop
  BY <1>5 DEF RemoveForStop
<1> QED
  BY <1>1, <1>2, <1>3, <1>4, <1>5

(* Once commands have met, they have.                                        *)
LEMMA OverlapStays ==
  ASSUME ProcTypeOK, [ProcNext]_procVars, overlap
  PROVE  overlap'
  BY DEF ProcTypeOK, ProcNext, procVars, ReadPid, CheckPid, RemoveStale, EmptyFile, WritePid, ComeUp,
         FailEarly, FailLate, Interrupt, Quit, Killed, Stranger, ReadForStop, CheckForStop,
         Terminate, KillHard, RemoveForStop

THEOREM ProcInvariance == ProcSpec => []ProcInv
<1>1. ProcInv /\ [ProcNext]_procVars => ProcInv'
  <2> SUFFICES ASSUME ProcInv, [ProcNext]_procVars PROVE ProcInv'
    OBVIOUS
  <2>1. ProcTypeOK'
    BY ProcTypeStep
  <2>2. ASSUME ~overlap' PROVE InTurn'
    <3>1. ~overlap /\ InTurn
      BY <2>2, OverlapStays DEF ProcInv
    <3>2. CASE UNCHANGED procVars
      BY <3>1, <3>2 DEF procVars, InTurn, OneCommand, StartKnows, StopKnows, UpIsInFile, NobodyUp
    <3> QED
      BY <2>1, <2>2, <3>1, <3>2, StartSteps, EndSteps, StopSteps DEF ProcNext
  <2> QED
    BY <2>1, <2>2 DEF ProcInv
<1> QED
  BY <1>1, ProcInitInv, PTL DEF ProcSpec

(* As long as commands have come one after another, an agent that is up is   *)
(* the one in the file.                                                      *)
THEOREM RunningAgentIsKnown == ProcSpec => []RunningAgentIsFound
<1>1. ProcInv => RunningAgentIsFound
  BY DEF ProcInv, InTurn, UpIsInFile, RunningAgentIsFound
<1> QED
  BY ProcInvariance, <1>1, PTL
-----------------------------------------------------------------------------
(***************************************************************************)
(* The capabilities, for any names, services and calls.  Each call keeps   *)
(* to what it has read; where no other call had a name to do, the entry is *)
(* of the call that has listed the name last, so its handler will be too.  *)
(***************************************************************************)
Stages == {"idle", "asked", "listing", "handling"}
Calls ==
  [stage : Stages, source : Services \cup {Config, Nothing}, says : Says \cup Tells \cup {Nothing},
   reading : Nat, list : SUBSET Names, handle : SUBSET Names]

CapTypeOK ==
  /\ entries \in [Names -> Definitions \cup {Nothing}]
  /\ handlerOf \in [Names -> Definitions \cup {Nothing}]
  /\ calls \in [CallIds -> Calls]
  /\ readings \in Nat

\* What a call still has to do agrees with what it has read.
CallInv(c) ==
  /\ At(c, "idle") \/ At(c, "asked") => calls[c].list = {} /\ calls[c].handle = {}
  /\ At(c, "asked") => calls[c].source \in Services
  /\ At(c, "handling") => calls[c].list = {}
  /\ At(c, "listing") \/ At(c, "handling") =>
       /\ calls[c].source \in Services \cup {Config}
       /\ calls[c].says \in Says \cup Tells
       /\ \A n \in calls[c].handle : calls[c].says[n] = "remote"
  /\ \A n \in calls[c].list : Found(c, n) \in Definitions
  /\ \A n \in calls[c].list : Found(c, n).kind = "remote" => n \in calls[c].handle

CallsInv == \A c \in CallIds : CallInv(c)

LastListed ==
  \A n \in Names \ contested, c \in CallIds :
    n \in calls[c].handle \ calls[c].list => entries[n] = Found(c, n)

CapInv == CapTypeOK /\ CallsInv /\ LastListed /\ ListedIsHandled /\ TasksGoWhereListed
-----------------------------------------------------------------------------
LEMMA CapInitInv == CapabilitiesInit => CapInv
<1> SUFFICES ASSUME CapabilitiesInit PROVE CapInv
  OBVIOUS
<1> PICK says \in Says :
       /\ entries = [n \in Names |->
            IF says[n] # "absent" THEN Definition(Config, says[n], 1)
            ELSE IF n \in BuiltIn THEN Mine(n) ELSE Nothing]
       /\ handlerOf = [n \in Names |->
            IF says[n] = "remote" THEN Definition(Config, "remote", 1)
            ELSE IF n \in OwnHandler THEN Mine(n) ELSE Nothing]
  BY DEF CapabilitiesInit
<1>1. \A n \in Names : says[n] \in {"absent"} \cup Kinds
  BY DEF Says
<1>2. \A n \in Names : Mine(n) \in Definitions /\ Mine(n).kind = "local"
  BY DEF Mine, Definition, Definitions, Kinds
<1>3. \A kind \in Kinds : Definition(Config, kind, 1) \in Definitions
                        /\ Definition(Config, kind, 1).kind = kind
  BY DEF Definition, Definitions
<1>4. entries \in [Names -> Definitions \cup {Nothing}] /\ handlerOf \in [Names -> Definitions \cup {Nothing}]
  BY <1>1, <1>2, <1>3 DEF Kinds
<1>5. calls \in [CallIds -> Calls] /\ readings \in Nat
  BY DEF CapabilitiesInit, NoWork, Calls, Stages
<1>6. CallsInv /\ LastListed
  BY DEF CapabilitiesInit, NoWork, CallsInv, CallInv, LastListed, At
<1>7. \A n \in Names : RemoteEntry(n) => handlerOf[n] = entries[n] /\ handlerOf[n] # Nothing
  BY <1>1, <1>2, <1>3, CapabilityAssumption DEF RemoteEntry, Kinds
<1> QED
  BY <1>4, <1>5, <1>6, <1>7 DEF CapInv, CapTypeOK, ListedIsHandled, TasksGoWhereListed

LEMMA FoundStays ==
  ASSUME NEW c \in CallIds, NEW n, calls'[c].says = calls[c].says,
         calls'[c].source = calls[c].source, calls'[c].reading = calls[c].reading
  PROVE  Found(c, n)' = Found(c, n)
  BY DEF Found, Definition

(* A call begins with what it has read, or with an answer to wait for.       *)
LEMMA ReadSteps ==
  ASSUME NEW c \in CallIds, CapInv,
         ReadConfig(c) \/ Answered(c) \/ Unanswered(c) \/ \E s \in Services : Ask(c, s)
  PROVE  CapInv'
<1> USE DEF CapInv, CapTypeOK
<1> DEFINE old == calls[c]  new == calls'[c]
<1>1. /\ calls' \in [CallIds -> Calls] /\ \A d \in CallIds \ {c} : calls'[d] = calls[d]
      /\ readings' \in Nat /\ UNCHANGED <<entries, handlerOf, contested, dropped>>
      /\ CallInv(c)' /\ old.handle = {} /\ new.handle \subseteq new.list
  <2>1. old.handle = {}
    BY DEF CallsInv, CallInv, ReadConfig, Answered, Unanswered, Ask, At
  <2>2. NoWork \in Calls
    BY DEF NoWork, Calls, Stages
  <2>3. ASSUME NEW says \in Says, NEW k \in Nat
        PROVE  LET w == Work("listing", Config, says, k, {n \in Names : says[n] # "absent"})
               IN  w \in Calls
    BY DEF Work, Remote, Calls, Stages
  <2>4. ASSUME NEW says \in Tells, NEW s \in Services, NEW k \in Nat
        PROVE  LET w == Work("listing", s, says, k, ListedOf(says)) IN  w \in Calls
    BY DEF Work, Remote, ListedOf, Calls, Stages
  <2>5. CASE ReadConfig(c)
    <3> PICK says \in Says :
          calls' = [calls EXCEPT ![c] =
            Work("listing", Config, says, readings', {n \in Names : says[n] # "absent"})]
      BY <2>5 DEF ReadConfig, Does
    <3>1. readings' \in Nat
      BY <2>5, CapabilityAssumption DEF ReadConfig, Reading
    <3>2. new = Work("listing", Config, says, readings', {n \in Names : says[n] # "absent"})
      OBVIOUS
    <3>3. CallInv(c)'
      <4>1. new.stage = "listing" /\ new.source = Config /\ new.says = says /\ new.reading = readings'
            /\ new.list = {n \in Names : says[n] # "absent"} /\ new.handle = {n \in Names : says[n] = "remote"}
        BY <3>2 DEF Work, Remote
      <4>2. \A n \in new.list : says[n] \in Kinds /\ Found(c, n)' = Definition(Config, says[n], readings')
        BY <4>1 DEF Says, Found, Kinds
      <4>3. \A n \in new.list : Found(c, n)' \in Definitions /\ Found(c, n)'.kind = says[n]
        BY <3>1, <4>2 DEF Definition, Definitions
      <4>4. \A n \in new.list : Found(c, n)'.kind = "remote" => n \in new.handle
        BY <4>1, <4>3
      <4> HIDE DEF new
      <4> QED
        BY <4>1, <4>3, <4>4 DEF CallInv, At, new
    <3> QED
      BY <2>1, <2>3, <2>5, <3>1, <3>2, <3>3 DEF ReadConfig, capHistory, Work, Remote
  <2>6. CASE Answered(c)
    <3>0. old.source \in Services
      BY <2>6 DEF Answered, CallsInv, CallInv
    <3> PICK says \in Tells :
          calls' = [calls EXCEPT ![c] = Work("listing", old.source, says, readings', ListedOf(says))]
      BY <2>6 DEF Answered, Does
    <3>1. readings' \in Nat
      BY <2>6, CapabilityAssumption DEF Answered, Reading
    <3>2. new = Work("listing", old.source, says, readings', ListedOf(says))
      OBVIOUS
    <3>3. CallInv(c)'
      <4>1. new.stage = "listing" /\ new.source = old.source /\ new.says = says /\ new.reading = readings'
            /\ new.list = {n \in Names : says[n] = "remote"} /\ new.handle = new.list
        BY <3>2 DEF Work, Remote, ListedOf
      <4>2. \A n \in new.list : Found(c, n)' = Definition(old.source, "remote", readings')
        BY <4>1 DEF Found
      <4> QED
        BY <3>0, <3>1, <4>1, <4>2 DEF CallInv, At, Definition, Definitions, Kinds
    <3> QED
      BY <2>1, <2>4, <2>6, <3>0, <3>1, <3>2, <3>3 DEF Answered, capHistory, Work, Remote, ListedOf
  <2>7. CASE Unanswered(c)
    BY <2>1, <2>2, <2>7 DEF Unanswered, Does, NoWork, CallInv, At, capHistory
  <2>8. ASSUME NEW s \in Services, Ask(c, s) PROVE <1>1!:
    <3>1. calls' = [calls EXCEPT ![c] = [NoWork EXCEPT !.stage = "asked", !.source = s]]
      BY <2>8 DEF Ask, Does
    <3>2. new.stage = "asked" /\ new.source = s /\ new.list = {} /\ new.handle = {} /\ new \in Calls
      BY <3>1 DEF NoWork, Calls, Stages
    <3> QED
      BY <2>1, <2>8, <3>1, <3>2 DEF Ask, CallInv, At, capHistory
  <2> QED
    BY <2>5, <2>6, <2>7, <2>8
<1>2. CallsInv' /\ LastListed'
  <2>1. ASSUME NEW d \in CallIds, d # c PROVE CallInv(d)'
    BY <1>1, <2>1, FoundStays DEF CallsInv, CallInv, At
  <2>2. ASSUME NEW d \in CallIds, NEW n \in Names \ contested, n \in calls'[d].handle \ calls'[d].list
        PROVE  entries[n] = Found(d, n)'
    <3>1. d # c
      BY <1>1, <2>2
    <3> QED
      BY <1>1, <2>2, <3>1, FoundStays DEF LastListed
  <2> QED
    BY <1>1, <2>1, <2>2 DEF CallsInv, LastListed
<1>3. \A n \in Names : ToBeHandled(n) => ToBeHandled(n)'
  BY <1>1 DEF ToBeHandled
<1> QED
  BY <1>1, <1>2, <1>3 DEF ListedIsHandled, TasksGoWhereListed, RemoteEntry

(* The entry changes, and the call that changes it is the last one.          *)
LEMMA ListStep ==
  ASSUME NEW c \in CallIds, NEW n \in Names, CapInv, List(c, n)
  PROVE  CapInv'
<1> USE DEF CapInv, CapTypeOK
<1> DEFINE new == calls'[c]
<1>1. /\ entries' = [entries EXCEPT ![n] = Found(c, n)]
      /\ calls' = [calls EXCEPT ![c].list = @ \ {n}]
      /\ n \in calls[c].list /\ UNCHANGED <<handlerOf, readings>>
      /\ At(c, "listing") /\ dropped' = dropped \ {n}
  BY DEF List
<1>2. Found(c, n) \in Definitions /\ (Found(c, n).kind = "remote" => n \in calls[c].handle)
  BY <1>1 DEF CallsInv, CallInv
<1>3. /\ \A d \in CallIds \ {c} : calls'[d] = calls[d]
      /\ new = [calls[c] EXCEPT !.list = @ \ {n}] /\ calls' \in [CallIds -> Calls]
      /\ \A d \in CallIds : calls'[d].handle = calls[d].handle
  BY <1>1 DEF Calls
<1>4. /\ new.stage = calls[c].stage /\ new.says = calls[c].says /\ new.source = calls[c].source
      /\ new.reading = calls[c].reading /\ new.list = calls[c].list \ {n}
      /\ new.handle = calls[c].handle
  BY <1>3 DEF Calls
<1>5. \A d \in CallIds, k \in Names : Found(d, k)' = Found(d, k)
  BY <1>3, <1>4, FoundStays
<1>6. CapTypeOK'
  BY <1>1, <1>2, <1>3
<1>7. CallsInv'
  <2>1. CallInv(c)'
    BY <1>1, <1>4, <1>5 DEF CallsInv, CallInv, At, Calls
  <2>2. ASSUME NEW d \in CallIds \ {c} PROVE CallInv(d)'
    BY <1>3, <2>2, FoundStays DEF CallsInv, CallInv, At
  <2> QED
    BY <2>1, <2>2 DEF CallsInv
<1>8. LastListed'
  <2> SUFFICES ASSUME NEW k \in Names, k \notin contested', NEW d \in CallIds,
                      k \in calls'[d].handle \ calls'[d].list
               PROVE  entries'[k] = Found(d, k)
    BY <1>5 DEF LastListed
  <2>1. CASE k = n
    <3>1. HasToDo(n) = {c}
      BY <2>1 DEF List
    <3>2. d \in HasToDo(n)
      BY <1>3, <2>1 DEF HasToDo
    <3> QED
      BY <1>1, <2>1, <3>1, <3>2
  <2>2. CASE k # n
    <3>1. k \notin contested
      BY <2>2 DEF List
    <3>2. k \in calls[d].handle \ calls[d].list
      BY <1>3, <1>4, <2>2
    <3> QED
      BY <1>1, <2>2, <3>1, <3>2 DEF LastListed
  <2> QED
    BY <2>1, <2>2
<1>9. \A k \in Names : ToBeHandled(k)' = ToBeHandled(k)
  BY <1>3 DEF ToBeHandled
<1>10. RemoteEntry(n)' => ToBeHandled(n)
  BY <1>1, <1>2 DEF RemoteEntry, ToBeHandled
<1>11. ASSUME NEW k \in Names, k # n
       PROVE  /\ RemoteEntry(k)' = RemoteEntry(k) /\ entries'[k] = entries[k]
              /\ (k \in dropped' <=> k \in dropped) /\ (k \in contested' <=> k \in contested)
  BY <1>1, <1>11 DEF RemoteEntry, List
<1>12. ListedIsHandled' /\ TasksGoWhereListed'
  BY <1>1, <1>9, <1>10, <1>11 DEF ListedIsHandled, TasksGoWhereListed
<1> QED
  BY <1>6, <1>7, <1>8, <1>12

(* The handler follows the entry.                                            *)
LEMMA HandleStep ==
  ASSUME NEW c \in CallIds, NEW n \in Names, CapInv, RegisterRemote(c, n)
  PROVE  CapInv'
<1> USE DEF CapInv, CapTypeOK
<1> DEFINE new == calls'[c]
<1>1. /\ handlerOf' = [handlerOf EXCEPT ![n] = Found(c, n)]
      /\ calls' = [calls EXCEPT ![c].handle = @ \ {n}]
      /\ n \in calls[c].handle /\ UNCHANGED <<entries, readings, dropped, contested>>
      /\ At(c, "handling")
  BY DEF RegisterRemote, PutHandler, capHistory
<1>2. calls[c].list = {} /\ Found(c, n) = Definition(calls[c].source, "remote", calls[c].reading)
      /\ calls[c].source \in Services \cup {Config} /\ calls[c].reading \in Nat
  BY <1>1 DEF CallsInv, CallInv, Found, Calls, At
<1>3. Found(c, n) \in Definitions
  BY <1>2 DEF Definition, Definitions, Kinds
<1>4. Found(c, n) # Nothing
  BY <1>3, CapabilityAssumption
<1>5. /\ \A d \in CallIds \ {c} : calls'[d] = calls[d]
      /\ new = [calls[c] EXCEPT !.handle = @ \ {n}] /\ calls' \in [CallIds -> Calls]
  BY <1>1 DEF Calls
<1>6. /\ new.stage = calls[c].stage /\ new.says = calls[c].says /\ new.source = calls[c].source
      /\ new.reading = calls[c].reading /\ new.list = calls[c].list
      /\ new.handle = calls[c].handle \ {n}
  BY <1>5 DEF Calls
<1>7. \A d \in CallIds, k \in Names : Found(d, k)' = Found(d, k)
  BY <1>5, <1>6, FoundStays
<1>8. CapTypeOK'
  BY <1>1, <1>3, <1>5
<1>9. CallsInv'
  <2>1. CallInv(c)'
    BY <1>1, <1>2, <1>6 DEF CallsInv, CallInv, At
  <2>2. ASSUME NEW d \in CallIds \ {c} PROVE CallInv(d)'
    BY <1>5, <2>2, FoundStays DEF CallsInv, CallInv, At
  <2> QED
    BY <2>1, <2>2 DEF CallsInv
<1>10. LastListed'
  BY <1>1, <1>5, <1>6, <1>7 DEF LastListed
<1>11. n \notin contested => handlerOf'[n] = entries'[n]
  BY <1>1, <1>2 DEF LastListed
<1>12. ASSUME NEW k \in Names, k # n
       PROVE  handlerOf'[k] = handlerOf[k] /\ ToBeHandled(k)' = ToBeHandled(k)
  BY <1>1, <1>5, <1>6, <1>12 DEF ToBeHandled
<1>13. handlerOf'[n] = Found(c, n)
  BY <1>1
<1>14. \A k \in Names : RemoteEntry(k)' = RemoteEntry(k)
  BY <1>1 DEF RemoteEntry
<1>15. ListedIsHandled' /\ TasksGoWhereListed'
  BY <1>1, <1>4, <1>11, <1>12, <1>13, <1>14 DEF ListedIsHandled, TasksGoWhereListed
<1> QED
  BY <1>8, <1>9, <1>10, <1>15

(* The ends of a call: what it leaves to be done is dropped.                 *)
LEMMA EndCallSteps ==
  ASSUME NEW c \in CallIds, CapInv, Return(c) \/ DropCall(c)
  PROVE  CapInv'
<1> USE DEF CapInv, CapTypeOK
<1>1. /\ calls' = [calls EXCEPT ![c] = NoWork]
      /\ UNCHANGED <<entries, handlerOf, readings, contested>>
      /\ dropped' = dropped \cup calls[c].handle
  BY DEF Return, DropCall, Does, capHistory
<1>2. NoWork \in Calls /\ NoWork.handle = {} /\ NoWork.list = {} /\ NoWork.stage = "idle"
  BY DEF NoWork, Calls, Stages
<1>3. \A d \in CallIds \ {c} : calls'[d] = calls[d] /\ calls'[c] = NoWork
  BY <1>1
<1>4. CallsInv'
  <2>1. calls'[c] = NoWork
    BY <1>1
  <2>2. CallInv(c)'
    BY <1>2, <2>1 DEF CallInv, At
  <2>3. ASSUME NEW d \in CallIds \ {c} PROVE CallInv(d)'
    BY <1>3, <2>3, FoundStays DEF CallsInv, CallInv, At
  <2> QED
    BY <2>2, <2>3 DEF CallsInv
<1>5. LastListed'
  <2> SUFFICES ASSUME NEW k \in Names \ contested, NEW d \in CallIds,
                      k \in calls'[d].handle \ calls'[d].list
               PROVE  entries[k] = Found(d, k)'
    BY <1>1 DEF LastListed
  <2>1. d # c
    BY <1>1, <1>2
  <2> QED
    BY <1>3, <2>1, FoundStays DEF LastListed
<1>6. \A k \in Names \ dropped' : ToBeHandled(k) => ToBeHandled(k)'
  BY <1>1, <1>3 DEF ToBeHandled
<1>7. ListedIsHandled' /\ TasksGoWhereListed'
  BY <1>1, <1>6 DEF ListedIsHandled, TasksGoWhereListed, RemoteEntry
<1> QED
  BY <1>1, <1>2, <1>4, <1>5, <1>7

LEMMA ListedStep ==
  ASSUME NEW c \in CallIds, CapInv, Listed(c)
  PROVE  CapInv'
<1> USE DEF CapInv, CapTypeOK
<1>1. /\ calls' = [calls EXCEPT ![c].stage = "handling"] /\ calls[c].list = {} /\ At(c, "listing")
      /\ UNCHANGED <<entries, handlerOf, readings, contested, dropped>>
  BY DEF Listed, capHistory
<1>2. /\ \A d \in CallIds \ {c} : calls'[d] = calls[d] /\ calls' \in [CallIds -> Calls]
      /\ calls'[c] = [calls[c] EXCEPT !.stage = "handling"]
  BY <1>1 DEF Calls, Stages
<1>3. \A d \in CallIds : /\ calls'[d].says = calls[d].says /\ calls'[d].source = calls[d].source
                         /\ calls'[d].reading = calls[d].reading /\ calls'[d].list = calls[d].list
                         /\ calls'[d].handle = calls[d].handle
  BY <1>1 DEF Calls
<1>4. \A d \in CallIds, k \in Names : Found(d, k)' = Found(d, k)
  BY <1>3, FoundStays
<1>5. CallsInv'
  <2>1. calls'[c].stage = "handling"
    BY <1>1 DEF Calls
  <2>2. CallInv(c)'
    BY <1>1, <1>3, <2>1 DEF CallsInv, CallInv, At
  <2>3. ASSUME NEW d \in CallIds \ {c} PROVE CallInv(d)'
    BY <1>2, <2>3, FoundStays DEF CallsInv, CallInv, At
  <2> QED
    BY <2>2, <2>3 DEF CallsInv
<1>6. \A k \in Names : ToBeHandled(k)' = ToBeHandled(k)
  BY <1>3 DEF ToBeHandled
<1>7. LastListed' /\ ListedIsHandled' /\ TasksGoWhereListed'
  BY <1>1, <1>3, <1>4, <1>6 DEF LastListed, ListedIsHandled, TasksGoWhereListed, RemoteEntry
<1>8. calls' \in [CallIds -> Calls]
  BY <1>1, ZenonT(40) DEF Calls, Stages
<1> QED
  BY <1>1, <1>5, <1>7, <1>8

THEOREM CapInvariance == CapabilitiesSpec => []CapInv
<1>1. CapInv /\ [CapabilitiesNext]_capVars => CapInv'
  <2> SUFFICES ASSUME CapInv, [CapabilitiesNext]_capVars PROVE CapInv'
    OBVIOUS
  <2>1. ASSUME UNCHANGED <<entries, handlerOf, calls, readings, capHistory>> PROVE CapInv'
    BY <2>1 DEF CapInv, CapTypeOK, CallsInv, CallInv, LastListed, ListedIsHandled, TasksGoWhereListed,
                At, Found, Definition, RemoteEntry, ToBeHandled, capHistory
  <2>2. (\E s \in Services : GrowStale(s)) \/ UNCHANGED capVars
        => UNCHANGED <<entries, handlerOf, calls, readings, capHistory>>
    BY DEF GrowStale, capVars, capHistory
  <2> QED
    BY <2>1, <2>2, ReadSteps, ListStep, HandleStep, EndCallSteps, ListedStep DEF CapabilitiesNext
<1> QED
  BY <1>1, CapInitInv, PTL DEF CapabilitiesSpec

(* A remote capability that is listed has a handler, or a call under way will *)
(* register one, unless that call was dropped.                               *)
THEOREM ListedCapabilitiesAreHandled == CapabilitiesSpec => []ListedIsHandled
<1>1. CapInv => ListedIsHandled
  BY DEF CapInv
<1> QED
  BY CapInvariance, <1>1, PTL

(* Where calls have not met over a name, its tasks go where its entry says.  *)
THEOREM TasksGoToTheListed == CapabilitiesSpec => []TasksGoWhereListed
<1>1. CapInv => TasksGoWhereListed
  BY DEF CapInv
<1> QED
  BY CapInvariance, <1>1, PTL
=============================================================================
