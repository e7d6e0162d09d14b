----------------------------- MODULE StoreBoot -----------------------------
(***************************************************************************)
(* How the record store comes into being: first start, later starts, the   *)
(* migration of a 0.8 SQLite database, the schema upgrade that every       *)
(* opening runs, and a process that dies anywhere in between               *)
(* (src/main.rs open_store_or_bail, src/migrate, src/store/migrations.rs). *)
(*                                                                         *)
(* One process has the store at a time.  Rows of the SQLite database are   *)
(* numbered in the order in which they are copied: row 1 is the owner,     *)
(* row 2 the owner's personal store.  A step that fails ends the process   *)
(* just as its death does, with what it wrote before.                      *)
(***************************************************************************)
EXTENDS Integers, FiniteSets

CONSTANTS
  RowCount,  \* rows of the SQLite database
  Tagged     \* those of them that are articles with tags

ASSUME StoreBootAssumption ==
  /\ RowCount \in Nat /\ RowCount >= 2
  /\ Tagged \subseteq 3..RowCount

Rows      == 1..RowCount
Positions == 1..(RowCount + 1)
OwnerRow == 1
PersonalStoreRow == 2

VARIABLES
  legacy,   \* is there a SQLite database
  dir,      \* does the SurrealDB directory have a file in it
  marker,   \* is migration_completed one of them
  rows,     \* per row of the SQLite database "none", or its copy:
            \* "copied", or "edited" since
  fresh,    \* what a first start has created
  version,  \* the schema version on record
  edges,    \* articles whose tags are TAGGED edges
  at,       \* where the process stands
  command,  \* what it runs
  next,     \* the next row to copy
  refusal,  \* what the last start was told
  begun,    \* history: a first migration has begun and not ended
  origin,   \* history: what was installed before
  refused   \* history: articles with an edge that the store refused

vars == <<legacy, dir, marker, rows, fresh, version, edges, at, command, next,
          refusal, begun, origin, refused>>
data == <<rows, fresh, edges, refused>>
past == <<legacy, origin>>

Commands == {"start", "reindex", "migrate", "migrate --force"}
Opening  == {"connect", "schema", "tags", "version"}
Stops    == Opening \cup {"down", "owner", "store", "copy", "up"}

\* Seeded faults: a start that does not insist on the marker; a marker that
\* stops nothing; an upgrade that forgets p1; a copy that ends one row late.
ReadyIfPresent            == dir
AlreadyMigratedNever(cmd) == FALSE
NeedsTagsP2               == version = "p2"
OneTooMany                == next <= RowCount + 1

Ready       == dir /\ marker
Interrupted == dir /\ ~marker
Unmigrated  == ~dir /\ legacy
AlreadyMigrated(cmd) == marker /\ cmd = "migrate"
NeedsTags   == version = "p1"
MoreRows    == next <= RowCount

Migrating == command \in {"migrate", "migrate --force"}

(* What may be found on a machine: nothing, a 0.8 installation, or a 1.0     *)
(* installation of schema p1 that was migrated and used.                     *)
Init ==
  /\ origin \in {"nothing", "0.8", "p1"}
  /\ legacy \in BOOLEAN
  /\ origin = "nothing" => ~legacy
  /\ origin = "0.8" => legacy
  /\ dir = (origin = "p1")
  /\ marker = (origin = "p1")
  /\ version = IF origin = "p1" THEN "p1" ELSE "none"
  /\ rows \in [Rows -> IF origin = "p1" THEN {"copied", "edited"} ELSE {"none"}]
  /\ fresh = {}
  /\ edges = {}
  /\ at = "down"
  /\ command = "start"
  /\ next = 1
  /\ refusal = "none"
  /\ begun = FALSE
  /\ refused = {}

-----------------------------------------------------------------------------
(* Commands look at the files before they open anything.                     *)
RefuseStart ==
  /\ at = "down"
  /\ \/ Interrupted /\ refusal' = "interrupted"
     \/ Unmigrated /\ refusal' = "unmigrated"
  /\ UNCHANGED <<past, data, dir, marker, version, at, command, next, begun>>

Begin(cmd) ==
  /\ at = "down"
  /\ at' = "connect"
  /\ command' = cmd
  /\ next' = 1
  /\ refusal' = "none"
  /\ UNCHANGED <<past, data, dir, marker, version, begun>>

Start   == Begin("start") /\ (Ready \/ ~(dir \/ Unmigrated))
Reindex == Begin("reindex") /\ Ready

Migrate(cmd) ==
  /\ Begin(cmd)
  /\ legacy
  /\ ~AlreadyMigrated(cmd)

-----------------------------------------------------------------------------
(* SurrealStore::open.                                                       *)
Connect ==
  /\ at = "connect"
  /\ at' = "schema"
  /\ dir' = TRUE
  /\ begun' = (begun \/ (Migrating /\ ~marker))
  /\ UNCHANGED <<past, data, marker, version, command, next, refusal>>

\* run_migrations defines the tables, which changes no row, and reads the version.
Schema ==
  /\ at = "schema"
  /\ at' = IF NeedsTags THEN "tags" ELSE "version"
  /\ UNCHANGED <<past, data, dir, marker, version, command, next, refusal, begun>>

\* An edge that the store refuses is skipped, whatever the reason.
TagArticle(r) ==
  /\ at = "tags"
  /\ r \in Tagged \ (edges \cup refused)
  /\ rows[r] # "none"
  /\ \/ edges' = edges \cup {r} /\ UNCHANGED refused
     \/ refused' = refused \cup {r} /\ UNCHANGED edges
  /\ UNCHANGED <<past, dir, marker, rows, fresh, version, at, command, next, refusal, begun>>

TagsDone ==
  /\ at = "tags"
  /\ \A r \in Tagged : rows[r] # "none" => r \in edges \cup refused
  /\ at' = "version"
  /\ UNCHANGED <<past, data, dir, marker, version, command, next, refusal, begun>>

RecordVersion ==
  /\ at = "version"
  /\ version' = "p3"
  /\ at' = CASE Migrating -> "copy" [] command = "start" -> "owner" [] OTHER -> "up"
  /\ UNCHANGED <<past, data, dir, marker, command, next, refusal, begun>>

-----------------------------------------------------------------------------
(* A start makes sure that there is an owner.                                *)
HasOwner == rows[OwnerRow] # "none" \/ "owner" \in fresh

FindOwner ==
  /\ at = "owner"
  /\ HasOwner
  /\ at' = "up"
  /\ UNCHANGED <<past, data, dir, marker, version, command, next, refusal, begun>>

CreateOwner ==
  /\ at = "owner"
  /\ ~HasOwner
  /\ at' = "store"
  /\ fresh' = fresh \cup {"owner"}
  /\ UNCHANGED <<past, dir, marker, rows, version, edges, command, next, refusal, begun, refused>>

CreatePersonalStore ==
  /\ at = "store"
  /\ at' = "up"
  /\ fresh' = fresh \cup {"store"}
  /\ UNCHANGED <<past, dir, marker, rows, version, edges, command, next, refusal, begun, refused>>

-----------------------------------------------------------------------------
(* migrate copies table after table, row after row, over what is there.      *)
CopyRow ==
  /\ at = "copy"
  /\ MoreRows
  /\ rows' = [rows EXCEPT ![next] = "copied"]
  /\ next' = next + 1
  /\ UNCHANGED <<past, dir, marker, fresh, version, edges, at, command, refusal, begun, refused>>

WriteMarker ==
  /\ at = "copy"
  /\ ~MoreRows
  /\ marker' = TRUE
  /\ begun' = FALSE
  /\ at' = "down"
  /\ UNCHANGED <<past, data, dir, version, command, next, refusal>>

-----------------------------------------------------------------------------
\* The service changes a row.
Edit(r) ==
  /\ at = "up"
  /\ command = "start"
  /\ rows[r] # "none"
  /\ rows' = [rows EXCEPT ![r] = "edited"]
  /\ UNCHANGED <<past, dir, marker, fresh, version, edges, at, command, next, refusal, begun, refused>>

\* The command ends, fails or is killed.
Exit ==
  /\ at # "down"
  /\ at' = "down"
  /\ UNCHANGED <<past, data, dir, marker, version, command, next, refusal, begun>>

Next ==
  \/ RefuseStart \/ Start \/ Reindex
  \/ \E cmd \in {"migrate", "migrate --force"} : Migrate(cmd)
  \/ Connect \/ Schema \/ (\E r \in Tagged : TagArticle(r)) \/ TagsDone \/ RecordVersion
  \/ FindOwner \/ CreateOwner \/ CreatePersonalStore
  \/ CopyRow \/ WriteMarker
  \/ (\E r \in Rows : Edit(r)) \/ Exit

Spec == Init /\ [][Next]_vars

-----------------------------------------------------------------------------
(* The shape of every variable.                                              *)
TypeOK ==
  /\ legacy \in BOOLEAN /\ dir \in BOOLEAN /\ marker \in BOOLEAN /\ begun \in BOOLEAN
  /\ rows \in [Rows -> {"none", "copied", "edited"}]
  /\ fresh \subseteq {"owner", "store"}
  /\ version \in {"none", "p1", "p3"}
  /\ edges \subseteq Tagged /\ refused \subseteq Tagged
  /\ at \in Stops
  /\ command \in Commands
  /\ next \in Positions
  /\ refusal \in {"none", "interrupted", "unmigrated"}
  /\ origin \in {"nothing", "0.8", "p1"}

(* The marker is there only if every row was copied, although the process    *)
(* may die between any two rows and be started again.                        *)
MarkerMeansComplete == marker => \A r \in Rows : rows[r] # "none"

(* A service that is up has an owner and the owner's personal store, and,    *)
(* where there is a database to migrate, all of it.                          *)
UpMeansReady ==
  at = "up" =>
    /\ \/ rows[OwnerRow] # "none" /\ rows[PersonalStoreRow] # "none"
       \/ fresh = {"owner", "store"}
    /\ legacy => \A r \in Rows : rows[r] # "none"

(* A start never creates an owner of its own beside the one that is or will  *)
(* be migrated; get_owner_user would return either.                          *)
OneOwner == "owner" \in fresh => ~legacy /\ \A r \in Rows : rows[r] = "none"

(* Once the version says so, the tags of a p1 database are edges, however    *)
(* often the upgrade was cut short; but for edges that the store refused.    *)
TagsUpgraded == origin = "p1" /\ version = "p3" => Tagged \subseteq edges \cup refused

(* Only migrate --force writes over what the service has changed.            *)
EditsSurvive ==
  [][\A r \in Rows : rows[r] = "edited" /\ rows'[r] # "edited" =>
       command = "migrate --force"]_vars

(* src/main.rs:468 tells the user of a start that is refused "A previous     *)
(* migration was interrupted."  Nobody would mind if it were said of a first *)
(* start that was itself cut short.                                          *)
RefusalIsTrue == refusal = "interrupted" => begun \/ fresh # {"owner", "store"}
=============================================================================
