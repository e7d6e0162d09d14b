# A verification project for knowledge-nexus-local

`knowledge-nexus-local` is a daemon that keeps a local knowledge base (articles,
conversations, an embedded document store and an embedded vector store) and
answers other programs over the K2K protocol: HTTP for clients and peer nodes, a
WebSocket to a hub.  This directory holds TLA+ modules of its stateful parts, the
TLC configurations that check them on small instances, and proofs of what matters
most, checked by TLAPS for every value of the constants.  Sources are named
relative to the repository root.

To check one part: `tlc -config MCSubmission.cfg MCSubmission.tla`; to prove
one: `tlapm TaskQueueProofs.tla`.  `PROJECT.json` lists the runs, the mutants (for
every checked property one plausible slip in the code that breaks it), the lines
each definition stands for, the hazards, the findings and the theorems.

## 1. Inventory

| component | state it keeps | operations | hard behaviour |
|---|---|---|---|
| task queue, `src/k2k/tasks.rs` | map of task entries behind a lock, semaphore of slots, broadcast channel, one progress channel per task | register_handler, submit, execution coroutine, progress forwarder, cancel, get_status, subscribe | every await is a point where a cancellation, a report or another task gets in |
| rate limiter, `src/k2k/tasks.rs` | timestamps per client behind a lock | check, cleanup | boundary of the window, two clock reads, rounding of Retry-After |
| article service, `src/knowledge/articles.rs` | article rows, document vectors, dedup queue, entity counts and edges, in two stores without a common transaction | create, update, delete, backfill, `dedup review` (another process) | dedup check before insert, partial failure between the stores, concurrent updates |
| record store, `src/store/` | SurrealDB tables, schema version | CRUD, upserts, schema migrations | idempotence of migrations after a crash |
| start-up and migration, `src/main.rs`, `src/migrate/` | the two database files, the `migration_completed` marker, the owner and the personal store | start, migrate, migrate --force | crash between two writes, repeated starts |
| keys and authentication, `src/k2k/keys.rs`, `middleware.rs` | the node's two key files, registered client keys in memory and in the store, JSON file of an older version | start, register, approve, reject, check | memory written before the store, restart in between, an import that must not be repeated |
| capability registry, `src/k2k/capabilities.rs` | entries of capabilities, the queue's handlers, when each service was discovered | start, refresh, discover, list | two tables under two locks, calls that meet, hang-ups between them |
| event stream, `src/k2k/handlers.rs` | a cursor per subscriber in the broadcast channel | subscribe, receive, lag | bounded channel, slow subscriber |
| hub connection, `src/connection/` | connection state, attempt counter, outgoing channel, heartbeat task | connect, authenticate, receive, send, reconnect | reconnect with backoff, bounded channel filled by the loop that drains it |
| node discovery, `src/discovery/` | table of nodes in the record store, a channel of mDNS events, receives left behind | register, health check | snapshot read before an await, events lost by a timed-out receive |
| federation, `src/federation/` | agreements | remote query | nodes that fail or answer late |
| file index, `src/search/`, `src/vectordb/` | the watcher's channel and debounce table, documents and chunks | watch, reindex, reindex --force | full channel, leading-edge debounce, two writers of one index |
| entity graph, `src/knowledge/articles.rs`, `src/store/` | entities with a mention count, MENTIONS and RELATED_TO edges | extract, backfill; articles come and go meanwhile | one query at a time, no transaction, an extraction may break off anywhere |
| query router and retrieval, `src/router/`, `src/retrieval/` | the lists of one query | plan, search, ask nodes, merge, rerank, search again | optional searches and nodes that fail, rank fusion, two rounds |
| connectors, `src/connectors/` | registry of connectors | register, ingest | outcome of a duplicate |
| agent process, `src/main.rs`, `src/config/`, `src/tray/` | PID file, the processes and their ids | start, stop, Ctrl+C, Quit | stale PID file, ids given out again, commands that overlap |
| configuration, `src/config/`, `src/ui/` | one file | read, rewrite | two writers with stale copies |

Components interact by calls on shared `Arc`s: the HTTP handlers call the task
queue, the article service, the key manager and the registry; task handlers call
the vector store and remote nodes; the tasks publish to the event stream; the
article service writes to the record store first and the vector store second.

What makes each part correct:

* task queue: no slot leaks, at most as many executions as slots, status, result,
  error and event stream agree at every point, an outcome is final, every task
  ends.
* rate limiter: never more than the limit in any span of a window; a client that
  waits as told is admitted.
* article service: one article per content hash and store but where creates overlap or
  an update brings the hash; vectors and rows agree when nothing is in flight; no
  vectors without a row.
* entity graph: counts cover the edges, articles that share an entity are related,
  strengths are fractions.
* query router: what is found is answered, and fusion keeps what all lists agree on.
* start-up: a store that was opened once opens again; a crash at any point of a
  migration or a first start leaves a state from which the next start succeeds.
* keys: what the store says of a client after a restart is what was answered
  before it.
* hub connection: it comes back after every loss of the connection, and the loop
  never waits for itself.
* file index: once nothing is left to do for a file its rows are its text, and no
  error ends the watcher.
* node discovery: who was announced last is in the table at its address, checks do
  not undo that, and health becomes true.
* agent process: the PID file names the agent that is up.
* capabilities: what is listed is handled, and by what its entry says.

## 2. Modules and code

A module's name for a thing is the code's where TLA+ allows it.  An action is what
the code does up to the next point where someone else can get in: an await, a
lock given back, a query to a database.  `MC*.tla` gives the constants small
values; every cfg names its bounds.

**TaskQueue** (`src/k2k/tasks.rs`) has one coroutine per task (`pc`), the fields
of its entry (`request`, `status`, `result`, `error`, `progress`), the semaphore
(`permits`, and `waiters` in order), the progress channel of each task (`sent`,
`taken`, `told`) and the broadcast events (`log`).  `RegisterHandler`, `Submit`
and `Cancel` are the calls of clients; `Enqueue`, `Acquire`, `MarkRunning`,
`Start`, `Complete` and `FailOrTimeOut` the steps of the coroutine; `Report` is
the handler's; `StoreProgress` and `TellProgress` the forwarder's.  A lagging
subscriber and the article quota of `submit` are left out.
**SlotPool** is what a client can rely on, without locks, channels and events: a
job waits, is active in one of the slots and ends once.  `PoolSpec` says that
TaskQueue implements it, with `phases` and `outcomes` as refinement mapping.

**RateLimiter** (same file) has the time stamps per client (`windows`), a clock
in ticks, and a second reading of it within a check (`SecondRead`), as in the code.
`accepted` remembers every admission, `promise` every Retry-After.

**ArticleService** (`src/knowledge/articles.rs`, `src/vectordb/mod.rs`, the
handlers and the `dedup review` command) has rows, documents, chunks and the
dedup queue, and per call where it stands.  Stops of a call are the awaits of
`create`, `update`, `delete`, `embed_article` and of a merge; `Fail` is an error
at any of them, `Crash` the end of the process.  `trouble` is history: what
happened to an article that the code does not make up for.  So is `unchecked`: the
articles that a create or an update gave their text past the lookup for duplicates.

**EntityGraph** (same file, and the edges in `src/store/mod.rs`) is the extraction
that ArticleService summarises in one stop: upsert and count, link, gather the
articles that share an entity, measure, relate.  It runs once at a time, because
the caller holds the embedding model; creates, updates and deletes of rows come
in between.

**StoreBoot** (`src/main.rs`, `src/migrate/mod.rs`, `src/store/migrations.rs`) is
one machine from its first start on: two databases, the marker, the schema
version, the tag upgrade and the process that may end at any step (`Exit`).

**HubClient** (`src/connection/client.rs`) has the two loops as one `phase`, the
link with what the hub has sent on it, the bounded channel, and the attempt and
delay of the reconnection.
**AnswerStream** is what the hub can rely on, without channel, phases and heartbeats:
while a connection is open, no request is taken twice and each answer is the one to
the first request that has none.  `StreamSpec` says that HubClient implements it:
`open` is `InLoop`, `asked` is what was `received`, `answered` what was `written`.

**QueryRouter** (`src/router/`, `src/retrieval/`, `src/federation/remote_query.rs`)
is one routed query: plan, search store by store, ask the nodes, merge, judge, and
perhaps search again.  `Fused` is `merge_signals` and, with equal weights,
`merge_rrf`; results with equal scores come out in any order, because the code
sorts the values of a hash map.

**FileIndex** (`src/search/`, `src/vectordb/mod.rs`) has what is on the disk, the
watcher's channel and debounce table, the two tables of the vector store, and where
watcher and reindex stand.  `Noted` is the callback that drops what the channel has
no room for, `Debounced` the leading-edge debounce, `ResetDocs` to `InsertChunk` the
replacement of a file's rows, `DropDocs` to `Ensure` the clearing of a reindex with
`--force`.  `ToldAs` says as what a change comes: a file that is gone as a removal, or,
if it was renamed or moved, as a change, for which `Read` finds no file.  `flaws` is
history: for which reasons the rows of a file may be wrong.

**NodeDiscovery** (`src/discovery/`) has the network, the events nobody has taken,
the loop, the table, the list of a health check that is under way, and the receives
that a silent interval has left behind.  `heard` and `fate` are history.

**KeyManager** (`src/k2k/keys.rs` and its callers) has the key files, the older
version's file, the rows and the memory; `manager` says where a start or a
registration stands.  The administrator's decisions (`Decide`) go to the store past
the mutex.  The bytes of keys and tokens are left out.

**AgentProcess** (`src/main.rs`, `src/config/mod.rs`, `src/tray/mod.rs`) has per
process id who runs under it and how far that agent has come, the PID file, and a
stop command.  Ids are given out again, to agents and to strangers; a stranger of
another user looks as if it did not run.

**CapabilityRegistry** (`src/k2k/capabilities.rs`, two handlers, the start of the
server) has the registry, the queue's handlers, and per call what it has read and
has still to list and to register.  `DropCall` is a caller that hangs up while the
call awaits.  The file and the manifests may say something else at every reading.

ArticleService and EntityGraph share the embedding model's mutex: the first has
the stop `extract` while the second runs, and neither writes the other's
variables.  FileIndex writes documents of its own in the tables that ArticleService
uses as well, and never those of articles; except that a reindex with `--force`
clears them all, articles included (section 7).  QueryRouter reads the health that
NodeDiscovery keeps as a failure of a node.  A capability whose handler
CapabilityRegistry registers is one TaskQueue's `RegisterHandler` makes known.

Components that share no state are checked side by side: **MCSubmission** (task
queue, rate limiter, keys: what a submission passes), **MCStartup** (store, process,
capabilities: what a start prepares), **MCKnowledge** (entity graph, query router)
and **MCServices** (files, nodes, hub: the background tasks).  A behaviour of one of
these is a behaviour of one component while the others have not begun, so the
properties of each are checked exactly as they would be alone.

## 3. Runs

| run | instance | what it shows |
|---|---|---|
| `queue` | MCSubmission: two tasks, one slot (configured as 0), two reports, a channel with one place; two clients, three tickets, 2 per window of four ticks, eight ticks; two clients with two keys, two registrations, two ends | slots add up; entry and events agree but for named windows; an outcome is told once and final; every task ends, every report is told; the queue implements SlotPool; never more than the limit in any span of a window, waiting Retry-After is enough; what was decided about a client stands through restarts and imports, and signatures are checked with the key of her row |
| `queue_cancel` | one slot, no reports | a cancelled task is marked running all the same (violation) |
| `articles_race` | three overlapping calls on one article, two texts, two chunks, failures and crashes | vectors never mix versions; a settled article's index is its row |
| `articles_dedup` | three calls of every kind, two of them in flight at once, on two articles; three texts, two of which share a hash; failures and crashes | which articles alone can hold a text twice; a merge is recorded only when it is done; every call ends |
| `articles_delete` | overlapping calls on one text | deleted vectors come back (violation) |
| `startup` | MCStartup: five rows, two of them tagged; three process ids, three starts; two capabilities, one service, two calls, two readings | a service that is up is complete, the upgrade is complete, edits survive; while commands do not overlap, the agent that is up is in the PID file; what is listed is handled, and as listed where calls do not meet |
| `boot_refusal` | three rows | a start reports an interrupted migration where there was none (violation) |
| `pid_file` | two ids, two starts | Quit leaves the PID file (violation) |
| `knowledge` | MCKnowledge: three articles, two entities, three extractions; two stores, two nodes, three ids, two results asked for | counts cover edges, shared mentions relate, strengths are fractions; fusion keeps agreement; failures of optional parts never cost an answer |
| `services` | MCServices: one file that changes twice, a channel of two, one failure, one reindex; two nodes beside this one, two addresses, three moves, one failure; channel to the hub of 3, window 2, one heartbeat, 4 requests, 4 losses, 3 attempts | the index follows the disk but for named reasons, and the watcher outlives every error; what is announced is registered, checks respect it, health converges; the client of the hub implements AnswerStream, its loop never waits for itself, every request is answered |
| `hub_persistent` | no limit on attempts | the client stops for good (violation) |
| `nodes_unheard` | one node that comes up after a silent interval | a receive that was left behind takes the announcement (violation) |

### Bounds

* Two tasks suffice for a competition for one slot, one holding it and one waiting;
  the properties of slots relate one task to the others.  The configured 0 makes
  the clamp matter.  Two reports and one place make the forwarder fall behind.
* Eight ticks are two windows of four; three tickets exceed the limit by one, and the
  bound on a span is about one submission too many.
* Three calls are one more than can race in pairs: two that race and a third that
  repairs, or that runs into what they left.  Two chunks give an insertion a middle.
* `articles_dedup` lets two of its three calls overlap: of two creates one overtakes the
  other, or an update changes the hash that a create has looked up, and a third call
  retries, merges, rejects or deletes.  Two texts with one hash and a third one are what
  a lookup and an update can tell apart.  Calls and articles, which are interchangeable,
  come in one order; the first text is one of the two with one hash, and the vector
  store refuses no delete (`Orderly`, `Obliging`).
* Three articles let one article relate to one article while another is deleted;
  two entities make shared counts of 1 and 2 with unions up to 2.
* Five rows are the owner, the store, two tagged articles and one more, so the copy
  can end before, between and after each of them.
* Four losses exceed three attempts and double the delay past its cap; four
  requests wrap around a channel of three.
* Two results from three ids make fusion cut one off; three ids and two stores with
  three lists each and two nodes make lists that agree, contradict and overlap.
  The same instance with three results asked for was checked once as well.
* One file suffices for FileIndex: its steps touch the rows of one file, but for the
  clearing, which is the same for each.  Two changes give an old and a new text; a
  channel of two is full with one event waiting behind another.  Larger instances
  (two reindexes, three changes; two failures) were checked once.
* Two nodes and two addresses let one take the other's address; three moves let a
  node go, come back elsewhere and go again.  Four moves, two failures and three
  addresses were checked once.
* Two clients and two keys make a registration replace a key while the other client's
  row decides whether the file is imported; two ends cut an import and the start
  after it.
* Three process ids are an agent, one that begins, and a stranger or a third start.
* Two calls meet in every order over two names, of which one is the node's own; three
  readings were checked once.

Symmetry is used only in runs without liveness properties.

### Fairness

Safety runs use `Spec` without fairness.  Where a run states liveness:

* weak fairness of every step of a coroutine: the tokio runtime polls what can
  move.  `tasks.rs` bounds executions by a timeout, so an execution ends.
* strong fairness of `Lock` in ArticleService: tokio's mutex and semaphore are
  first come first served, so who waits is not passed over for ever.
* weak fairness of the hub client's steps, and strong fairness of `TakeOut`: `select!`
  starts with a branch picked at random.  Nothing is assumed of the hub but that it
  reads what is written.
* weak fairness of the watcher's and the reindex's steps (`Watch`, `Walk`), which the
  runtime polls; not of starts, changes or failures.
* weak fairness of the discovery loop, and strong fairness of `TimeOut`: silent
  intervals come again and again, because mDNS queries at growing intervals and an
  announcement that was taken is not repeated at once.

## 4. Proofs

TLAPS checks these for every value of the constants that satisfies the named
`...Assumption` of the module; TLC evaluates those assumptions in the runs.

* **TaskQueueProofs.**  `IInv` joins the type invariant, the finiteness of the set of
  holders, `SlotAccounting`, and `StatusByPoint`: where a coroutine stands bounds
  what its entry may say, which is what makes `OutcomeMatchesStatus` inductive.
  `TakeSlot`, `GiveSlotBack` and `SlotsUntouched` do the arithmetic once.  From it
  follow the bound on concurrency, the safety invariants, `OutcomeIsFinal` (an
  action property), and `ImplementsPool`: each step is a step of SlotPool or a
  stutter of it.
  That the event stream agrees with the entry rests on two facts about appending
  to it: a status event becomes the last one (`StatusIsTold`), a progress event
  changes none of them (`NothingIsTold`).
  Of the two liveness properties the safety half is proved.  `QueueNeverSticks`: while
  a task or a report is unfinished, some step can be taken, because who is first in the
  line meets a free slot or a holder that goes on (`LineInv`, `ReportsInv`).
  `WorkIsUsedUp`: each step of a task takes from the number of steps it has left
  (`WorkLeft`), no step of anyone adds to that, and nobody overtakes in the line.
* **SubmissionProofs.**  Of RateLimiter: the bound over any span rests on
  `NothingForgotten`: what was admitted less than a window ago is still in the list
  that is counted.  Retry-After needs in addition that dropping the entries that are
  too old by then leaves room (`DroppingLeavesRoom`, `PromiseSurvives`).  Of
  KeyManager: an import is under way only over clients nobody has been told about
  (`ImportInv`), because it begins only where there are no rows; and a registration
  runs ahead of its row by its own client alone (`RegistrationInv`).
* **ArticleServiceProofs.**  `MutexInv` (the stops between taking and giving back the
  model exclude each other), `ArgsInv` and `PieceInv` (what a call has with it at
  each stop), `HolderInv` (what the holder of the model knows of the vectors) carry
  `IndexNeverMixesVersions`.  `SettledIndexMatchesRow` rests on `WorkInv`: what the
  only call on an article has reached of it at each stop; `OneCallStep` reduces a step
  to its own article, `Reaches` to one line per action, and a call that meets another
  or fails leaves its mark in `trouble`.  `MergedMeansReplaced` needs `MergeInv` (a merge
  is alone, and its article and text are those of its entry).  `UniqueContent` holds for
  any calls that overlap, updates included: a create that is about to insert has been
  overtaken by another one, or nobody but marked articles has its hash (`TextInv`), as
  what brings a hash into the table since its lookup leaves a mark.  A merge cannot do so
  because the matched article keeps the hash it was found with, or is marked (`Keeps`,
  `EntryInv`, `HashesStay`).
  The safety half of `EveryCallEnds`: whenever calls are in flight one of them can take
  its next step (`NoCallsBlockEachOther`, from `MutexInv`: who has the model waits for
  nobody), and each step takes its call closer to its end while no other step takes it
  further away (`CallsDrawToAnEnd`, by a distance that counts stops and chunks).
* **StartupProofs.**  Of StoreBoot: between two commands nothing is remembered but what
  is on disk, so the invariant relates files to stops: how far a copy, a start and the
  upgrade have come.  That edits survive needs only that they exist where there is a
  marker, at which a migration without `--force` stops (`EditsInv`).  Of AgentProcess:
  `InTurn` says, for commands that have come one after another, what a start or a stop
  knows from what it has read (`StartKnows`, `StopKnows`): whom it has read of, or that
  nobody is up; that is what makes it harmless that the file is removed whoever it
  names.  Of CapabilityRegistry: each call keeps to what it has read (`CallInv`), and an
  entry over which calls have not met is that of the call that has still to register
  its handler (`LastListed`).
* **EntityGraphProofs.**  `CountCoversMentions` alone is not inductive: between the
  upsert and the edge the count must be ahead by the edge to come (`AheadInv`), and
  cardinalities mean something only for finite sets (`FiniteInv`).  A strength is a
  fraction because what was gathered of an article is at most what it mentions, and
  what it mentions only shrinks while the extraction runs (`StrengthInv`).  Who
  shares an entity with the subject is related to it or is still to be measured
  (`RelationInv`).
* **RetrievalProofs**, of the index of files.  `IndexIsOfOneText` speaks of a moment when
  nobody replaces rows; between the deletes and the inserts each worker's place says
  which rows are gone (`StageInv`), and a file on which no race was noted has one worker
  at a time (`TextInv`).  `IndexFollowsDisk` speaks of a file at rest; on the way there
  the last change is the first event of the file that waits, or with the watcher, or
  being worked off with the text that is on the disk, or in the index (`DiskInv`).
  `Aside` shows once that a step leaves every other file alone; `GoOn`, `LeaveOff`,
  `TurnTo` and `EndsAt` are the four things a step can do to its own.
  The safety half of `EventsAreWorkedOff`, as far as the watcher goes: every step of it,
  one that fails included, takes some of its work from it and leaves it running, and only
  a new event adds to its work (`WatcherWorksOff`).
* **RetrievalProofs**, of the router.  Fusion yields lists without repetitions of at most `TopK` ids
  whatever the scores (`FusedIsRanking`); until the answer is chosen the list of
  the first round is the merged one (`FirstInv`), so reordering or the fallback
  cannot lose it.  `AgreementIsKept` sums reciprocal ranks over the lists of a query.  What
  such a sum is, is found without the library's induction, which takes an operator: the
  set of the numbers of which a statement holds is all of `Nat`, because what is missing
  from it has a least element (`AllNumbers`, and `AllSubsets` for finite sets).  So a sum
  is independent of the order, and larger if each of its terms is.  `FusionKeepsAgreement` then holds for any lists with any weights, and
  `FusionIgnoresOrder` for any order of them.
* **HubClientProofs.**  The type invariant needs what bounds the counters (`Retries`) and
  when the client holds a message (`HandMatchesPhase`).  `AnswersMatchRequests` follows
  from `AnswerInv`: along the way from the hub through the client's hand and the
  channel to the wire, the requests are consecutive.  The same makes each step of the
  client a step of AnswerStream or a stutter of it (`ImplementsStream`): what is read was
  never read before (`TakesNew`), what is written answers the first request that has no
  answer (`AnswersFirst`).  That the loop never waits for itself needs
  `HubWindow + Beats <= Capacity`, which is assumed in the theorems that need it and not
  in the module: the answers in the channel and in hand are among the requests without an
  answer, so there is always a place for the one in hand (`RoomInv`; `AlwaysRoomForAnswers`).
  And so no answer is stuck between the search and the socket (`AnswersMoveOn`, the safety
  half of `EveryRequestAnswered`).
* **NodeDiscoveryProofs.**  A check writes back rows it read before it asked; that this
  undoes nothing rests on `SnapshotIsCurrent` (the loop registers nobody meanwhile) and
  `SilenceIsProof`.  `AnnouncedIsRegistered` needs `HeardLast`: the last event of a node
  that waits names its address.  The safety half of `HealthConverges` is `ChecksComeTrue`:
  while nodes stay where they are, a check that begins once older news are worked off is
  true of everyone it has asked (`TrueSoFar`), so that after its end the health of every
  node is true, and remains so.

Proved, but in no run of their own: the type invariants `LimiterTypeOK`, `HubTypeOK`,
`GraphTypeOK`, `FilesTypeOK` and `NodesTypeOK`; `RunningHoldsSlot`, `OutcomeMatchesStatus`,
`HandlerFound`, `MarkerMeansComplete`, `OneOwner`, `GivesUpOnlyAfterMaxAttempts` and
`AnswersMatchRequests`, which are parts of the invariants above; and the safety halves of
the liveness properties, which TLC confirmed once on the instances of the runs before
they were proved.

Every safety invariant and action property of the passing runs is proved, and so are
both refinements.  Only model-checked are the liveness properties themselves
(`EveryTaskEnds`, `EveryReportIsTold`, `EveryCallEnds`, `EventsAreWorkedOff`,
`HealthConverges`, `EveryRequestAnswered`), because the prover has neither fairness nor
ENABLED: the step from "one of them can move, and each move comes closer to the end" to
"they come to the end" is left to TLC.

## 5. Assumptions

* One daemon process, except in AgentProcess.  The commands `dedup review` and
  `extract-entities` run alone; a reindex runs beside the daemon, one at a time.
* A 0.8 database has the owner and her personal store as its first rows.
* SurrealDB drops the edges of a record that is deleted, and lets an edge be made to
  a record that is gone.
* The language model names each entity of a text once (see section 7).
* The hub leaves at most `Window` requests unanswered, and at most `Beats` heartbeats
  come due before the loop gets to send, with `Window + Beats <= Capacity`.
* Scores in QueryRouter are exact where the code has `f32`; lists of a few dozen ids
  differ by far more than its precision.  At least one result is asked for; no
  search returns an id twice, and a node returns no more than it was asked for.
* Files in FileIndex are let through by whitelist, exclusions and type at every look,
  and are read whole by one read.  What happens to one is told under its own path, if at
  all: a deletion as a removal; a rename, a move or a move to the trash as a removal or
  as a change.  Two nodes never share an address.
* A request of a health check tells whether anybody answers at the endpoint.
* A signal that nobody handles ends an agent at once.
* A reading of the capabilities' file or of a manifest names each capability once.

## 6. Findings

* A cancelled task runs (`src/k2k/tasks.rs:329` writes Running without a look at the
  status), where the protocol gives cancelled as an end (run `queue_cancel`).
* `delete` removes vectors without the mutex that their insertion is under, so an
  update that is embedding puts them back after the delete has answered
  (run `articles_delete`).
* A second start of a fresh installation is refused as an interrupted migration,
  because only a migration writes the marker (run `boot_refusal`).
* When the hub closes the connection or reading from it fails, the loop ends with Ok,
  which its caller takes for a shutdown: the client never reconnects
  (run `hub_persistent`).
* After a silent interval the receive that the timeout gave up stays behind and takes
  the next announcement, which nobody handles (run `nodes_unheard`).
* Quit in the tray's menu ends the process by SIGTERM, which nobody handles, or by the
  end of its main thread: the PID file stays, against what the guard is for
  (run `pid_file`).

## 7. Known weaknesses that no run is spent on

Seen while modelling; the properties exclude them by name, or they are in parts that
are abstracted.

* Tasks: a late report overwrites the 100 of a completed task (`tasks.rs:375`).  The
  quota is read before a task is queued and nothing is reserved (`:254`); it is asked
  of `knowledge_store` alone, for which there is no handler unless one is configured.
  The default timeout is 300 where the protocol says 60.  Entries are never removed
  (`:295`).
* Articles: creates that overlap store a text twice (`articles.rs:57`, `:88`); updates
  check no hash (`:103`), so they do as well.  `UniqueContent` names these two and
  excludes every other way.  A duplicate is answered with an id that was not stored
  (`handlers.rs:602`, `web_clip.rs:106`); the update handler reads an article and writes
  all of it back, so two of them lose one's fields (`handlers.rs:709`).  A reindex with
  `--force` drops the tables that articles share with files (`vectordb/mod.rs:584`) and
  walks only files: articles stay without vectors until each is updated.
* Start-up: articles migrated from 0.8 keep tags that never become edges, and new
  articles get no TAGGED edges at all; the module comment asks for `--force` to retry
  a migration, which also works without (`migrate/mod.rs:6`).  Tag ids are slugs without
  the store, so the same tag in two stores is one record (`migrations.rs:100`); an edge
  that could not be made for another reason passes for a duplicate (`:129`).
* Hub: jitter is added after the cap, so a delay may exceed it by a tenth; more waiting
  heartbeats and answers than the channel has places make the loop wait for itself;
  the heartbeat carries no metrics.
* Entity graph: counts do not go down when an article is changed or deleted; an entity
  that is named twice gives a strength above 1; entity ids are not scoped by store; an
  extraction that broke off after its first edge is never completed.
* Router: vector and keyword searches ignore the store (`executor.rs:64`, `:111`), so the
  scope of a query has little effect, provenance names the wrong store and every
  document has one vote per store; vector results carry chunk ids and the others
  article ids, so one article may appear several times and its signals do not add up;
  the thresholds of confidence (0.4, 0.7) are far above any fused score, so most
  queries are searched twice; the second round asks no nodes and its result replaces
  theirs; an error in the second round loses the answer of the first (`mod.rs:134`);
  nodes found by mDNS have http endpoints, which the remote query refuses.
* Files: the watcher drops a change that follows another event of the file within the
  debounce time, an access included, and does not come back to it (`indexer.rs:67`); nor
  does it to one the channel had no room for (`:34`), where `README.md:8` promises
  real-time change detection.  A file that is renamed, moved away or moved to the trash is
  told as `Modify(Name(..))`, which goes to `index_file` (`:118`), which finds no file and
  returns Ok (`:142`): its old rows stay, and so do those of every file in a directory that
  is moved away, which is told under the directory's path alone.  A start makes no walk.  A
  file that has become too large or unreadable keeps its old rows, and so does one that
  vanished while nobody watched, until a reindex with `--force`.  Watcher and reindex, or two reindexes, that meet over
  a file can file it twice.
* Nodes: a health check asks only whether somebody answers, not who, and only after a
  silent interval; each interval leaves a blocked thread behind; an error of the
  receive is taken for an event and asked for again at once, and the restart above the
  loop is never reached; endpoints are http, which the protocol forbids to queries
  (`K2K_PROTOCOL.md:133`).
* Keys: an end between the two key files makes every later start fail; an import that was
  cut short leaves out the remaining clients for good, because the next start finds
  rows; a registration that failed leaves its key in memory until the next start; a
  decision about an unknown client answers success.
* Process: the PID file is removed whoever it names (`config/mod.rs:822`), so commands
  that overlap can leave an agent that no file names, and two agents; a start is refused
  for ever if the file's id is some other program's, such as its own in a container;
  stop may end a stranger that has got the id.
* Capabilities: the later of two sources wins, where `K2K_PROTOCOL.md:655` puts built-in
  before configuration before discovery; what was discovered is never evicted (`:660`), as
  nobody calls `evict_stale_discovered`; a caller that hangs up before the handlers are
  registered leaves them out until the time to live is over; a remote entry without
  endpoint, or a local one, leaves an earlier handler in place.
* Configuration: the web interface keeps a copy from its start and writes it over what a
  command changed meanwhile; memory changes before a save that may fail; the file is
  written in place.

## 8. Not modelled

See `components` in `PROJECT.json` for each part and the reason.  What is left out keeps
no state across calls (task handlers, connectors, conversations, the event stream, the
whitelist), or one file as a whole (configuration, audit log), or is one query per
operation (the rest of the record store: agreements, connectors, conversations).  Out of
reach are cryptography, embeddings, the vector index, parsing and the user interfaces.
The vendored libraries under `src/patches/` are other projects' code; most of the
repository's lines are theirs.

## 9. What is left

1. The vector store as one module under both ArticleService and FileIndex, so that a
   reindex that clears it runs beside calls on articles.
2. A subscriber with a cursor in the bounded broadcast channel, beside the log of
   TaskQueue.
3. Pure algorithms against reference definitions: `chunk_text`, `slugify`.
