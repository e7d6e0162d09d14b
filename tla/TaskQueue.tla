------------------------------ MODULE TaskQueue ------------------------------
(***************************************************************************)
(* The task queue of the K2K server (src/k2k/tasks.rs): a map of task      *)
(* entries behind a lock, a semaphore of execution slots, one coroutine    *)
(* and one progress forwarder per task, and a broadcast channel of events. *)
(*                                                                         *)
(* Each action is what the code does between two points where another      *)
(* coroutine can get in (a lock released, an await).  The rate limit in    *)
(* front of submit is module RateLimiter.                                  *)
(***************************************************************************)
EXTENDS Integers, Sequences, FiniteSets

CONSTANTS
  Tasks,                \* task ids: fresh uuids, each submitted at most once
  Clients,              \* authenticated client ids
  Capabilities,         \* capability ids a handler can be registered for
  NoRequest,            \* stands for "no entry in the map"
  RequestedConcurrency, \* the max_concurrent argument of with_limits
  Reports,              \* the percentages a handler reports, in order
  ProgressCapacity      \* capacity of the mpsc channel of one task

ASSUME TaskQueueAssumption ==
  /\ NoRequest \notin [client : Clients, capability : Capabilities]
  /\ RequestedConcurrency \in Nat
  /\ Reports \in Seq(0..100)
  /\ ProgressCapacity \in Nat \ {0}

\* Seeded fault: the clamp of max_concurrent to 1 is forgotten.
SlotsUnclamped == RequestedConcurrency

\* Semaphore::new(max_concurrent.max(1))
Slots == IF RequestedConcurrency = 0 THEN 1 ELSE RequestedConcurrency

VARIABLES
  handlers,  \* capabilities with a registered handler
  request,   \* entry.request of each task, NoRequest before submission
  status,    \* entry.status
  result,    \* whether entry.result is Some
  error,     \* whether entry.error is Some
  progress,  \* entry.progress, 0 for None
  pc,        \* where the task's coroutine stands
  waiters,   \* tasks waiting in the semaphore, which is first come first served
  permits,   \* permits left in the semaphore
  sent,      \* how many of Reports the handler has put in its channel
  taken,     \* how many of them the forwarder has received and stored
  told,      \* how many of them the forwarder has broadcast
  log        \* the events broadcast about each task, in order

vars == <<handlers, request, status, result, error, progress, pc, waiters,
          permits, sent, taken, told, log>>

execution == <<handlers, request, waiters>>
reporting == <<sent, taken, told>>

Statuses  == {"absent", "queued", "running", "completed", "failed", "cancelled"}
Points    == {"idle", "spawned", "waiting", "permitted", "marked", "executing", "done"}
Outcomes  == {"completed", "failed"}
EventKind == {"queued", "running", "cancelled", "completed", "failed", "progress"}

Known(t)  == request[t] # NoRequest
Holding(t) == pc[t] \in {"permitted", "marked", "executing"}
Holders   == {t \in Tasks : Holding(t)}

(* Seeded faults, each the form a slip would give to the definition it       *)
(* precedes.  They take no part in Next; runs with them show that the        *)
(* properties notice.                                                        *)
Registered(k) == k \in handlers

InLineUnbounded(t) == waiters # << >> /\ Head(waiters) = t
NextInLine(t)      == waiters # << >> /\ Head(waiters) = t /\ permits > 0

AlwaysCancellable(t) == status[t] # "cancelled"
Cancellable(t)       == status[t] \in {"queued", "running"}

WaitingWhileRunning(t) == pc[t] = "executing" /\ taken[t] = told[t] /\ taken[t] < sent[t]
ReportWaiting(t)       == taken[t] = told[t] /\ taken[t] < sent[t]

ReleaseTwice  == permits' = permits + 2
ReleaseNever  == UNCHANGED permits
ReleasePermit == permits' = permits + 1

Broadcast(t, kind) == log' = [log EXCEPT ![t] = Append(@, kind)]
Goto(t, from, to)  == pc[t] = from /\ pc' = [pc EXCEPT ![t] = to]

EndUntold(t, outcome) ==
  /\ Goto(t, "executing", "done")
  /\ status' = [status EXCEPT ![t] = outcome]
  /\ ReleasePermit
  /\ UNCHANGED log
\* Entry and event are written under the lock, whatever the status was; then
\* the permit drops.
EndExecution(t, outcome) ==
  /\ Goto(t, "executing", "done")
  /\ status' = [status EXCEPT ![t] = outcome]
  /\ ReleasePermit
  /\ Broadcast(t, outcome)

-----------------------------------------------------------------------------
Init ==
  /\ handlers = {}
  /\ request  = [t \in Tasks |-> NoRequest]
  /\ status   = [t \in Tasks |-> "absent"]
  /\ result   = [t \in Tasks |-> FALSE]
  /\ error    = [t \in Tasks |-> FALSE]
  /\ progress = [t \in Tasks |-> 0]
  /\ pc       = [t \in Tasks |-> "idle"]
  /\ waiters  = << >>
  /\ permits  = Slots
  /\ sent     = [t \in Tasks |-> 0]
  /\ taken    = [t \in Tasks |-> 0]
  /\ told     = [t \in Tasks |-> 0]
  /\ log      = [t \in Tasks |-> << >>]

RegisterHandler(k) ==
  /\ handlers' = handlers \cup {k}
  /\ UNCHANGED <<request, status, result, error, progress, pc, waiters, permits,
                 reporting, log>>

(* submit, once admitted: the handler check, the insertion under the lock,   *)
(* the "queued" event, the spawn.  One step, since no one else can name the  *)
(* task before the event tells its id.                                       *)
Submit(t, c, k) ==
  /\ Registered(k)
  /\ ~Known(t)
  /\ Goto(t, "idle", "spawned")
  /\ request' = [request EXCEPT ![t] = [client |-> c, capability |-> k]]
  /\ status'  = [status EXCEPT ![t] = "queued"]
  /\ Broadcast(t, "queued")
  /\ UNCHANGED <<handlers, result, error, progress, waiters, permits, reporting>>

(* The spawned coroutine reaches semaphore.acquire_owned().                  *)
Enqueue(t) ==
  /\ Goto(t, "spawned", "waiting")
  /\ waiters' = Append(waiters, t)
  /\ UNCHANGED <<handlers, request, status, result, error, progress, permits,
                 reporting, log>>

Acquire(t) ==
  /\ NextInLine(t)
  /\ Goto(t, "waiting", "permitted")
  /\ waiters' = Tail(waiters)
  /\ permits' = permits - 1
  /\ UNCHANGED <<handlers, request, status, result, error, progress, reporting, log>>

(* Under the lock, whatever the status was: a cancellation is overwritten.   *)
MarkRunning(t) ==
  /\ Goto(t, "permitted", "marked")
  /\ status' = [status EXCEPT ![t] = "running"]
  /\ UNCHANGED <<execution, result, error, progress, permits, reporting, log>>

(* After the lock is released: the "running" event, the handler lookup, the  *)
(* start of handler.execute.                                                 *)
Start(t) ==
  /\ Goto(t, "marked", "executing")
  /\ Registered(request[t].capability)
  /\ Broadcast(t, "running")
  /\ UNCHANGED <<execution, status, result, error, progress, permits, reporting>>

(* progress_tx.send(pct).await inside the handler; waits while it is full.   *)
Report(t) ==
  /\ pc[t] = "executing"
  /\ sent[t] < Len(Reports)
  /\ sent[t] - taken[t] < ProgressCapacity
  /\ sent' = [sent EXCEPT ![t] = @ + 1]
  /\ UNCHANGED <<execution, status, result, error, progress, pc, permits, taken,
                 told, log>>

(* The forwarder: it stores a percentage under the lock, then broadcasts it. *)
(* It outlives the execution until its channel is drained.                   *)
StoreProgress(t) ==
  /\ ReportWaiting(t)
  /\ taken'    = [taken EXCEPT ![t] = @ + 1]
  /\ progress' = [progress EXCEPT ![t] = Reports[taken[t] + 1]]
  /\ UNCHANGED <<execution, status, result, error, pc, permits, sent, told, log>>

TellProgress(t) ==
  /\ told[t] < taken[t]
  /\ told' = [told EXCEPT ![t] = @ + 1]
  /\ Broadcast(t, "progress")
  /\ UNCHANGED <<execution, status, result, error, progress, pc, permits, sent, taken>>

(* The three arms of the match on the timeout's result; a handler error and  *)
(* an elapsed timeout write the same fields.                                 *)
Complete(t) ==
  /\ EndExecution(t, "completed")
  /\ result'   = [result EXCEPT ![t] = TRUE]
  /\ progress' = [progress EXCEPT ![t] = 100]
  /\ UNCHANGED <<execution, error, reporting>>

FailOrTimeOut(t) ==
  /\ EndExecution(t, "failed")
  /\ error' = [error EXCEPT ![t] = TRUE]
  /\ UNCHANGED <<execution, result, progress, reporting>>

(* cancel_for_client returning Some(true).  The coroutine is not told.       *)
Cancel(t, c) ==
  /\ Known(t) /\ request[t].client = c
  /\ Cancellable(t)
  /\ status' = [status EXCEPT ![t] = "cancelled"]
  /\ Broadcast(t, "cancelled")
  /\ UNCHANGED <<execution, result, error, progress, pc, permits, reporting>>

Finish(t) == Complete(t) \/ FailOrTimeOut(t)

\* What the runtime does for a task on its own.
Run(t) ==
  \/ Enqueue(t) \/ Acquire(t) \/ MarkRunning(t) \/ Start(t)
  \/ Report(t) \/ StoreProgress(t) \/ TellProgress(t) \/ Finish(t)

Next ==
  \/ \E k \in Capabilities : RegisterHandler(k)
  \/ \E t \in Tasks, c \in Clients : \/ \E k \in Capabilities : Submit(t, c, k)
                                     \/ Cancel(t, c)
  \/ \E t \in Tasks : Run(t)

Spec == Init /\ [][Next]_vars

(* The runtime polls every coroutine that can move.  An execution ends       *)
(* because tokio::time::timeout bounds it; nothing obliges clients to act.   *)
Fairness ==
  \A t \in Tasks :
    /\ WF_vars(Enqueue(t)) /\ WF_vars(Acquire(t))
    /\ WF_vars(MarkRunning(t)) /\ WF_vars(Start(t))
    /\ WF_vars(StoreProgress(t)) /\ WF_vars(TellProgress(t))
    /\ WF_vars(Finish(t))

FairSpec == Spec /\ Fairness

-----------------------------------------------------------------------------
(* What a subscriber last heard of the state of a task.                      *)
StatusEvents(t) == {i \in DOMAIN log[t] : log[t][i] # "progress"}
IsLast(t, i)    == i \in StatusEvents(t) /\ \A j \in StatusEvents(t) : j <= i
Told(t)         == {i \in StatusEvents(t) : log[t][i] \in Outcomes}

(* The shape of every variable.                                              *)
TypeOK ==
  /\ handlers \in SUBSET Capabilities
  /\ request \in [Tasks -> [client : Clients, capability : Capabilities] \cup {NoRequest}]
  /\ status \in [Tasks -> Statuses]
  /\ result \in [Tasks -> BOOLEAN] /\ error \in [Tasks -> BOOLEAN]
  /\ progress \in [Tasks -> 0..100]
  /\ pc \in [Tasks -> Points]
  /\ waiters \in Seq(Tasks)
  /\ permits \in 0..Slots
  /\ sent \in [Tasks -> 0..Len(Reports)]
  /\ taken \in [Tasks -> 0..Len(Reports)]
  /\ told \in [Tasks -> 0..Len(Reports)]
  /\ log \in [Tasks -> Seq(EventKind)]

(* The permits in the semaphore and those held by coroutines always add up   *)
(* to the number of slots, so at most that many tasks execute and no slot    *)
(* leaks, whatever is cancelled, fails or times out.                         *)
SlotAccounting == permits + Cardinality(Holders) = Slots

(* A task whose status says "running" holds a slot, and a task that holds a  *)
(* slot and has told so is running or cancelled: the status never claims a   *)
(* run that is over.                                                         *)
RunningHoldsSlot ==
  \A t \in Tasks :
    /\ status[t] = "running" => Holding(t)
    /\ pc[t] \in {"marked", "executing"} => status[t] \in {"running", "cancelled"}

(* A result is there exactly for completed tasks and an error exactly for    *)
(* failed ones, although a cancellation may come at any point of the run.    *)
OutcomeMatchesStatus ==
  \A t \in Tasks : /\ result[t] <=> status[t] = "completed"
                   /\ error[t] <=> status[t] = "failed"

(* The event stream announces the outcome of a task exactly once, when its   *)
(* coroutine ends, and no status event about the task follows it.            *)
OutcomeToldOnce ==
  \A t \in Tasks :
    IF pc[t] = "done" THEN \E i \in StatusEvents(t) : IsLast(t, i) /\ Told(t) = {i}
                      ELSE Told(t) = {}

(* What the stream last said of a task is its status, but for two windows    *)
(* the code leaves open: between marking a task running and telling so, and  *)
(* after a cancellation that fell into that window.                          *)
UpToDate(t, heard) ==
  \/ heard = status[t]
  \/ pc[t] = "marked" /\ status[t] = "running"
  \/ pc[t] = "executing" /\ status[t] = "cancelled" /\ heard = "running"

StreamLagsOnlyAtStart ==
  \A t \in Tasks : Known(t) =>
    \E i \in StatusEvents(t) : IsLast(t, i) /\ UpToDate(t, log[t][i])

(* The lookup of a handler when a task starts always finds one: its          *)
(* "Handler not found" branch is dead code.                                  *)
HandlerFound ==
  \A t \in Tasks : Known(t) => request[t].capability \in handlers

(* A completed or failed task keeps its status, result and error for ever.   *)
OutcomeIsFinal ==
  [][\A t \in Tasks : status[t] \in Outcomes =>
       status'[t] = status[t] /\ result'[t] = result[t] /\ error'[t] = error[t]]_vars

(* Every accepted task is eventually completed or failed, cancelled ones     *)
(* included, however many tasks wait for however few slots.                  *)
EveryTaskEnds ==
  \A t \in Tasks : Known(t) ~> status[t] \in Outcomes

(* Every percentage a handler reports eventually reaches the subscribers,    *)
(* also when the task ends first.                                            *)
EveryReportIsTold ==
  \A t \in Tasks : \A n \in 1..Len(Reports) : sent[t] >= n ~> told[t] >= n

(* The queue implements the pool of slots: what a client can rely on.        *)
PhaseOf(t)   == IF pc[t] = "idle" THEN "new"
                ELSE IF pc[t] \in {"spawned", "waiting"} THEN "pending"
                ELSE IF Holding(t) THEN "active" ELSE "ended"
OutcomeOf(t) == IF pc[t] = "done" THEN status[t] ELSE NoRequest

phases   == [t \in Tasks |-> PhaseOf(t)]
outcomes == [t \in Tasks |-> OutcomeOf(t)]

Pool == INSTANCE SlotPool WITH
  Jobs <- Tasks, Undecided <- NoRequest, phase <- phases, outcome <- outcomes

PoolSpec == Pool!Spec

(* docs/K2K_PROTOCOL.md:40 gives a task the lifecycle "queued -> running ->  *)
(* completed (or failed / cancelled)": a cancelled task is at its end.       *)
CancelledIsFinal ==
  [][\A t \in Tasks : status[t] = "cancelled" => status'[t] = "cancelled"]_vars
=============================================================================
