--------------------------- MODULE TaskQueueProofs ---------------------------
(***************************************************************************)
(* Invariants of the task queue for every set of tasks, clients and        *)
(* capabilities, every number of slots and every sequence of reports.      *)
(***************************************************************************)
EXTENDS TaskQueue, FiniteSetTheorems, SequenceTheorems, TLAPS

(* Where the coroutine stands bounds what the entry can say.                 *)
StatusByPoint ==
  \A t \in Tasks :
    /\ pc[t] = "idle" <=> ~Known(t)
    /\ pc[t] = "idle" => status[t] = "absent"
    /\ pc[t] \in {"spawned", "waiting", "permitted"} => status[t] \in {"queued", "cancelled"}
    /\ pc[t] \in {"marked", "executing"} => status[t] \in {"running", "cancelled"}
    /\ pc[t] = "done" => status[t] \in Outcomes

IInv ==
  /\ TypeOK
  /\ IsFiniteSet(Holders) /\ SlotAccounting
  /\ StatusByPoint
  /\ OutcomeMatchesStatus
  /\ HandlerFound

-----------------------------------------------------------------------------
(* The slots are a positive number, whatever with_limits was called with.    *)
LEMMA SlotsPositive == Slots \in Nat \ {0}
  BY TaskQueueAssumption DEF Slots

(* Taking a slot makes one holder more and leaves one permit less.           *)
LEMMA TakeSlot ==
  ASSUME TypeOK, IsFiniteSet(Holders), SlotAccounting,
         NEW t \in Tasks, permits > 0,
         Goto(t, "waiting", "permitted"), permits' = permits - 1
  PROVE  permits' \in 0..Slots /\ IsFiniteSet(Holders') /\ SlotAccounting'
<1>1. Holders' = Holders \cup {t} /\ t \notin Holders
  BY DEF Goto, Holders, Holding, TypeOK
<1>2. IsFiniteSet(Holders') /\ Cardinality(Holders') = Cardinality(Holders) + 1
  BY <1>1, FS_AddElement
<1>3. Cardinality(Holders) \in Nat
  BY FS_CardinalityType
<1>4. QED
  BY <1>2, <1>3, SlotsPositive DEF SlotAccounting, TypeOK

(* Ending an execution gives the slot back.                                  *)
LEMMA GiveSlotBack ==
  ASSUME TypeOK, IsFiniteSet(Holders), SlotAccounting,
         NEW t \in Tasks, Goto(t, "executing", "done"), ReleasePermit
  PROVE  permits' \in 0..Slots /\ IsFiniteSet(Holders') /\ SlotAccounting'
<1>1. Holders' = Holders \ {t} /\ t \in Holders
  BY DEF Goto, Holders, Holding, TypeOK
<1>2. IsFiniteSet(Holders') /\ Cardinality(Holders') = Cardinality(Holders) - 1
  BY <1>1, FS_RemoveElement
<1>3. Cardinality(Holders') \in Nat
  BY <1>2, FS_CardinalityType
<1>4. Cardinality(Holders) \in Nat
  BY FS_CardinalityType
<1>5. QED
  BY <1>2, <1>3, <1>4, SlotsPositive DEF SlotAccounting, TypeOK, ReleasePermit

(* Steps that move no coroutine into or out of a slot keep the account.      *)
LEMMA SlotsUntouched ==
  ASSUME TypeOK, IsFiniteSet(Holders), SlotAccounting, permits' = permits,
         \A t \in Tasks : Holding(t)' = Holding(t)
  PROVE  permits' \in 0..Slots /\ IsFiniteSet(Holders') /\ SlotAccounting'
<1>1. Holders' = Holders
  BY DEF Holders
<1>2. QED
  BY <1>1 DEF SlotAccounting, TypeOK

(* A broadcast appends one event to the log of one task.                     *)
LEMMA BroadcastType ==
  ASSUME TypeOK, NEW t \in Tasks, NEW kind \in EventKind, Broadcast(t, kind)
  PROVE  log' \in [Tasks -> Seq(EventKind)]
<1>1. log[t] \in Seq(EventKind)
  BY DEF TypeOK
<1>2. Append(log[t], kind) \in Seq(EventKind)
  BY <1>1, AppendProperties
<1>3. QED
  BY <1>2 DEF Broadcast, TypeOK

-----------------------------------------------------------------------------
(* The types and the account of the slots, one step per action.              *)
LEMMA TypeAndSlotsStep ==
  ASSUME TypeOK, IsFiniteSet(Holders), SlotAccounting, [Next]_vars
  PROVE  TypeOK' /\ IsFiniteSet(Holders') /\ SlotAccounting'
<1> DEFINE Slotted == permits' \in 0..Slots /\ IsFiniteSet(Holders') /\ SlotAccounting'
<1> USE TaskQueueAssumption DEF Points, Statuses, EventKind, Outcomes, execution, reporting
<1>1. ASSUME NEW k \in Capabilities, RegisterHandler(k)
      PROVE  TypeOK' /\ Slotted
  <2>1. Slotted
    BY <1>1, SlotsUntouched DEF RegisterHandler, Holding
  <2>2. QED
    BY <1>1, <2>1 DEF RegisterHandler, TypeOK
<1>2. ASSUME NEW t \in Tasks, NEW c \in Clients, NEW k \in Capabilities, Submit(t, c, k)
      PROVE  TypeOK' /\ Slotted
  <2>1. Slotted
    <3>1. \A u \in Tasks : Holding(u)' = Holding(u)
      BY <1>2 DEF Submit, Goto, Holding, TypeOK
    <3>2. QED
      BY <1>2, <3>1, SlotsUntouched DEF Submit
  <2>2. log' \in [Tasks -> Seq(EventKind)]
    BY <1>2, BroadcastType DEF Submit
  <2>3. QED
    BY <1>2, <2>1, <2>2 DEF Submit, Goto, TypeOK
<1>3. ASSUME NEW t \in Tasks, NEW c \in Clients, Cancel(t, c)
      PROVE  TypeOK' /\ Slotted
  <2>1. Slotted
    BY <1>3, SlotsUntouched DEF Cancel, Holding
  <2>2. log' \in [Tasks -> Seq(EventKind)]
    BY <1>3, BroadcastType DEF Cancel
  <2>3. QED
    BY <1>3, <2>1, <2>2 DEF Cancel, TypeOK
<1>4. ASSUME NEW t \in Tasks, Enqueue(t)
      PROVE  TypeOK' /\ Slotted
  <2>1. Slotted
    <3>1. \A u \in Tasks : Holding(u)' = Holding(u)
      BY <1>4 DEF Enqueue, Goto, Holding, TypeOK
    <3>2. QED
      BY <1>4, <3>1, SlotsUntouched DEF Enqueue
  <2>2. waiters' \in Seq(Tasks)
    BY <1>4, AppendProperties DEF Enqueue, TypeOK
  <2>3. QED
    BY <1>4, <2>1, <2>2 DEF Enqueue, Goto, TypeOK
<1>5. ASSUME NEW t \in Tasks, Acquire(t)
      PROVE  TypeOK' /\ Slotted
  <2>1. Slotted
    BY <1>5, TakeSlot DEF Acquire, NextInLine
  <2>2. waiters' \in Seq(Tasks)
    BY <1>5, HeadTailProperties DEF Acquire, NextInLine, TypeOK
  <2>3. QED
    BY <1>5, <2>1, <2>2 DEF Acquire, Goto, TypeOK
<1>6. ASSUME NEW t \in Tasks, MarkRunning(t)
      PROVE  TypeOK' /\ Slotted
  <2>1. Slotted
    <3>1. \A u \in Tasks : Holding(u)' = Holding(u)
      BY <1>6 DEF MarkRunning, Goto, Holding, TypeOK
    <3>2. QED
      BY <1>6, <3>1, SlotsUntouched DEF MarkRunning
  <2>2. QED
    BY <1>6, <2>1 DEF MarkRunning, Goto, TypeOK
<1>7. ASSUME NEW t \in Tasks, Start(t)
      PROVE  TypeOK' /\ Slotted
  <2>1. Slotted
    <3>1. \A u \in Tasks : Holding(u)' = Holding(u)
      BY <1>7 DEF Start, Goto, Holding, TypeOK
    <3>2. QED
      BY <1>7, <3>1, SlotsUntouched DEF Start
  <2>2. log' \in [Tasks -> Seq(EventKind)]
    BY <1>7, BroadcastType DEF Start
  <2>3. QED
    BY <1>7, <2>1, <2>2 DEF Start, Goto, TypeOK
<1>8. ASSUME NEW t \in Tasks, Report(t)
      PROVE  TypeOK' /\ Slotted
  <2>1. Slotted
    BY <1>8, SlotsUntouched DEF Report, Holding
  <2>2. sent' \in [Tasks -> 0..Len(Reports)]
    BY <1>8, LenProperties DEF Report, TypeOK
  <2>3. QED
    BY <1>8, <2>1, <2>2 DEF Report, TypeOK
<1>9. ASSUME NEW t \in Tasks, StoreProgress(t)
      PROVE  TypeOK' /\ Slotted
  <2>1. Slotted
    BY <1>9, SlotsUntouched DEF StoreProgress, Holding
  <2>2. Len(Reports) \in Nat
    BY LenProperties
  <2>3. taken[t] + 1 \in 1..Len(Reports)
    BY <1>9, <2>2 DEF StoreProgress, ReportWaiting, TypeOK
  <2>4. Reports[taken[t] + 1] \in 0..100
    BY <2>3, ElementOfSeq
  <2>5. QED
    BY <1>9, <2>1, <2>3, <2>4, SMTT(20) DEF StoreProgress, TypeOK
<1>10. ASSUME NEW t \in Tasks, TellProgress(t)
       PROVE  TypeOK' /\ Slotted
  <2>1. Slotted
    BY <1>10, SlotsUntouched DEF TellProgress, Holding
  <2>2. Len(Reports) \in Nat
    BY LenProperties
  <2>3. told' \in [Tasks -> 0..Len(Reports)]
    BY <1>10, <2>2 DEF TellProgress, TypeOK
  <2>4. log' \in [Tasks -> Seq(EventKind)]
    BY <1>10, BroadcastType DEF TellProgress
  <2>5. QED
    BY <1>10, <2>1, <2>3, <2>4 DEF TellProgress, TypeOK
<1>11. ASSUME NEW t \in Tasks, NEW outcome \in Outcomes, EndExecution(t, outcome)
       PROVE  /\ Slotted
              /\ log' \in [Tasks -> Seq(EventKind)]
              /\ pc' \in [Tasks -> Points]
              /\ status' \in [Tasks -> Statuses]
  <2>1. Slotted
    BY <1>11, GiveSlotBack DEF EndExecution
  <2>2. log' \in [Tasks -> Seq(EventKind)]
    BY <1>11, BroadcastType DEF EndExecution
  <2>3. QED
    BY <1>11, <2>1, <2>2 DEF EndExecution, Goto, TypeOK
<1>12. ASSUME NEW t \in Tasks, Complete(t)
       PROVE  TypeOK' /\ Slotted
  <2>1. /\ Slotted
        /\ log' \in [Tasks -> Seq(EventKind)]
        /\ pc' \in [Tasks -> Points]
        /\ status' \in [Tasks -> Statuses]
    BY <1>12, <1>11 DEF Complete
  <2>2. result' \in [Tasks -> BOOLEAN] /\ progress' \in [Tasks -> 0..100]
    BY <1>12 DEF Complete, TypeOK
  <2>3. UNCHANGED <<handlers, request, waiters, error, sent, taken, told>>
    BY <1>12 DEF Complete
  <2>4. QED
    BY <2>1, <2>2, <2>3 DEF TypeOK
<1>13. ASSUME NEW t \in Tasks, FailOrTimeOut(t)
       PROVE  TypeOK' /\ Slotted
  <2>1. /\ Slotted
        /\ log' \in [Tasks -> Seq(EventKind)]
        /\ pc' \in [Tasks -> Points]
        /\ status' \in [Tasks -> Statuses]
    BY <1>13, <1>11 DEF FailOrTimeOut
  <2>2. QED
    BY <1>13, <2>1 DEF FailOrTimeOut, TypeOK
<1>14. CASE UNCHANGED vars
  <2>1. Slotted
    BY <1>14, SlotsUntouched DEF vars, Holding
  <2>2. QED
    BY <1>14, <2>1 DEF vars, TypeOK
<1>15. QED
  BY <1>1, <1>2, <1>3, <1>4, <1>5, <1>6, <1>7, <1>8, <1>9, <1>10, <1>12, <1>13, <1>14
     DEF Next, Run, Finish

-----------------------------------------------------------------------------
(* The lock-step of coroutine and entry, one step per action.                *)
LEMMA EntryStep ==
  ASSUME IInv, [Next]_vars
  PROVE  StatusByPoint' /\ OutcomeMatchesStatus' /\ HandlerFound'
<1> DEFINE Entry == StatusByPoint' /\ OutcomeMatchesStatus' /\ HandlerFound'
<1> USE DEF Points, Statuses, Outcomes, execution, reporting, Known, Registered
<1>1. ASSUME NEW k \in Capabilities, RegisterHandler(k) PROVE Entry
  BY <1>1 DEF RegisterHandler, IInv, TypeOK, StatusByPoint, OutcomeMatchesStatus, HandlerFound
<1>2. ASSUME NEW t \in Tasks, NEW c \in Clients, NEW k \in Capabilities, Submit(t, c, k)
      PROVE  Entry
  <2>1. [client |-> c, capability |-> k] # NoRequest
    BY TaskQueueAssumption
  <2>2. StatusByPoint'
    BY <1>2, <2>1 DEF Submit, Goto, IInv, TypeOK, StatusByPoint
  <2>3. OutcomeMatchesStatus'
    BY <1>2 DEF Submit, Goto, IInv, TypeOK, StatusByPoint, OutcomeMatchesStatus
  <2>4. HandlerFound'
    BY <1>2 DEF Submit, IInv, TypeOK, HandlerFound
  <2>5. QED
    BY <2>2, <2>3, <2>4
<1>3. ASSUME NEW t \in Tasks, NEW c \in Clients, Cancel(t, c) PROVE Entry
  <2>1. StatusByPoint'
    BY <1>3 DEF Cancel, Cancellable, IInv, TypeOK, StatusByPoint
  <2>2. OutcomeMatchesStatus' /\ HandlerFound'
    BY <1>3 DEF Cancel, Cancellable, IInv, TypeOK, OutcomeMatchesStatus, HandlerFound
  <2>3. QED
    BY <2>1, <2>2
<1>4. ASSUME NEW t \in Tasks, Enqueue(t) PROVE Entry
  BY <1>4 DEF Enqueue, Goto, IInv, TypeOK, StatusByPoint, OutcomeMatchesStatus, HandlerFound
<1>5. ASSUME NEW t \in Tasks, Acquire(t) PROVE Entry
  BY <1>5 DEF Acquire, Goto, IInv, TypeOK, StatusByPoint, OutcomeMatchesStatus, HandlerFound
<1>6. ASSUME NEW t \in Tasks, MarkRunning(t) PROVE Entry
  <2>1. StatusByPoint'
    BY <1>6 DEF MarkRunning, Goto, IInv, TypeOK, StatusByPoint
  <2>2. OutcomeMatchesStatus' /\ HandlerFound'
    BY <1>6 DEF MarkRunning, Goto, IInv, TypeOK, StatusByPoint, OutcomeMatchesStatus, HandlerFound
  <2>3. QED
    BY <2>1, <2>2
<1>7. ASSUME NEW t \in Tasks, Start(t) PROVE Entry
  BY <1>7 DEF Start, Goto, IInv, TypeOK, StatusByPoint, OutcomeMatchesStatus, HandlerFound
<1>8. ASSUME NEW t \in Tasks, Report(t) \/ StoreProgress(t) \/ TellProgress(t) PROVE Entry
  BY <1>8 DEF Report, StoreProgress, TellProgress, IInv, StatusByPoint,
              OutcomeMatchesStatus, HandlerFound
<1>9. ASSUME NEW t \in Tasks, Complete(t) PROVE Entry
  <2>1. StatusByPoint'
    BY <1>9 DEF Complete, EndExecution, Goto, IInv, TypeOK, StatusByPoint
  <2>2. OutcomeMatchesStatus' /\ HandlerFound'
    BY <1>9 DEF Complete, EndExecution, Goto, IInv, TypeOK, StatusByPoint,
                OutcomeMatchesStatus, HandlerFound
  <2>3. QED
    BY <2>1, <2>2
<1>10. ASSUME NEW t \in Tasks, FailOrTimeOut(t) PROVE Entry
  <2>1. StatusByPoint'
    BY <1>10 DEF FailOrTimeOut, EndExecution, Goto, IInv, TypeOK, StatusByPoint
  <2>2. OutcomeMatchesStatus' /\ HandlerFound'
    BY <1>10 DEF FailOrTimeOut, EndExecution, Goto, IInv, TypeOK, StatusByPoint,
                 OutcomeMatchesStatus, HandlerFound
  <2>3. QED
    BY <2>1, <2>2
<1>11. CASE UNCHANGED vars
  BY <1>11 DEF vars, IInv, StatusByPoint, OutcomeMatchesStatus, HandlerFound
<1>12. QED
  BY <1>1, <1>2, <1>3, <1>4, <1>5, <1>6, <1>7, <1>8, <1>9, <1>10, <1>11 DEF Next, Run, Finish

(* The inductive invariant of the queue.                                     *)
THEOREM Invariance == Spec => []IInv
<1>1. Init => IInv
  <2> SUFFICES ASSUME Init PROVE IInv
    OBVIOUS
  <2>1. Holders = {}
    BY DEF Init, Holders, Holding
  <2>2. IsFiniteSet(Holders) /\ SlotAccounting
    BY <2>1, FS_EmptySet, SlotsPositive DEF Init, SlotAccounting
  <2>3. Len(Reports) \in Nat
    BY TaskQueueAssumption, LenProperties
  <2>4. TypeOK
    BY <2>3, SlotsPositive, EmptySeq DEF Init, TypeOK, Points, Statuses
  <2>5. StatusByPoint /\ OutcomeMatchesStatus /\ HandlerFound
    BY DEF Init, StatusByPoint, OutcomeMatchesStatus, HandlerFound, Known, Outcomes
  <2>6. QED
    BY <2>2, <2>4, <2>5 DEF IInv
<1>2. IInv /\ [Next]_vars => IInv'
  BY TypeAndSlotsStep, EntryStep DEF IInv
<1>3. QED
  BY <1>1, <1>2, PTL DEF Spec

(* Every variable keeps its type, for every value of the constants.          *)
THEOREM TypeCorrectness == Spec => []TypeOK
  BY Invariance, PTL DEF IInv

(* No slot is ever lost or given out twice.                                  *)
THEOREM SlotsAddUp == Spec => []SlotAccounting
  BY Invariance, PTL DEF IInv

(* Never more executions at a time than there are slots.                     *)
THEOREM BoundedConcurrency == Spec => [](Cardinality(Holders) <= Slots)
<1>1. IInv => Cardinality(Holders) <= Slots
  BY FS_CardinalityType, SlotsPositive DEF IInv, SlotAccounting, TypeOK
<1>2. QED
  BY <1>1, Invariance, PTL

(* A task that says it is running holds a slot.                              *)
THEOREM RunningTasksHoldSlots == Spec => []RunningHoldsSlot
<1>1. IInv => RunningHoldsSlot
  BY DEF IInv, TypeOK, StatusByPoint, RunningHoldsSlot, Holding, Points, Outcomes
<1>2. QED
  BY <1>1, Invariance, PTL

(* Results and errors agree with the status.                                 *)
THEOREM OutcomesMatch == Spec => []OutcomeMatchesStatus
  BY Invariance, PTL DEF IInv

(* The handler lookup of an accepted task cannot fail.                       *)
THEOREM HandlersAreFound == Spec => []HandlerFound
  BY Invariance, PTL DEF IInv

-----------------------------------------------------------------------------
(* The event stream.  A status event becomes the last one of its task, and   *)
(* neither a percentage nor an event of another task changes what was told.  *)
LEMMA StatusIsTold ==
  ASSUME TypeOK, NEW t \in Tasks, NEW kind \in EventKind \ {"progress"}, Broadcast(t, kind),
         NEW n, n = Len(log[t]) + 1
  PROVE  /\ IsLast(t, n)' /\ log'[t][n] = kind
         /\ Told(t)' = IF kind \in Outcomes THEN Told(t) \cup {n} ELSE Told(t)
<1>1. log[t] \in Seq(EventKind) /\ log'[t] = Append(log[t], kind)
  BY DEF Broadcast, TypeOK
<1>2. /\ DOMAIN log'[t] = DOMAIN log[t] \cup {n} /\ log'[t][n] = kind
      /\ \A i \in DOMAIN log[t] : i < n /\ log'[t][i] = log[t][i]
  BY <1>1, AppendProperties
<1>3. n \in Nat /\ n \notin DOMAIN log[t] /\ DOMAIN log[t] \subseteq Nat
  BY <1>1, LenProperties
<1>4. StatusEvents(t)' = StatusEvents(t) \cup {n}
  BY <1>2, <1>3 DEF StatusEvents
<1>5. IsLast(t, n)'
  <2>1. \A i \in StatusEvents(t) : i <= n
    BY <1>1, <1>2, <1>3, LenProperties DEF StatusEvents
  <2> QED
    BY <1>3, <1>4, <2>1 DEF IsLast
<1>6. Told(t)' = IF kind \in Outcomes THEN Told(t) \cup {n} ELSE Told(t)
  BY <1>2, <1>3, <1>4 DEF Told, StatusEvents
<1> QED
  BY <1>2, <1>5, <1>6

LEMMA NothingIsTold ==
  ASSUME TypeOK, NEW t \in Tasks,
         \/ log'[t] = log[t]
         \/ Broadcast(t, "progress")
         \/ \E u \in Tasks \ {t}, kind \in EventKind : Broadcast(u, kind)
  PROVE  /\ Told(t)' = Told(t) /\ StatusEvents(t)' = StatusEvents(t)
         /\ \A i \in StatusEvents(t) : (IsLast(t, i)' <=> IsLast(t, i)) /\ log'[t][i] = log[t][i]
<1>1. \/ log'[t] = log[t]
      \/ log'[t] = Append(log[t], "progress") /\ log[t] \in Seq(EventKind)
  BY DEF Broadcast, TypeOK
<1>2. CASE log'[t] = log[t]
  BY <1>2 DEF Told, StatusEvents, IsLast
<1>3. CASE log'[t] = Append(log[t], "progress") /\ log[t] \in Seq(EventKind)
  <2> DEFINE n == Len(log[t]) + 1
  <2>1. /\ DOMAIN log'[t] = DOMAIN log[t] \cup {n} /\ log'[t][n] = "progress"
        /\ \A i \in DOMAIN log[t] : log'[t][i] = log[t][i]
    BY <1>3, AppendProperties, LenProperties DEF EventKind
  <2> HIDE DEF n
  <2>2. StatusEvents(t)' = StatusEvents(t)
    BY <2>1 DEF StatusEvents
  <2>3. \A i \in StatusEvents(t) : log'[t][i] = log[t][i]
    BY <2>1 DEF StatusEvents
  <2> QED
    BY <2>2, <2>3 DEF Told, IsLast
<1> QED
  BY <1>1, <1>2, <1>3

\* The two properties of the stream, for one task.
Followed(t) ==
  /\ IF pc[t] = "done" THEN \E i \in StatusEvents(t) : IsLast(t, i) /\ Told(t) = {i}
                       ELSE Told(t) = {}
  /\ Known(t) => \E i \in StatusEvents(t) : IsLast(t, i) /\ UpToDate(t, log[t][i])

LEMMA FollowedMeans == OutcomeToldOnce /\ StreamLagsOnlyAtStart <=> \A t \in Tasks : Followed(t)
  BY DEF Followed, OutcomeToldOnce, StreamLagsOnlyAtStart

\* A task of which nothing is told, and whose status and point stay in step.
LEMMA QuietTask ==
  ASSUME TypeOK, NEW t \in Tasks, Followed(t),
         \/ log'[t] = log[t]
         \/ Broadcast(t, "progress")
         \/ \E u \in Tasks \ {t}, kind \in EventKind : Broadcast(u, kind),
         Known(t)' = Known(t), pc'[t] = "done" <=> pc[t] = "done",
         \A heard \in EventKind : UpToDate(t, heard) => UpToDate(t, heard)'
  PROVE  Followed(t)'
<1>1. /\ Told(t)' = Told(t) /\ StatusEvents(t)' = StatusEvents(t)
      /\ \A i \in StatusEvents(t) : (IsLast(t, i)' <=> IsLast(t, i)) /\ log'[t][i] = log[t][i]
  BY NothingIsTold
<1>2. \A i \in StatusEvents(t) : log[t][i] \in EventKind
  BY ElementOfSeq DEF StatusEvents, TypeOK
<1>3. ASSUME Known(t) PROVE (\E i \in StatusEvents(t) : IsLast(t, i) /\ UpToDate(t, log[t][i]))'
  <2>1. PICK i \in StatusEvents(t) : IsLast(t, i) /\ UpToDate(t, log[t][i])
    BY <1>3 DEF Followed
  <2>2. UpToDate(t, log[t][i])'
    <3>1. UpToDate(t, log[t][i]) /\ log[t][i] \in EventKind /\ log'[t][i] = log[t][i]
      BY <1>1, <1>2, <2>1
    <3> QED
      BY <3>1 DEF UpToDate
  <2> QED
    BY <1>1, <2>1, <2>2
<1> QED
  BY <1>1, <1>3 DEF Followed

\* The other tasks of a step that tells something of t.
LEMMA OtherTasks ==
  ASSUME TypeOK, \A v \in Tasks : Followed(v),
         NEW t \in Tasks, NEW kind \in EventKind, Broadcast(t, kind),
         NEW u \in Tasks \ {t},
         request'[u] = request[u], pc'[u] = pc[u], status'[u] = status[u]
  PROVE  Followed(u)'
<1>1. Followed(u) /\ \E v \in Tasks \ {u}, k \in EventKind : Broadcast(v, k)
  OBVIOUS
<1>2. Known(u)' = Known(u) /\ \A heard \in EventKind : UpToDate(u, heard) => UpToDate(u, heard)'
  BY DEF Known, UpToDate
<1> QED
  BY <1>1, <1>2, QuietTask

(* The steps that tell the stream a status.                                  *)
LEMMA TellingStep ==
  ASSUME IInv, \A v \in Tasks : Followed(v), NEW t \in Tasks,
         \/ \E c \in Clients, k \in Capabilities : Submit(t, c, k)
         \/ \E c \in Clients : Cancel(t, c)
         \/ Start(t)
         \/ \E outcome \in Outcomes : EndExecution(t, outcome) /\ request' = request
  PROVE  \A u \in Tasks : Followed(u)'
<1> USE DEF IInv, TypeOK, Goto, EventKind, Outcomes, execution
<1>0. PICK n : n = Len(log[t]) + 1
  OBVIOUS
<1> DEFINE Tells(kind) ==
             /\ Broadcast(t, kind)
             /\ \/ kind = status'[t]
                \/ kind = "running" /\ pc'[t] = "executing" /\ status'[t] \in {"running", "cancelled"}
             /\ kind \in Outcomes <=> pc'[t] = "done"
             /\ pc[t] # "done"
             /\ \A u \in Tasks \ {t} : /\ pc'[u] = pc[u] /\ status'[u] = status[u]
                                       /\ request'[u] = request[u]
<1>1. PICK kind \in EventKind \ {"progress"} : Tells(kind)
  <2>1. ASSUME NEW c \in Clients, NEW k \in Capabilities, Submit(t, c, k) PROVE Tells("queued")
    BY <2>1 DEF Submit
  <2>2. ASSUME NEW c \in Clients, Cancel(t, c) PROVE Tells("cancelled")
    BY <2>2 DEF Cancel, Cancellable, StatusByPoint
  <2>3. CASE Start(t)
    <3>1. Tells("running")
      BY <2>3 DEF Start, StatusByPoint
    <3> QED
      BY <3>1
  <2>4. ASSUME NEW outcome \in Outcomes, EndExecution(t, outcome), request' = request
        PROVE  Tells(outcome)
    BY <2>4 DEF EndExecution
  <2> QED
    BY <2>1, <2>2, <2>3, <2>4
<1>2. /\ IsLast(t, n)' /\ log'[t][n] = kind
      /\ Told(t)' = IF kind \in Outcomes THEN Told(t) \cup {n} ELSE Told(t)
  <2>1. TypeOK /\ Broadcast(t, kind)
    BY <1>1
  <2> HIDE DEF Tells, IInv, TypeOK, Goto, EventKind, Outcomes, execution
  <2> QED
    BY <1>0, <2>1, StatusIsTold
<1>3. Told(t) = {} /\ n \in StatusEvents(t)'
  BY <1>1, <1>2 DEF Followed, IsLast
<1>4. UpToDate(t, kind)'
  BY <1>1 DEF UpToDate
<1>5. Followed(t)'
  <2>1. UpToDate(t, log[t][n])'
    BY <1>2, <1>4 DEF UpToDate
  <2>2. IF pc'[t] = "done" THEN Told(t)' = {n} ELSE Told(t)' = {}
    BY <1>1, <1>2, <1>3
  <2> QED
    BY <1>2, <1>3, <2>1, <2>2 DEF Followed
<1>6. ASSUME NEW u \in Tasks \ {t} PROVE Followed(u)'
  BY <1>1, OtherTasks
<1> QED
  BY <1>5, <1>6

(* The steps that tell it nothing of a status.                               *)
LEMMA QuietStep ==
  ASSUME IInv, \A v \in Tasks : Followed(v),
         \/ \E k \in Capabilities : RegisterHandler(k)
         \/ \E t \in Tasks : \/ Enqueue(t) \/ Acquire(t) \/ MarkRunning(t) \/ Report(t)
                             \/ StoreProgress(t) \/ TellProgress(t)
         \/ UNCHANGED vars
  PROVE  \A u \in Tasks : Followed(u)'
<1> USE DEF IInv, TypeOK, Goto, execution, reporting
<1> SUFFICES ASSUME NEW u \in Tasks PROVE Followed(u)'
  OBVIOUS
<1> DEFINE InStep == /\ Known(u)' = Known(u) /\ (pc'[u] = "done" <=> pc[u] = "done")
                     /\ \A heard \in EventKind : UpToDate(u, heard) => UpToDate(u, heard)'
           Silent == \/ log'[u] = log[u]
                     \/ Broadcast(u, "progress")
                     \/ \E t \in Tasks \ {u}, kind \in EventKind : Broadcast(t, kind)
<1>1. CASE (\E k \in Capabilities : RegisterHandler(k)) \/ UNCHANGED vars
  <2>1. InStep /\ Silent
    BY <1>1 DEF RegisterHandler, vars, Known, UpToDate
  <2> QED
    BY <2>1, QuietTask
<1>2. ASSUME NEW t \in Tasks, Enqueue(t) \/ Acquire(t) \/ Report(t) \/ StoreProgress(t)
      PROVE  Followed(u)'
  <2>1. InStep /\ Silent
    BY <1>2 DEF Enqueue, Acquire, Report, StoreProgress, Known, UpToDate
  <2> QED
    BY <2>1, QuietTask
<1>3. ASSUME NEW t \in Tasks, MarkRunning(t) PROVE Followed(u)'
  <2>1. InStep /\ Silent
    BY <1>3 DEF MarkRunning, Known, UpToDate
  <2> QED
    BY <2>1, QuietTask
<1>4. ASSUME NEW t \in Tasks, TellProgress(t) PROVE Followed(u)'
  <2>1. InStep
    BY <1>4 DEF TellProgress, Known, UpToDate
  <2>2. Silent
    BY <1>4 DEF TellProgress, EventKind
  <2> QED
    BY <2>1, <2>2, QuietTask
<1> QED
  BY <1>1, <1>2, <1>3, <1>4

(* The stream is followed through every step.                                *)
THEOREM StreamInvariance == Spec => [](OutcomeToldOnce /\ StreamLagsOnlyAtStart)
<1> DEFINE Stream == OutcomeToldOnce /\ StreamLagsOnlyAtStart
<1>1. Init => Stream
  BY DEF Init, OutcomeToldOnce, StreamLagsOnlyAtStart, StatusEvents, Told, Known
<1>2. IInv /\ Stream /\ [Next]_vars => Stream'
  <2> SUFFICES ASSUME IInv, \A v \in Tasks : Followed(v), [Next]_vars
               PROVE  \A u \in Tasks : Followed(u)'
    BY FollowedMeans DEF Followed, OutcomeToldOnce, StreamLagsOnlyAtStart
  <2>1. ASSUME NEW t \in Tasks, Finish(t) PROVE \A u \in Tasks : Followed(u)'
    <3>1. \E outcome \in Outcomes : EndExecution(t, outcome) /\ request' = request
      BY <2>1 DEF Finish, Complete, FailOrTimeOut, execution, Outcomes
    <3> QED
      BY <3>1, TellingStep
  <2> QED
    BY <2>1, TellingStep, QuietStep DEF Next, Run
<1> QED
  BY <1>1, <1>2, Invariance, PTL DEF Spec

(* The outcome of a task is told once, and it is the last that is told.      *)
THEOREM OutcomesAreTold == Spec => []OutcomeToldOnce
  BY StreamInvariance, PTL

(* Who follows the stream knows the status, but for the two windows.         *)
THEOREM StreamKeepsUp == Spec => []StreamLagsOnlyAtStart
  BY StreamInvariance, PTL

-----------------------------------------------------------------------------
(* Completed and failed are final, with what was recorded then.              *)
THEOREM OutcomesAreFinal == Spec => OutcomeIsFinal
<1> DEFINE Kept == \A t \in Tasks : status[t] \in Outcomes =>
              status'[t] = status[t] /\ result'[t] = result[t] /\ error'[t] = error[t]
<1>1. IInv /\ [Next]_vars => [Kept]_vars
  <2> SUFFICES ASSUME IInv, [Next]_vars PROVE Kept \/ UNCHANGED vars
    OBVIOUS
  <2> USE DEF IInv, TypeOK, Outcomes
  <2>1. ASSUME NEW t \in Tasks, pc[t] # "done" PROVE status[t] \notin Outcomes
    BY <2>1 DEF StatusByPoint, Points
  <2>2. ASSUME NEW k \in Capabilities, RegisterHandler(k) PROVE Kept
    BY <2>2 DEF RegisterHandler
  <2>3. ASSUME NEW t \in Tasks, NEW c \in Clients, NEW k \in Capabilities, Submit(t, c, k)
        PROVE  Kept
    BY <2>1, <2>3 DEF Submit, Goto
  <2>4. ASSUME NEW t \in Tasks, NEW c \in Clients, Cancel(t, c) PROVE Kept
    BY <2>4 DEF Cancel, Cancellable
  <2>5. ASSUME NEW t \in Tasks, Run(t) PROVE Kept
    <3>1. CASE Enqueue(t) \/ Acquire(t) \/ Start(t) \/ Report(t) \/ StoreProgress(t)
               \/ TellProgress(t)
      BY <3>1 DEF Enqueue, Acquire, Start, Report, StoreProgress, TellProgress
    <3>2. CASE MarkRunning(t)
      BY <2>1, <3>2 DEF MarkRunning, Goto
    <3>3. CASE Complete(t)
      BY <2>1, <3>3 DEF Complete, EndExecution, Goto
    <3>4. CASE FailOrTimeOut(t)
      BY <2>1, <3>4 DEF FailOrTimeOut, EndExecution, Goto
    <3>5. QED
      BY <2>5, <3>1, <3>2, <3>3, <3>4 DEF Run, Finish
  <2>6. QED
    BY <2>2, <2>3, <2>4, <2>5 DEF Next
<1>2. QED
  BY <1>1, Invariance, PTL DEF Spec, OutcomeIsFinal

(* A coroutine that keeps its phase, and its status once it is done, is a    *)
(* stuttering step of the pool.                                              *)
LEMMA PoolStutter ==
  ASSUME \A u \in Tasks : PhaseOf(u)' = PhaseOf(u) /\ OutcomeOf(u)' = OutcomeOf(u)
  PROVE  UNCHANGED <<phases, outcomes>>
  BY DEF phases, outcomes

(* Every step of the queue is a step of the pool or leaves it as it is.      *)
THEOREM ImplementsPool == Spec => PoolSpec
<1>1. Init => Pool!Init
  BY DEF Init, Pool!Init, phases, outcomes, PhaseOf, OutcomeOf
<1>2. IInv /\ [Next]_vars => [Pool!Next]_<<phases, outcomes>>
  <2> SUFFICES ASSUME IInv, [Next]_vars
               PROVE  Pool!Next \/ UNCHANGED <<phases, outcomes>>
    OBVIOUS
  <2> USE DEF IInv, TypeOK
  <2> DEFINE Same(u) == PhaseOf(u)' = PhaseOf(u) /\ OutcomeOf(u)' = OutcomeOf(u)
             Still   == UNCHANGED <<phases, outcomes>>
  <2>1. ASSUME NEW k \in Capabilities, RegisterHandler(k) PROVE Still
    BY <2>1 DEF RegisterHandler, phases, outcomes, PhaseOf, OutcomeOf, Holding
  <2>2. ASSUME NEW t \in Tasks, NEW c \in Clients, NEW k \in Capabilities, Submit(t, c, k)
        PROVE  Pool!Next
    <3>1. phases[t] = "new" /\ phases' = [phases EXCEPT ![t] = "pending"]
      BY <2>2 DEF Submit, Goto, phases, PhaseOf, Holding
    <3>2. outcomes' = outcomes
      BY <2>2 DEF Submit, Goto, outcomes, OutcomeOf
    <3>3. QED
      BY <3>1, <3>2 DEF Pool!Next, Pool!HandIn
  <2>3. ASSUME NEW t \in Tasks, NEW c \in Clients, Cancel(t, c) PROVE Still
    <3>1. pc[t] # "done"
      BY <2>3 DEF Cancel, Cancellable, StatusByPoint, Outcomes
    <3>2. \A u \in Tasks : Same(u)
      BY <2>3, <3>1 DEF Cancel, PhaseOf, OutcomeOf, Holding
    <3>3. QED
      BY <3>2, PoolStutter
  <2>4. ASSUME NEW t \in Tasks, Acquire(t) PROVE Pool!Next
    <3>1. phases[t] = "pending" /\ phases' = [phases EXCEPT ![t] = "active"]
      BY <2>4 DEF Acquire, Goto, phases, PhaseOf, Holding
    <3>2. outcomes' = outcomes
      BY <2>4 DEF Acquire, Goto, outcomes, OutcomeOf
    <3>3. Pool!Active = Holders
      BY DEF Pool!Active, Holders, phases, PhaseOf, Holding
    <3>4. Cardinality(Holders) < Slots
      BY <2>4, SlotsPositive, FS_CardinalityType DEF Acquire, NextInLine, SlotAccounting
    <3>5. Pool!Cardinality(Pool!Active) < Slots
      BY <3>3, <3>4 DEF Pool!Cardinality, Cardinality, Pool!IsFiniteSet, IsFiniteSet
    <3>6. Pool!Begin(t)
      BY <3>1, <3>2, <3>5, Zenon DEF Pool!Begin
    <3>7. QED
      BY <3>6 DEF Pool!Next
  <2>5. ASSUME NEW t \in Tasks, NEW o \in Outcomes, EndExecution(t, o) PROVE Pool!Next
    <3>1. phases[t] = "active" /\ phases' = [phases EXCEPT ![t] = "ended"]
      BY <2>5 DEF EndExecution, Goto, phases, PhaseOf, Holding
    <3>2. outcomes' = [outcomes EXCEPT ![t] = o]
      BY <2>5 DEF EndExecution, Goto, outcomes, OutcomeOf
    <3>3. QED
      BY <3>1, <3>2 DEF Pool!Next, Pool!End, Outcomes
  <2>6. ASSUME NEW t \in Tasks,
               Enqueue(t) \/ MarkRunning(t) \/ Start(t)
        PROVE  Still
    <3>1. \A u \in Tasks : Same(u)
      BY <2>6 DEF Enqueue, MarkRunning, Start, Goto, PhaseOf, OutcomeOf, Holding
    <3>2. QED
      BY <3>1, PoolStutter
  <2>7. ASSUME NEW t \in Tasks, Report(t) \/ StoreProgress(t) \/ TellProgress(t)
        PROVE  Still
    <3>1. \A u \in Tasks : Same(u)
      BY <2>7 DEF Report, StoreProgress, TellProgress, PhaseOf, OutcomeOf, Holding
    <3>2. QED
      BY <3>1, PoolStutter
  <2>8. CASE UNCHANGED vars
    BY <2>8 DEF vars, phases, outcomes, PhaseOf, OutcomeOf, Holding
  <2>9. QED
    BY <2>1, <2>2, <2>3, <2>4, <2>5, <2>6, <2>7, <2>8
       DEF Next, Run, Finish, Complete, FailOrTimeOut, Outcomes
<1>3. QED
  BY <1>1, <1>2, Invariance, PTL DEF Spec, PoolSpec, Pool!Spec, Pool!poolVars

-----------------------------------------------------------------------------
(* What keeps the queue moving, without which fairness would be of no use.   *)
\* The semaphore's line holds the tasks that wait, each of them once.
LineInv ==
  /\ \A i \in DOMAIN waiters : pc[waiters[i]] = "waiting"
  /\ \A i, j \in DOMAIN waiters : waiters[i] = waiters[j] => i = j
  /\ \A t \in Tasks : pc[t] = "waiting" => \E i \in DOMAIN waiters : waiters[i] = t

\* A report is sent, then stored, then told, and the forwarder has one in hand.
ReportsInv ==
  \A t \in Tasks : told[t] <= taken[t] /\ taken[t] <= sent[t] /\ taken[t] <= told[t] + 1

\* An accepted task that has no outcome, or a report nobody has been told of.
Unfinished(t) == (Known(t) /\ status[t] \notin Outcomes) \/ told[t] < sent[t]

\* The conditions of the steps that the runtime takes on its own, but for Report.
CanMove(t) ==
  \/ pc[t] = "spawned"
  \/ pc[t] = "waiting" /\ NextInLine(t)
  \/ pc[t] = "permitted"
  \/ pc[t] = "marked" /\ Registered(request[t].capability)
  \/ pc[t] = "executing"
  \/ ReportWaiting(t) \/ told[t] < taken[t]

(* While a task is unfinished, some task can move.                           *)
QueueNeverSticks == (\E t \in Tasks : Unfinished(t)) => \E t \in Tasks : CanMove(t)

\* The steps a task has still to take on its own, at most.
StepsToEnd(t) ==
  [idle |-> 6, spawned |-> 5, waiting |-> 4, permitted |-> 3, marked |-> 2,
   executing |-> 1, done |-> 0][pc[t]]
WorkLeft(t) == StepsToEnd(t) + (Len(Reports) - sent[t]) + (Len(Reports) - taken[t]) + (Len(Reports) - told[t])

(* Every step of a task uses up some of its work, no step adds to that of    *)
(* any, and nobody leaves the line before those in front.                    *)
WorkIsUsedUp ==
  [][/\ \A t \in Tasks : WorkLeft(t)' <= WorkLeft(t)
     /\ \A t \in Tasks : Run(t) => WorkLeft(t)' < WorkLeft(t)
     /\ \A i, j \in DOMAIN waiters :
          i < j /\ pc'[waiters[j]] # "waiting" => pc'[waiters[i]] # "waiting"]_vars

\* The line as a whole, told by its places.
LEMMA LinePlaces ==
  ASSUME TypeOK
  PROVE  /\ Len(waiters) \in Nat /\ DOMAIN waiters = 1..Len(waiters)
         /\ \A i \in DOMAIN waiters : waiters[i] \in Tasks
  BY LenProperties, ElementOfSeq DEF TypeOK

LEMMA LineUntouched ==
  ASSUME LineInv, waiters' = waiters, TypeOK,
         \A t \in Tasks : pc'[t] = "waiting" <=> pc[t] = "waiting"
  PROVE  LineInv'
  BY LinePlaces DEF LineInv

LEMMA EnqueueStep ==
  ASSUME TypeOK, LineInv, NEW t \in Tasks, Enqueue(t)
  PROVE  LineInv'
<1>1. /\ DOMAIN waiters' = DOMAIN waiters \cup {Len(waiters) + 1}
      /\ waiters'[Len(waiters) + 1] = t
      /\ \A i \in DOMAIN waiters : waiters'[i] = waiters[i]
  <2>1. waiters' = Append(waiters, t) /\ waiters \in Seq(Tasks)
    BY DEF Enqueue, TypeOK
  <2>2. waiters' \in Seq(Tasks) /\ Len(waiters') = Len(waiters) + 1
    BY <2>1, AppendProperties
  <2>3. DOMAIN waiters' = 1..(Len(waiters) + 1) /\ DOMAIN waiters = 1..Len(waiters)
    BY <2>1, <2>2, LenProperties
  <2>4. Len(waiters) \in Nat
    BY <2>1, LenProperties
  <2> QED BY <2>1, <2>3, <2>4, AppendProperties
<1>2. /\ pc[t] = "spawned" /\ pc'[t] = "waiting"
      /\ \A u \in Tasks \ {t} : pc'[u] = pc[u]
  BY DEF Enqueue, Goto, TypeOK
<1>3. \A i \in DOMAIN waiters : waiters[i] \in Tasks \ {t}
  BY <1>2, LinePlaces DEF LineInv
<1>4. \A i \in DOMAIN waiters' : pc'[waiters'[i]] = "waiting"
  BY <1>1, <1>2, <1>3 DEF LineInv
<1>5. \A i, j \in DOMAIN waiters' : waiters'[i] = waiters'[j] => i = j
  BY <1>1, <1>3 DEF LineInv
<1>6. \A u \in Tasks : pc'[u] = "waiting" => \E i \in DOMAIN waiters' : waiters'[i] = u
  BY <1>1, <1>2 DEF LineInv
<1> QED BY <1>4, <1>5, <1>6 DEF LineInv

\* Who takes a slot was first in line; the others move up by a place.
LEMMA MoveUp ==
  ASSUME TypeOK, LineInv, NEW t \in Tasks, Acquire(t)
  PROVE  /\ 1 \in DOMAIN waiters /\ waiters[1] = t
         /\ \A i \in DOMAIN waiters' : i + 1 \in DOMAIN waiters /\ waiters'[i] = waiters[i + 1]
         /\ \A i \in DOMAIN waiters \ {1} : i - 1 \in DOMAIN waiters' /\ waiters'[i - 1] = waiters[i]
         /\ pc'[t] = "permitted" /\ \A u \in Tasks \ {t} : pc'[u] = pc[u]
         /\ \A i \in DOMAIN waiters \ {1} : waiters[i] \in Tasks \ {t}
<1>1. /\ waiters # << >> /\ waiters \in Seq(Tasks)
      /\ waiters' = Tail(waiters) /\ Head(waiters) = t
  BY DEF Acquire, NextInLine, TypeOK
<1>2. Len(waiters) \in Nat \ {0} /\ DOMAIN waiters = 1..Len(waiters)
  BY <1>1, LenProperties, EmptySeq
<1>3. /\ waiters' \in Seq(Tasks) /\ Len(waiters') = Len(waiters) - 1
      /\ \A i \in 1..Len(waiters') : waiters'[i] = waiters[i + 1]
  BY <1>1, HeadTailProperties
<1>4. DOMAIN waiters' = 1..(Len(waiters) - 1)
  BY <1>3, LenProperties
<1>5. 1 \in DOMAIN waiters /\ waiters[1] = t
  BY <1>1, <1>2
<1>6. \A i \in DOMAIN waiters' : i + 1 \in DOMAIN waiters /\ waiters'[i] = waiters[i + 1]
  BY <1>2, <1>3, <1>4
<1>7. \A i \in DOMAIN waiters \ {1} : i - 1 \in DOMAIN waiters' /\ waiters'[i - 1] = waiters[i]
  <2> SUFFICES ASSUME NEW i \in DOMAIN waiters \ {1}
               PROVE  i - 1 \in DOMAIN waiters' /\ waiters'[i - 1] = waiters[i]
    OBVIOUS
  <2>1. i - 1 \in DOMAIN waiters' /\ (i - 1) + 1 = i
    BY <1>2, <1>4
  <2> QED BY <1>6, <2>1
<1>8. pc'[t] = "permitted" /\ \A u \in Tasks \ {t} : pc'[u] = pc[u]
  BY DEF Acquire, Goto, TypeOK
<1>9. \A i \in DOMAIN waiters \ {1} : waiters[i] \in Tasks \ {t}
  BY <1>5, LinePlaces DEF LineInv
<1> QED BY <1>5, <1>6, <1>7, <1>8, <1>9

LEMMA AcquireStep ==
  ASSUME TypeOK, LineInv, NEW t \in Tasks, Acquire(t)
  PROVE  LineInv'
<1>1. \A i \in DOMAIN waiters' : /\ i + 1 \in DOMAIN waiters \ {1}
                                 /\ waiters'[i] = waiters[i + 1] /\ i \in Int
  <2>1. \A i \in DOMAIN waiters' : i \in Nat \ {0}
    <3>1. waiters' \in Seq(Tasks)
      BY HeadTailProperties DEF Acquire, NextInLine, TypeOK
    <3> QED BY <3>1, LenProperties
  <2> QED BY <2>1, MoveUp
<1>2. \A i \in DOMAIN waiters' : pc'[waiters'[i]] = "waiting"
  BY <1>1, MoveUp DEF LineInv
<1>3. \A i, j \in DOMAIN waiters' : waiters'[i] = waiters'[j] => i = j
  <2> SUFFICES ASSUME NEW i \in DOMAIN waiters', NEW j \in DOMAIN waiters',
                      waiters'[i] = waiters'[j]
               PROVE  i = j
    OBVIOUS
  <2>1. i + 1 = j + 1 /\ i \in Int /\ j \in Int
    BY <1>1 DEF LineInv
  <2> QED BY <2>1
<1>4. \A u \in Tasks : pc'[u] = "waiting" => \E i \in DOMAIN waiters' : waiters'[i] = u
  <2> SUFFICES ASSUME NEW u \in Tasks, pc'[u] = "waiting"
               PROVE  \E i \in DOMAIN waiters' : waiters'[i] = u
    OBVIOUS
  <2>1. u # t /\ pc[u] = "waiting"
    BY MoveUp
  <2>2. PICK i \in DOMAIN waiters : waiters[i] = u
    BY <2>1 DEF LineInv
  <2>3. i # 1
    BY <2>1, <2>2, MoveUp
  <2> QED BY <2>2, <2>3, MoveUp
<1> QED BY <1>2, <1>3, <1>4 DEF LineInv

LEMMA LineStep ==
  ASSUME TypeOK, LineInv, [Next]_vars
  PROVE  LineInv'
<1> USE DEF execution, reporting
<1>1. ASSUME NEW t \in Tasks, NEW c \in Clients, NEW k \in Capabilities, Submit(t, c, k)
      PROVE  LineInv'
  <2>1. \A u \in Tasks : pc'[u] = "waiting" <=> pc[u] = "waiting"
    BY <1>1 DEF Submit, Goto, TypeOK
  <2> QED BY <1>1, <2>1, LineUntouched DEF Submit
<1>2. ASSUME NEW t \in Tasks, MarkRunning(t) \/ Start(t) \/ Finish(t) PROVE LineInv'
  <2>1. /\ waiters' = waiters
        /\ \E from \in {"permitted", "marked", "executing"}, to \in {"marked", "executing", "done"} :
             Goto(t, from, to)
    BY <1>2 DEF MarkRunning, Start, Finish, Complete, FailOrTimeOut, EndExecution
  <2>2. \A u \in Tasks : pc'[u] = "waiting" <=> pc[u] = "waiting"
    BY <2>1 DEF Goto, TypeOK
  <2> QED BY <2>1, <2>2, LineUntouched
<1>3. ASSUME NEW t \in Tasks, Report(t) \/ StoreProgress(t) \/ TellProgress(t) PROVE LineInv'
  BY <1>3, LineUntouched DEF Report, StoreProgress, TellProgress
<1>4. ASSUME NEW t \in Tasks, NEW c \in Clients, Cancel(t, c) PROVE LineInv'
  BY <1>4, LineUntouched DEF Cancel
<1>5. CASE (\E k \in Capabilities : RegisterHandler(k)) \/ UNCHANGED vars
  BY <1>5, LineUntouched DEF RegisterHandler, vars
<1> QED BY <1>1, <1>2, <1>3, <1>4, <1>5, EnqueueStep, AcquireStep DEF Next, Run

\* The counters of reports are numbers, of which the next lemmas speak.
LEMMA CountersOfReports ==
  ASSUME TypeOK, NEW t \in Tasks
  PROVE  /\ Len(Reports) \in Nat
         /\ sent[t] \in Nat /\ taken[t] \in Nat /\ told[t] \in Nat
         /\ sent[t] <= Len(Reports) /\ taken[t] <= Len(Reports) /\ told[t] <= Len(Reports)
<1>1. Len(Reports) \in Nat
  BY TaskQueueAssumption, LenProperties
<1> QED BY <1>1 DEF TypeOK

LEMMA ReportsStep ==
  ASSUME TypeOK, ReportsInv, [Next]_vars
  PROVE  ReportsInv'
<1> USE DEF execution, reporting
<1> SUFFICES ASSUME NEW u \in Tasks
             PROVE  told'[u] <= taken'[u] /\ taken'[u] <= sent'[u] /\ taken'[u] <= told'[u] + 1
  BY DEF ReportsInv
<1>1. CASE UNCHANGED <<sent, taken, told>>
  BY <1>1 DEF ReportsInv
<1>2. ASSUME NEW t \in Tasks, Report(t) \/ StoreProgress(t) \/ TellProgress(t)
      PROVE  told'[u] <= taken'[u] /\ taken'[u] <= sent'[u] /\ taken'[u] <= told'[u] + 1
  <2>1. CASE u # t
    BY <1>2, <2>1 DEF Report, StoreProgress, TellProgress, ReportsInv, TypeOK
  <2>2. CASE u = t
    BY <1>2, <2>2, CountersOfReports
       DEF Report, StoreProgress, TellProgress, ReportWaiting, ReportsInv, TypeOK
  <2> QED BY <2>1, <2>2
<1>3. ASSUME NEW t \in Tasks, Enqueue(t) \/ Acquire(t) \/ MarkRunning(t) \/ Start(t) \/ Finish(t)
      PROVE  UNCHANGED <<sent, taken, told>>
  BY <1>3 DEF Enqueue, Acquire, MarkRunning, Start, Finish, Complete, FailOrTimeOut
<1>4. ASSUME \/ \E k \in Capabilities : RegisterHandler(k)
             \/ \E t \in Tasks, c \in Clients : \/ \E k \in Capabilities : Submit(t, c, k)
                                                \/ Cancel(t, c)
             \/ UNCHANGED vars
      PROVE  UNCHANGED <<sent, taken, told>>
  BY <1>4 DEF RegisterHandler, Submit, Cancel, vars
<1> QED BY <1>1, <1>2, <1>3, <1>4 DEF Next, Run

LEMMA MovesInvariant == Spec => [](IInv /\ LineInv /\ ReportsInv)
<1>1. Init => LineInv /\ ReportsInv
  BY DEF Init, LineInv, ReportsInv
<1>2. IInv /\ LineInv /\ ReportsInv /\ [Next]_vars => LineInv' /\ ReportsInv'
  BY LineStep, ReportsStep DEF IInv
<1> QED BY <1>1, <1>2, Invariance, PTL DEF Spec

(* The queue never comes to a stand with an accepted task or a report left:  *)
(* a free slot has a taker and an occupied one a task that goes on, since    *)
(* permits are only missing while a task holds one (tasks.rs, submit).       *)
THEOREM NeverSticks == Spec => []QueueNeverSticks
<1>1. IInv /\ LineInv /\ ReportsInv => QueueNeverSticks
  <2> SUFFICES ASSUME IInv, LineInv, ReportsInv, NEW t \in Tasks, Unfinished(t)
               PROVE  \E u \in Tasks : CanMove(u)
    BY DEF QueueNeverSticks
  <2> USE DEF IInv
  <2>1. CASE told[t] < sent[t]
    <3>1. told[t] < taken[t] \/ (taken[t] = told[t] /\ taken[t] < sent[t])
      BY <2>1, CountersOfReports DEF ReportsInv
    <3> QED BY <3>1 DEF CanMove, ReportWaiting
  <2>2. CASE Known(t) /\ status[t] \notin Outcomes
    <3>1. pc[t] \in {"spawned", "waiting", "permitted", "marked", "executing"}
      BY <2>2 DEF StatusByPoint, TypeOK, Points
    <3>2. \A u \in Tasks : pc[u] = "marked" => Registered(request[u].capability)
      BY DEF StatusByPoint, HandlerFound, Registered
    <3>3. CASE pc[t] # "waiting"
      BY <3>1, <3>2, <3>3 DEF CanMove
    <3>4. CASE pc[t] = "waiting" /\ permits > 0
      <4>1. waiters # << >> /\ waiters \in Seq(Tasks)
        <5>1. DOMAIN waiters # {}
          BY <3>4 DEF LineInv
        <5> QED BY <5>1 DEF TypeOK
      <4>2. Head(waiters) \in Tasks /\ Head(waiters) = waiters[1] /\ 1 \in DOMAIN waiters
        <5>1. Len(waiters) \in Nat \ {0}
          BY <4>1, EmptySeq
        <5> QED BY <4>1, <5>1, HeadTailProperties, LinePlaces
      <4>3. pc[Head(waiters)] = "waiting" /\ NextInLine(Head(waiters))
        BY <3>4, <4>1, <4>2 DEF LineInv, NextInLine
      <4> QED BY <4>2, <4>3 DEF CanMove
    <3>5. CASE permits = 0
      <4>1. Holders # {}
        BY <3>5, SlotsPositive, FS_EmptySet DEF SlotAccounting
      <4>2. PICK u \in Tasks : Holding(u)
        BY <4>1 DEF Holders
      <4> QED BY <3>2, <4>2 DEF CanMove, Holding
    <3>6. permits = 0 \/ permits > 0
      BY SlotsPositive DEF TypeOK
    <3> QED BY <3>3, <3>4, <3>5, <3>6
  <2> QED BY <2>1, <2>2 DEF Unfinished
<1> QED BY <1>1, MovesInvariant, PTL

\* Who keeps his place and his counters has as much to do as before.
LEMMA SameWork ==
  ASSUME NEW t \in Tasks, pc'[t] = pc[t], sent'[t] = sent[t], taken'[t] = taken[t],
         told'[t] = told[t]
  PROVE  WorkLeft(t)' = WorkLeft(t)
  BY DEF WorkLeft, StepsToEnd

LEMMA StageIsNumber == TypeOK => \A t \in Tasks : StepsToEnd(t) \in Nat
<1> SUFFICES ASSUME TypeOK, NEW t \in Tasks PROVE StepsToEnd(t) \in Nat
  OBVIOUS
<1>1. pc[t] \in Points
  BY DEF TypeOK
<1> QED BY <1>1 DEF Points, StepsToEnd

LEMMA WorkIsNumber == TypeOK => \A t \in Tasks : WorkLeft(t) \in Nat
<1> SUFFICES ASSUME TypeOK, NEW t \in Tasks PROVE WorkLeft(t) \in Nat
  OBVIOUS
<1>1. StepsToEnd(t) \in Nat
  BY StageIsNumber
<1>2. /\ Len(Reports) - sent[t] \in Nat /\ Len(Reports) - taken[t] \in Nat
      /\ Len(Reports) - told[t] \in Nat
  BY CountersOfReports
<1> HIDE DEF StepsToEnd
<1> QED BY <1>1, <1>2 DEF WorkLeft

\* The arithmetic of it, with the counters as numbers.
LEMMA LessWork ==
  ASSUME TypeOK, NEW t \in Tasks, StepsToEnd(t)' \in Nat, StepsToEnd(t) \in Nat,
         NEW a \in Nat, NEW b \in Nat, NEW c \in Nat,
         a = sent'[t], b = taken'[t], c = told'[t]
  PROVE  /\ (StepsToEnd(t)' < StepsToEnd(t) /\ a = sent[t] /\ b = taken[t] /\ c = told[t])
               => WorkLeft(t)' < WorkLeft(t)
         /\ (StepsToEnd(t)' <= StepsToEnd(t) /\ a = sent[t] /\ b = taken[t] /\ c = told[t])
               => WorkLeft(t)' <= WorkLeft(t)
         /\ (StepsToEnd(t)' = StepsToEnd(t) /\ a + b + c = sent[t] + taken[t] + told[t] + 1)
               => WorkLeft(t)' < WorkLeft(t)
<1>1. PICK n \in Nat : n = Len(Reports)
  BY CountersOfReports
<1>2. PICK d \in Nat, e \in Nat, f \in Nat : d = sent[t] /\ e = taken[t] /\ f = told[t]
  BY CountersOfReports
<1>3. PICK x \in Nat, y \in Nat : x = StepsToEnd(t)' /\ y = StepsToEnd(t)
  OBVIOUS
<1>4. WorkLeft(t)' = x + (n - a) + (n - b) + (n - c)
  BY <1>1, <1>3 DEF WorkLeft
<1>5. WorkLeft(t) = y + (n - d) + (n - e) + (n - f)
  BY <1>1, <1>2, <1>3 DEF WorkLeft
<1> QED BY <1>2, <1>3, <1>4, <1>5

\* The step of a task on the way to its end takes it to a later stage.
LEMMA StepsForward ==
  ASSUME TypeOK, NEW t \in Tasks,
         Enqueue(t) \/ Acquire(t) \/ MarkRunning(t) \/ Start(t) \/ Finish(t)
  PROVE  /\ WorkLeft(t)' < WorkLeft(t)
         /\ \A u \in Tasks \ {t} : WorkLeft(u)' = WorkLeft(u)
<1> USE DEF execution, reporting
<1>1. /\ UNCHANGED <<sent, taken, told>>
      /\ \/ Goto(t, "spawned", "waiting") \/ Goto(t, "waiting", "permitted")
         \/ Goto(t, "permitted", "marked") \/ Goto(t, "marked", "executing")
         \/ Goto(t, "executing", "done")
  BY DEF Enqueue, Acquire, MarkRunning, Start, Finish, Complete, FailOrTimeOut, EndExecution
<1>2. StepsToEnd(t)' < StepsToEnd(t) /\ StepsToEnd(t)' \in Nat /\ StepsToEnd(t) \in Nat
  <2>1. ASSUME NEW from, NEW to, Goto(t, from, to)
        PROVE  pc[t] = from /\ pc'[t] = to
    BY <2>1 DEF Goto, TypeOK
  <2> QED BY <1>1, <2>1 DEF StepsToEnd
<1>3. WorkLeft(t)' < WorkLeft(t)
  BY <1>1, <1>2, CountersOfReports, LessWork
<1>4. \A u \in Tasks \ {t} : WorkLeft(u)' = WorkLeft(u)
  <2>1. \A u \in Tasks \ {t} : pc'[u] = pc[u]
    BY <1>1 DEF Goto, TypeOK
  <2> QED BY <1>1, <2>1, SameWork
<1> QED BY <1>3, <1>4

LEMMA ReportsForward ==
  ASSUME TypeOK, NEW t \in Tasks, Report(t) \/ StoreProgress(t) \/ TellProgress(t)
  PROVE  /\ WorkLeft(t)' < WorkLeft(t)
         /\ \A u \in Tasks \ {t} : WorkLeft(u)' = WorkLeft(u)
<1>1. /\ UNCHANGED pc
      /\ sent'[t] + taken'[t] + told'[t] = sent[t] + taken[t] + told[t] + 1
      /\ sent'[t] \in Nat /\ taken'[t] \in Nat /\ told'[t] \in Nat
      /\ \A u \in Tasks \ {t} : /\ sent'[u] = sent[u] /\ taken'[u] = taken[u]
                                /\ told'[u] = told[u]
  <2>1. /\ sent[t] \in Nat /\ taken[t] \in Nat /\ told[t] \in Nat
        /\ t \in DOMAIN sent /\ t \in DOMAIN taken /\ t \in DOMAIN told
    BY CountersOfReports DEF TypeOK
  <2>2. CASE Report(t)
    <3>1. sent' = [sent EXCEPT ![t] = @ + 1] /\ UNCHANGED <<pc, taken, told>>
      BY <2>2 DEF Report
    <3> QED BY <2>1, <3>1
  <2>3. CASE StoreProgress(t)
    <3>1. taken' = [taken EXCEPT ![t] = @ + 1] /\ UNCHANGED <<pc, sent, told>>
      BY <2>3 DEF StoreProgress
    <3> QED BY <2>1, <3>1
  <2>4. CASE TellProgress(t)
    <3>1. told' = [told EXCEPT ![t] = @ + 1] /\ UNCHANGED <<pc, sent, taken>>
      BY <2>4 DEF TellProgress
    <3> QED BY <2>1, <3>1
  <2> QED BY <2>2, <2>3, <2>4
<1>2. StepsToEnd(t)' = StepsToEnd(t) /\ StepsToEnd(t) \in Nat
  <2>1. StepsToEnd(t)' = StepsToEnd(t)
    BY <1>1 DEF StepsToEnd
  <2> QED BY <2>1, StageIsNumber
<1>3. WorkLeft(t)' < WorkLeft(t)
  BY <1>1, <1>2, LessWork
<1>4. \A u \in Tasks \ {t} : WorkLeft(u)' = WorkLeft(u)
  BY <1>1, SameWork
<1> QED BY <1>3, <1>4

\* A submission is the first step of its task, and the others' work stays.
LEMMA RequestsAddNoWork ==
  ASSUME TypeOK,
         \/ \E k \in Capabilities : RegisterHandler(k)
         \/ \E t \in Tasks, c \in Clients : \/ \E k \in Capabilities : Submit(t, c, k)
                                            \/ Cancel(t, c)
         \/ UNCHANGED vars
  PROVE  \A u \in Tasks : WorkLeft(u)' <= WorkLeft(u)
<1> SUFFICES ASSUME NEW u \in Tasks PROVE WorkLeft(u)' <= WorkLeft(u)
  OBVIOUS
<1> USE DEF execution, reporting
<1>1. UNCHANGED <<sent, taken, told>>
  BY DEF RegisterHandler, Submit, Cancel, vars
<1>2. pc'[u] = pc[u] \/ (pc[u] = "idle" /\ pc'[u] = "spawned")
  BY DEF RegisterHandler, Submit, Goto, Cancel, vars, TypeOK, Points
<1>3. StepsToEnd(u)' <= StepsToEnd(u) /\ StepsToEnd(u)' \in Nat /\ StepsToEnd(u) \in Nat
  <2>1. pc[u] \in Points
    BY DEF TypeOK
  <2> QED BY <1>2, <2>1 DEF StepsToEnd, Points
<1> QED BY <1>1, <1>3, CountersOfReports, LessWork

(* No task is run in circles: each step of a task leaves it less to do, what *)
(* others do gives it none, and the semaphore is first come first served.    *)
(* With NeverSticks: whatever was accepted is soon all done, if no more is.  *)
THEOREM WorkShrinks == Spec => WorkIsUsedUp
<1> DEFINE Shrinks  == \A t \in Tasks : WorkLeft(t)' <= WorkLeft(t)
           Numbers  == \A t \in Tasks : WorkLeft(t) \in Nat
           Uses     == \A t \in Tasks : Run(t) => WorkLeft(t)' < WorkLeft(t)
           InTurn   == \A i, j \in DOMAIN waiters :
                         i < j /\ pc'[waiters[j]] # "waiting" => pc'[waiters[i]] # "waiting"
<1>1. ASSUME TypeOK, LineInv, Numbers, Numbers', [Next]_vars
      PROVE  Shrinks /\ Uses /\ InTurn
  <2>1. Uses
    BY <1>1, StepsForward, ReportsForward DEF Run
  <2>2. Shrinks
    <3>1. ASSUME NEW t \in Tasks, Run(t) PROVE Shrinks
      <4>1. WorkLeft(t)' < WorkLeft(t) /\ \A u \in Tasks \ {t} : WorkLeft(u)' = WorkLeft(u)
        <5>1. CASE Report(t) \/ StoreProgress(t) \/ TellProgress(t)
          BY <1>1, <5>1, ReportsForward
        <5>2. CASE Enqueue(t) \/ Acquire(t) \/ MarkRunning(t) \/ Start(t) \/ Finish(t)
          BY <1>1, <5>2, StepsForward
        <5> QED BY <3>1, <5>1, <5>2 DEF Run
      <4> QED BY <1>1, <4>1
    <3> QED BY <1>1, <3>1, RequestsAddNoWork DEF Next
  <2>3. InTurn
    <3>1. ASSUME NEW t \in Tasks, Acquire(t) PROVE InTurn
      <4>1. \A i \in DOMAIN waiters \ {1} : pc'[waiters[i]] = "waiting"
        BY <1>1, <3>1, MoveUp DEF LineInv
      <4>2. \A i \in DOMAIN waiters : i \in Nat \ {0}
        BY <1>1, LinePlaces
      <4> QED BY <1>1, <3>1, <4>1, <4>2, MoveUp
    <3>2. ASSUME ~(\E t \in Tasks : Acquire(t)) PROVE \A i \in DOMAIN waiters : pc'[waiters[i]] = "waiting"
      <4> SUFFICES ASSUME NEW i \in DOMAIN waiters PROVE pc'[waiters[i]] = "waiting"
        OBVIOUS
      <4>1. PICK u \in Tasks : u = waiters[i] /\ pc[u] = "waiting"
        BY <1>1, LinePlaces DEF LineInv
      <4>2. ASSUME NEW t \in Tasks, NEW from \in Points \ {"waiting"}, NEW to \in Points,
                   Goto(t, from, to)
            PROVE  pc'[u] = "waiting"
        BY <1>1, <4>1, <4>2 DEF Goto, TypeOK
      <4>3. \/ UNCHANGED pc
            \/ \E t \in Tasks, from \in Points \ {"waiting"}, to \in Points : Goto(t, from, to)
        BY <1>1, <3>2 DEF Next, Run, RegisterHandler, Submit, Cancel, Enqueue, MarkRunning, Start,
           Report, StoreProgress, TellProgress, Finish, Complete, FailOrTimeOut, EndExecution, vars, Points
      <4> QED BY <4>1, <4>2, <4>3
    <3> QED BY <3>1, <3>2
  <2> QED BY <2>1, <2>2, <2>3
<1>2. IInv => TypeOK /\ Numbers
  BY WorkIsNumber DEF IInv
<1> HIDE DEF Numbers, Shrinks, Uses, InTurn
<1>3. IInv /\ LineInv /\ Numbers /\ Numbers' /\ [Next]_vars => [Shrinks /\ Uses /\ InTurn]_vars
  BY <1>1, <1>2
<1>4. Spec => [][Shrinks /\ Uses /\ InTurn]_vars
  BY <1>2, <1>3, MovesInvariant, PTL DEF Spec
<1> QED BY <1>4, PTL DEF WorkIsUsedUp, Shrinks, Uses, InTurn
=============================================================================
