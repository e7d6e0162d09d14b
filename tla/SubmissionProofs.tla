-------------------------- MODULE SubmissionProofs --------------------------
(***************************************************************************)
(* Proofs about what a submission passes before it is queued: the rate     *)
(* limiter's bound, for every limit, window, clock resolution and number   *)
(* of clients; and what the key manager keeps through restarts, for any    *)
(* number of clients and keys.                                             *)
(***************************************************************************)
EXTENDS RateLimiter, KeyManager, FiniteSetTheorems, TLAPS

(* Nothing accepted within the last window is ever forgotten: what the       *)
(* bound over any span rests on.                                             *)
NothingForgotten ==
  \A c \in Callers :
    /\ windows[c] \subseteq accepted[c]
    /\ \A s \in accepted[c] : s.at <= now /\ (now - s.at < Window => s \in windows[c])

IInv ==
  /\ LimiterTypeOK
  /\ \A c \in Callers : IsFiniteSet(accepted[c])
  /\ NothingForgotten
  /\ SlidingWindowBound

LEMMA WindowType == Window \in Nat
  BY RateLimiterAssumption DEF Window

(* Pruning only drops timestamps.                                            *)
LEMMA LiveSubset ==
  ASSUME IInv, NEW c \in Callers, NEW t
  PROVE  /\ Live(c, t) \in SUBSET windows[c]
         /\ IsFiniteSet(windows[c]) /\ IsFiniteSet(Live(c, t))
         /\ Cardinality(Live(c, t)) <= Cardinality(windows[c])
         /\ Cardinality(Live(c, t)) \in Nat /\ Cardinality(windows[c]) \in Nat
<1>1. windows[c] \in SUBSET accepted[c] /\ IsFiniteSet(accepted[c])
  BY DEF IInv, NothingForgotten
<1>2. IsFiniteSet(windows[c])
  BY <1>1, FS_Subset
<1>3. Live(c, t) \in SUBSET windows[c]
  BY DEF Live
<1>4. IsFiniteSet(Live(c, t)) /\ Cardinality(Live(c, t)) <= Cardinality(windows[c])
  BY <1>2, <1>3, FS_Subset
<1>5. QED
  BY <1>2, <1>3, <1>4, FS_CardinalityType

(* A set inside the live timestamps and one new stamp respects the limit.    *)
LEMMA RoomBound ==
  ASSUME IInv, NEW c \in Callers, Room(c), NEW stamp, NEW S,
         S \subseteq Live(c, now) \cup {stamp}
  PROVE  IsFiniteSet(S) /\ Cardinality(S) <= MaxTasksPerWindow
<1> DEFINE T == Live(c, now) \cup {stamp}
<1>1. IsFiniteSet(Live(c, now)) /\ Cardinality(Live(c, now)) \in Nat
  BY LiveSubset
<1>2. IsFiniteSet(T) /\ Cardinality(T) <= Cardinality(Live(c, now)) + 1
  BY <1>1, FS_AddElement
<1>3. Cardinality(Live(c, now)) + 1 <= MaxTasksPerWindow
  BY <1>1, RateLimiterAssumption DEF Room
<1>4. S \in SUBSET T
  OBVIOUS
<1>5. IsFiniteSet(S) /\ Cardinality(S) <= Cardinality(T)
  BY <1>2, <1>4, FS_Subset
<1>6. Cardinality(S) \in Nat /\ Cardinality(T) \in Nat
  BY <1>2, <1>5, FS_CardinalityType
<1>7. QED
  BY <1>1, <1>2, <1>3, <1>5, <1>6, RateLimiterAssumption

(* Steps that accept nothing and prune at most.                              *)
LEMMA PruneStep ==
  ASSUME IInv, NEW later \in 0..Horizon, now <= later, now' = later,
         accepted' = accepted, windows' \in [Callers -> SUBSET Stamps],
         \A c \in Callers : windows'[c] = windows[c] \/ windows'[c] = Live(c, now),
         promise' \in [Callers -> Int \cup {NoPromise}]
  PROVE  IInv'
<1>1. LimiterTypeOK'
  <2>1. \A c \in Callers : Cardinality(windows'[c]) <= MaxTasksPerWindow
    BY LiveSubset, RateLimiterAssumption DEF IInv, LimiterTypeOK
  <2>2. QED
    BY <2>1 DEF LimiterTypeOK, IInv
<1>2. NothingForgotten'
  BY WindowType DEF NothingForgotten, IInv, LimiterTypeOK, Live, Stamps
<1>3. SlidingWindowBound'
  BY DEF IInv, SlidingWindowBound, AcceptedWithin
<1>4. QED
  BY <1>1, <1>2, <1>3 DEF IInv

(* Accepting: the new stamp shares a span only with timestamps still live.   *)
LEMMA AcceptStep ==
  ASSUME IInv, NEW c \in Callers, NEW k \in Tickets, Accept(c, k)
  PROVE  IInv'
<1>1. PICK later \in SecondRead :
        LET stamp == [ticket |-> k, at |-> later] IN
        /\ windows'  = [windows EXCEPT ![c] = Live(c, now) \cup {stamp}]
        /\ accepted' = [accepted EXCEPT ![c] = @ \cup {stamp}]
        /\ now' = later
  BY DEF Accept
<1> DEFINE stamp == [ticket |-> k, at |-> later]
<1>2. Room(c) /\ promise' = [promise EXCEPT ![c] = NoPromise]
  BY DEF Accept
<1>3. later \in 0..Horizon /\ now <= later /\ later <= now + 1
  BY DEF IInv, LimiterTypeOK, SecondRead
<1>4. stamp \in Stamps
  BY <1>3 DEF Stamps
<1>5. windows'[c] = Live(c, now) \cup {stamp} /\ accepted'[c] = accepted[c] \cup {stamp}
  BY <1>1 DEF IInv, LimiterTypeOK
<1>6. \A d \in Callers \ {c} : windows'[d] = windows[d] /\ accepted'[d] = accepted[d]
  BY <1>1 DEF IInv, LimiterTypeOK
<1>7. LimiterTypeOK'
  <2>1. Cardinality(windows'[c]) <= MaxTasksPerWindow
    BY <1>2, <1>5, RoomBound
  <2>2. \A d \in Callers : Cardinality(windows'[d]) <= MaxTasksPerWindow
    BY <1>6, <2>1 DEF IInv, LimiterTypeOK
  <2>3. Live(c, now) \cup {stamp} \in SUBSET Stamps
    BY <1>4 DEF Live, IInv, LimiterTypeOK
  <2>4. accepted[c] \cup {stamp} \in SUBSET Stamps
    BY <1>4 DEF IInv, LimiterTypeOK
  <2>5. windows' \in [Callers -> SUBSET Stamps] /\ accepted' \in [Callers -> SUBSET Stamps]
    BY <1>1, <2>3, <2>4 DEF IInv, LimiterTypeOK
  <2>6. QED
    BY <1>1, <1>2, <1>3, <2>2, <2>5 DEF IInv, LimiterTypeOK
<1>8. \A d \in Callers : IsFiniteSet(accepted'[d])
  <2>1. IsFiniteSet(accepted[c] \cup {stamp})
    BY FS_AddElement DEF IInv
  <2>2. QED
    BY <1>5, <1>6, <2>1 DEF IInv
<1>9. NothingForgotten'
  <2>1. ASSUME NEW d \in Callers PROVE windows'[d] \subseteq accepted'[d]
    BY <1>5, <1>6 DEF IInv, NothingForgotten, Live
  <2>2. ASSUME NEW d \in Callers, NEW s \in accepted[d]
        PROVE  s.at <= later /\ (later - s.at < Window => s \in windows'[d])
    BY <1>3, <1>5, <1>6, WindowType DEF IInv, NothingForgotten, LimiterTypeOK, Stamps, Live
  <2>3. stamp.at = later /\ stamp \in windows'[c]
    BY <1>5
  <2>4. QED
    BY <1>1, <1>3, <1>5, <1>6, <2>1, <2>2, <2>3 DEF NothingForgotten
<1>10. SlidingWindowBound'
  <2> SUFFICES ASSUME NEW d \in Callers, NEW t \in 0..Horizon
               PROVE  Cardinality(AcceptedWithin(d, t)') <= MaxTasksPerWindow
    BY DEF SlidingWindowBound
  <2>1. CASE d # c \/ t < later
    <3>1. AcceptedWithin(d, t)' = AcceptedWithin(d, t)
      BY <1>3, <1>5, <1>6, <2>1 DEF AcceptedWithin
    <3>2. QED
      BY <3>1 DEF IInv, SlidingWindowBound
  <2>2. CASE d = c /\ later <= t
    <3>1. ASSUME NEW s \in accepted[c], t - Window < s.at PROVE s \in Live(c, now)
      BY <1>3, <2>2, <3>1, WindowType DEF IInv, NothingForgotten, LimiterTypeOK, Stamps, Live
    <3>2. AcceptedWithin(d, t)' \subseteq Live(c, now) \cup {stamp}
      BY <1>5, <2>2, <3>1 DEF AcceptedWithin
    <3>3. QED
      BY <1>2, <3>2, RoomBound
  <2>3. QED
    BY <1>3, <2>1, <2>2
<1>11. QED
  BY <1>7, <1>8, <1>9, <1>10 DEF IInv

-----------------------------------------------------------------------------
(* The inductive invariant of the limiter.                                   *)
THEOREM Invariance == LimiterSpec => []IInv
<1>1. LimiterInit => IInv
  <2> SUFFICES ASSUME LimiterInit PROVE IInv
    OBVIOUS
  <2>1. \A c \in Callers : windows[c] = {} /\ accepted[c] = {}
    BY DEF LimiterInit
  <2>2. \A c \in Callers, t \in 0..Horizon : AcceptedWithin(c, t) = {}
    BY <2>1 DEF AcceptedWithin
  <2>3. LimiterTypeOK /\ \A c \in Callers : IsFiniteSet(accepted[c])
    BY <2>1, FS_EmptySet, RateLimiterAssumption DEF LimiterInit, LimiterTypeOK
  <2>4. NothingForgotten
    BY <2>1 DEF NothingForgotten
  <2>5. SlidingWindowBound
    <3>1. Cardinality({}) <= MaxTasksPerWindow
      BY FS_EmptySet, RateLimiterAssumption
    <3>2. QED
      BY <2>2, <3>1 DEF SlidingWindowBound
  <2>6. QED
    BY <2>3, <2>4, <2>5 DEF IInv
<1>2. IInv /\ [LimiterNext]_limiterVars => IInv'
  <2> SUFFICES ASSUME IInv, [LimiterNext]_limiterVars PROVE IInv'
    OBVIOUS
  <2>1. ASSUME NEW c \in Callers, Live(c, now) \in SUBSET windows[c]
        PROVE  Live(c, now) \in SUBSET Stamps
    BY <2>1 DEF IInv, LimiterTypeOK
  <2>2. ASSUME NEW c \in Callers, Refuse(c) PROVE IInv'
    <3>1. PICK oldest \in Oldest(c), later \in SecondRead :
            /\ promise' = [promise EXCEPT ![c] = later + RetryAfter(oldest, later) * TicksPerSecond]
            /\ now' = later
      BY <2>2 DEF Refuse
    <3>2. later \in 0..Horizon /\ now <= later
      BY DEF SecondRead, IInv, LimiterTypeOK
    <3>3. RetryAfter(oldest, later) \in Int
      <4>1. oldest \in Int
        BY DEF Oldest, Live, IInv, LimiterTypeOK, Stamps
      <4>2. QED
        BY <3>2, <4>1, WindowType, RateLimiterAssumption DEF RetryAfter
    <3>4. promise' \in [Callers -> Int \cup {NoPromise}]
      BY <3>1, <3>2, <3>3, RateLimiterAssumption DEF IInv, LimiterTypeOK
    <3>5. windows' \in [Callers -> SUBSET Stamps]
      BY <2>1, <2>2, LiveSubset DEF Refuse, IInv, LimiterTypeOK
    <3>6. QED
      BY <2>2, <3>1, <3>2, <3>4, <3>5, PruneStep DEF Refuse, IInv, LimiterTypeOK
  <2>3. ASSUME NEW c \in Callers, NEW k \in Tickets, Accept(c, k) PROVE IInv'
    BY <2>3, AcceptStep
  <2>4. CASE Cleanup
    <3>1. windows' \in [Callers -> SUBSET Stamps]
      BY <2>1, <2>4, LiveSubset DEF Cleanup
    <3>2. QED
      BY <2>4, <3>1, PruneStep DEF Cleanup, IInv, LimiterTypeOK
  <2>5. CASE Tick
    BY <2>5, PruneStep, RateLimiterAssumption DEF Tick, IInv, LimiterTypeOK
  <2>6. CASE UNCHANGED limiterVars
    BY <2>6, PruneStep DEF limiterVars, IInv, LimiterTypeOK
  <2>7. QED
    BY <2>2, <2>3, <2>4, <2>5, <2>6 DEF LimiterNext
<1>3. QED
  BY <1>1, <1>2, PTL DEF LimiterSpec

(* Types, and no window longer than the limit.                               *)
THEOREM TypeCorrectness == LimiterSpec => []LimiterTypeOK
  BY Invariance, PTL DEF IInv

(* No span of a window's length has more accepted submissions than allowed.  *)
THEOREM NeverTooManyInAWindow == LimiterSpec => []SlidingWindowBound
  BY Invariance, PTL DEF IInv

-----------------------------------------------------------------------------
(* A client that was told when to come back either still has a timestamp     *)
(* that will be stale by then, or has room already.                          *)
PromiseInv ==
  \A c \in Callers : promise[c] # NoPromise =>
    \/ \E s \in windows[c] : s.at + Window <= promise[c]
    \/ Cardinality(windows[c]) < MaxTasksPerWindow

(* Rounding up to whole seconds never falls short.                           *)
LEMMA RoundingUp ==
  ASSUME NEW left \in Nat
  PROVE  (left \div TicksPerSecond + 1) * TicksPerSecond > left
  BY RateLimiterAssumption, SMT

(* A pruning that drops a timestamp leaves room.                             *)
LEMMA DroppingLeavesRoom ==
  ASSUME IInv, NEW c \in Callers, NEW t, NEW s \in windows[c], s \notin Live(c, t)
  PROVE  Cardinality(Live(c, t)) < MaxTasksPerWindow
<1>1. Live(c, t) # windows[c]
  OBVIOUS
<1>2. Cardinality(Live(c, t)) # Cardinality(windows[c])
  BY <1>1, LiveSubset, FS_Subset
<1>3. QED
  BY <1>2, LiveSubset, RateLimiterAssumption DEF IInv, LimiterTypeOK

(* What the limiter promises survives pruning.                               *)
LEMMA PromiseSurvives ==
  ASSUME IInv, PromiseInv, NEW c \in Callers, promise'[c] = promise[c],
         windows'[c] = windows[c] \/ windows'[c] = Live(c, now)
  PROVE  promise'[c] # NoPromise =>
           \/ \E s \in windows'[c] : s.at + Window <= promise'[c]
           \/ Cardinality(windows'[c]) < MaxTasksPerWindow
<1>1. CASE windows'[c] = windows[c]
  BY <1>1 DEF PromiseInv
<1>2. CASE windows'[c] = Live(c, now)
  <2>1. CASE Cardinality(windows[c]) < MaxTasksPerWindow
    BY <1>2, <2>1, LiveSubset, RateLimiterAssumption
  <2>2. ASSUME NEW s \in windows[c], s.at + Window <= promise[c], s \notin Live(c, now)
        PROVE  Cardinality(windows'[c]) < MaxTasksPerWindow
    BY <1>2, <2>2, DroppingLeavesRoom
  <2>3. QED
    BY <1>2, <2>1, <2>2 DEF PromiseInv
<1>3. QED
  BY <1>1, <1>2

(* The wait that a refusal announces is long enough.                         *)
LEMMA RefusePromise ==
  ASSUME IInv, NEW c \in Callers, Refuse(c)
  PROVE  \E s \in windows'[c] : s.at + Window <= promise'[c]
<1>1. PICK oldest \in Oldest(c), later \in SecondRead :
        promise' = [promise EXCEPT ![c] = later + RetryAfter(oldest, later) * TicksPerSecond]
  BY DEF Refuse
<1>2. windows'[c] = Live(c, now)
  BY DEF Refuse, IInv, LimiterTypeOK
<1>3. PICK s \in Live(c, now) : s.at = oldest
  BY DEF Oldest
<1>4. /\ oldest \in Int /\ now \in Int /\ now - oldest < Window /\ oldest <= now
  BY <1>3 DEF Live, IInv, LimiterTypeOK, NothingForgotten, Stamps
<1>5. later \in Int /\ now <= later /\ later <= now + 1
  BY <1>4 DEF SecondRead
<1> DEFINE left == Window - (later - oldest)
<1>6. left \in Nat
  BY <1>4, <1>5, WindowType
<1>7. RetryAfter(oldest, later) = left \div TicksPerSecond + 1
  BY <1>4, <1>5, WindowType DEF RetryAfter
<1>8. RetryAfter(oldest, later) * TicksPerSecond > left
  BY <1>6, <1>7, RoundingUp
<1>9. RetryAfter(oldest, later) * TicksPerSecond \in Int
  BY <1>6, <1>7, RateLimiterAssumption
<1>10. promise'[c] = later + RetryAfter(oldest, later) * TicksPerSecond
  BY <1>1 DEF IInv, LimiterTypeOK
<1>11. oldest + Window <= promise'[c]
  BY <1>4, <1>5, <1>8, <1>9, <1>10, WindowType
<1>12. QED
  BY <1>2, <1>3, <1>11

LEMMA PromiseStep ==
  ASSUME IInv, PromiseInv, [LimiterNext]_limiterVars
  PROVE  PromiseInv'
<1> SUFFICES ASSUME NEW c \in Callers, promise'[c] # NoPromise
             PROVE  \/ \E s \in windows'[c] : s.at + Window <= promise'[c]
                    \/ Cardinality(windows'[c]) < MaxTasksPerWindow
  BY DEF PromiseInv, Window
<1> DEFINE Kept == \/ \E s \in windows'[c] : s.at + Window <= promise'[c]
                   \/ Cardinality(windows'[c]) < MaxTasksPerWindow
<1>1. ASSUME promise'[c] = promise[c],
             windows'[c] = windows[c] \/ windows'[c] = Live(c, now)
      PROVE  Kept
  BY <1>1, PromiseSurvives
<1>2. ASSUME NEW d \in Callers, Refuse(d) PROVE Kept
  <2>1. CASE d = c
    BY <1>2, <2>1, RefusePromise
  <2>2. CASE d # c
    BY <1>1, <1>2, <2>2 DEF Refuse, IInv, LimiterTypeOK
  <2>3. QED
    BY <2>1, <2>2
<1>3. ASSUME NEW d \in Callers, NEW k \in Tickets, Accept(d, k) PROVE Kept
  <2>1. d # c
    BY <1>3 DEF Accept, IInv, LimiterTypeOK
  <2>2. QED
    BY <1>1, <1>3, <2>1 DEF Accept, IInv, LimiterTypeOK
<1>4. CASE Cleanup \/ Tick \/ UNCHANGED limiterVars
  BY <1>1, <1>4 DEF Cleanup, Tick, limiterVars
<1>5. QED
  BY <1>2, <1>3, <1>4 DEF LimiterNext

(* Waiting as long as Retry-After says is enough.                            *)
THEOREM RetryAfterIsEnough == LimiterSpec => []RetryAfterSuffices
<1>1. LimiterInit => PromiseInv
  BY DEF LimiterInit, PromiseInv
<1>2. IInv /\ PromiseInv /\ [LimiterNext]_limiterVars => PromiseInv'
  BY PromiseStep
<1>3. IInv /\ PromiseInv => RetryAfterSuffices
  <2> SUFFICES ASSUME IInv, PromiseInv, NEW c \in Callers,
                      promise[c] # NoPromise, promise[c] <= now
               PROVE  Room(c)
    BY DEF RetryAfterSuffices
  <2>1. CASE Cardinality(windows[c]) < MaxTasksPerWindow
    BY <2>1, LiveSubset, RateLimiterAssumption DEF Room
  <2>2. ASSUME NEW s \in windows[c], s.at + Window <= promise[c] PROVE Room(c)
    <3>1. s \notin Live(c, now)
      BY <2>2, WindowType DEF Live, IInv, LimiterTypeOK, Stamps
    <3>2. QED
      BY <3>1, DroppingLeavesRoom DEF Room
  <2>3. QED
    BY <2>1, <2>2 DEF PromiseInv
<1>4. QED
  BY <1>1, <1>2, <1>3, Invariance, PTL DEF LimiterSpec
-----------------------------------------------------------------------------
(***************************************************************************)
(* The key manager.  An import begins only where there is no row, and      *)
(* where there is no row nothing was ever told: what it writes is new.     *)
(***************************************************************************)
ClientRows == [key : Keys, status : {"approved", "pending", "rejected"}]

KeysTypeOK ==
  /\ manager \in {"off", "save", "clients", "import", "up", "persist"}
  /\ json \in [Peers -> Keys \cup {NoKey}]
  /\ rows \in [Peers -> ClientRows \cup {NoRow}]
  /\ settled \in [Peers -> ClientRows \cup {NoRow}]
  /\ memory \in [Peers -> Keys \cup {NoKey}]
  /\ toImport \subseteq InFile
  /\ manager = "persist" => call.peer \in Peers /\ call.row \in ClientRows

\* What has been told has left a row; so what is imported was never told.
ImportInv ==
  manager = "import" =>
    \A p \in Peers :
      /\ settled[p] = NoRow
      /\ rows[p] = IF p \in InFile \ toImport THEN [key |-> json[p], status |-> "approved"]
                                             ELSE NoRow

\* While a registration is under way, memory is ahead of the rows by it alone.
RegistrationInv ==
  manager = "persist" =>
    /\ memory[call.peer] = call.row.key
    /\ \A p \in Peers \ (unsaved \cup {call.peer}) : memory[p] = KeyOf(rows[p])

KeysInv == KeysTypeOK /\ ImportInv /\ RegistrationInv /\ DecisionsStand /\ MemoryFollowsStore

LEMMA RowsHaveKeys ==
  /\ \A row \in ClientRows : row # NoRow /\ row.key \in Keys
  /\ \A k \in Keys, status \in {"approved", "pending", "rejected"} :
       [key |-> k, status |-> status] \in ClientRows
  /\ \A k \in Keys : k # NoKey
  BY KeyManagerAssumption DEF ClientRows

LEMMA KeysInitInv == KeysInit => KeysInv
  BY DEF KeysInit, KeysInv, KeysTypeOK, ImportInv, RegistrationInv, DecisionsStand,
         MemoryFollowsStore, Nobody

(* A start: an import begins only where there is no row to be lost.          *)
LEMMA StartKeysSteps ==
  ASSUME KeysInv,
         Generate \/ SaveKeys \/ LoadKeys \/ LoadClients \/ BeginImport \/ EndImport
  PROVE  KeysInv'
<1> USE DEF KeysInv, KeysTypeOK, ImportInv, RegistrationInv, DecisionsStand, MemoryFollowsStore,
            history, bounds, Switch
<1>1. CASE Generate \/ SaveKeys \/ LoadKeys
  <2>1. manager' \in {"save", "clients"}
        /\ UNCHANGED <<json, rows, memory, call, toImport, settled, unsaved>>
    BY <1>1 DEF Generate, SaveKeys, LoadKeys
  <2> QED
    BY <2>1 DEF InFile
<1>2. CASE LoadClients
  <2>1. \A p \in Peers : KeyOf(rows[p]) \in Keys \cup {NoKey}
    BY RowsHaveKeys DEF KeyOf
  <2> QED
    BY <1>2, <2>1 DEF LoadClients, InFile, KeyOf
<1>3. CASE BeginImport
  <2>1. \A p \in Peers : rows[p] = NoRow /\ settled[p] = NoRow
    BY <1>3 DEF BeginImport, ImportNeeded, NoRows
  <2> QED
    BY <1>3, <2>1 DEF BeginImport, InFile
<1>4. CASE EndImport
  <2>1. manager = "import" /\ manager' = "up" /\ toImport = {} /\ memory' = json
        /\ UNCHANGED <<json, rows, call, toImport, settled, unsaved>>
    BY <1>4 DEF EndImport
  <2>2. ASSUME NEW p \in Peers PROVE KeyOf(rows[p]) = json[p]
    <3>1. CASE p \in InFile
      <4>1. json[p] \in Keys
        BY <3>1 DEF InFile
      <4>2. [key |-> json[p], status |-> "approved"] # NoRow
        BY <4>1, RowsHaveKeys
      <4> QED
        BY <2>1, <3>1, <4>2 DEF KeyOf
    <3>2. CASE p \notin InFile
      BY <2>1, <3>2 DEF KeyOf, InFile
    <3> QED
      BY <3>1, <3>2
  <2> QED
    BY <2>1, <2>2 DEF InFile, KeyOf
<1> QED
  BY <1>1, <1>2, <1>3, <1>4

LEMMA ImportStep ==
  ASSUME KeysInv, NEW p \in Peers, ImportClient(p)
  PROVE  KeysInv'
<1> USE DEF KeysInv, KeysTypeOK, ImportInv
<1>1. /\ manager = "import" /\ p \in toImport
      /\ rows' = [rows EXCEPT ![p] = [key |-> json[p], status |-> "approved"]]
      /\ toImport' = toImport \ {p}
      /\ UNCHANGED <<manager, json, memory, call, settled, unsaved>>
  BY DEF ImportClient, history
<1>2. json[p] \in Keys
  BY <1>1 DEF InFile
<1>3. [key |-> json[p], status |-> "approved"] \in ClientRows
  BY <1>2, RowsHaveKeys
<1>4. KeysTypeOK'
  BY <1>1, <1>3 DEF InFile
<1>5. ImportInv'
  BY <1>1 DEF InFile
<1> QED
  BY <1>1, <1>4, <1>5 DEF RegistrationInv, DecisionsStand, MemoryFollowsStore

(* A registration: memory first, then the row or its failure.                *)
LEMMA RegistrationSteps ==
  ASSUME KeysInv,
         \/ \E p \in Peers, k \in Keys, status \in {"approved", "pending"} :
              RegisterClient(p, k, status)
         \/ Persist \/ FailPersist
  PROVE  KeysInv'
<1> USE DEF KeysInv, KeysTypeOK, ImportInv, Switch, bounds, history
<1>1. ASSUME NEW p \in Peers, NEW k \in Keys, NEW status \in {"approved", "pending"},
             RegisterClient(p, k, status)
      PROVE  KeysInv'
  <2>1. /\ manager = "up" /\ manager' = "persist"
        /\ memory' = [memory EXCEPT ![p] = k]
        /\ call' = [peer |-> p, row |-> [key |-> k, status |-> status]]
        /\ UNCHANGED <<json, rows, toImport, settled, unsaved>>
    BY <1>1 DEF RegisterClient, Remembered
  <2>2. [key |-> k, status |-> status] \in ClientRows
    BY RowsHaveKeys
  <2>3. KeysTypeOK' /\ ImportInv'
    BY <2>1, <2>2 DEF InFile
  <2>4. RegistrationInv'
    BY <2>1 DEF RegistrationInv, MemoryFollowsStore, KeyOf
  <2> QED
    BY <2>1, <2>3, <2>4 DEF DecisionsStand, MemoryFollowsStore
<1>2. CASE Persist
  <2>1. /\ manager = "persist" /\ manager' = "up"
        /\ rows' = [rows EXCEPT ![call.peer] = call.row]
        /\ settled' = [settled EXCEPT ![call.peer] = call.row]
        /\ unsaved' = unsaved \ {call.peer}
        /\ UNCHANGED <<json, memory, toImport>>
    BY <1>2 DEF Persist
  <2>2. KeyOf(call.row) = memory[call.peer]
    BY <2>1, RowsHaveKeys DEF RegistrationInv, KeyOf
  <2>3. KeysTypeOK' /\ ImportInv' /\ DecisionsStand'
    BY <2>1 DEF InFile, DecisionsStand
  <2>4. ASSUME NEW p \in Peers, p \notin unsaved' PROVE memory[p] = KeyOf(rows[p])'
    <3>1. CASE p = call.peer
      BY <2>1, <2>2, <3>1 DEF KeyOf
    <3>2. CASE p # call.peer
      BY <2>1, <2>4, <3>2 DEF RegistrationInv, KeyOf
    <3> QED
      BY <3>1, <3>2
  <2>5. MemoryFollowsStore'
    BY <2>1, <2>4 DEF MemoryFollowsStore
  <2> QED
    BY <2>1, <2>3, <2>5 DEF RegistrationInv
<1>3. CASE FailPersist
  <2>1. /\ manager = "persist" /\ manager' = "up"
        /\ unsaved' = unsaved \cup {call.peer}
        /\ UNCHANGED <<json, rows, memory, toImport, settled>>
    BY <1>3 DEF FailPersist
  <2> QED
    BY <2>1 DEF InFile, RegistrationInv, MemoryFollowsStore, DecisionsStand, KeyOf
<1> QED
  BY <1>1, <1>2, <1>3

(* A decision changes the status of a row and leaves its key.                *)
LEMMA DecideStep ==
  ASSUME KeysInv, NEW p \in Peers, NEW status \in {"approved", "rejected"}, Decide(p, status)
  PROVE  KeysInv'
<1> USE DEF KeysInv, KeysTypeOK
<1>1. /\ manager \in {"up", "persist"} /\ rows[p] # NoRow
      /\ rows' = [rows EXCEPT ![p].status = status]
      /\ settled' = [settled EXCEPT ![p] = [key |-> rows[p].key, status |-> status]]
      /\ UNCHANGED <<manager, json, memory, call, toImport, unsaved>>
  BY DEF Decide
<1> DEFINE row == [key |-> rows[p].key, status |-> status]
<1>2. rows[p] \in ClientRows
  BY <1>1
<1>3. [rows[p] EXCEPT !.status = status] = row /\ row \in ClientRows /\ row.key = rows[p].key
  BY <1>2 DEF ClientRows
<1>4. rows' = [rows EXCEPT ![p] = row] /\ row # NoRow
  BY <1>1, <1>3, RowsHaveKeys
<1> HIDE DEF row
<1>5. \A q \in Peers : KeyOf(rows'[q]) = KeyOf(rows[q])
  BY <1>1, <1>3, <1>4 DEF KeyOf
<1>6. settled' = [settled EXCEPT ![p] = row]
  BY <1>1 DEF row
<1>7. KeysTypeOK'
  <2>1. row \in ClientRows
    BY <1>3
  <2>2. rows' \in [Peers -> ClientRows \cup {NoRow}] /\ settled' \in [Peers -> ClientRows \cup {NoRow}]
    BY <1>4, <1>6, <2>1
  <2> QED
    BY <1>1, <2>2 DEF InFile
<1>8. DecisionsStand'
  BY <1>1, <1>4, <1>6 DEF DecisionsStand
<1>9. RegistrationInv' /\ MemoryFollowsStore'
  BY <1>1, <1>5 DEF RegistrationInv, MemoryFollowsStore
<1> QED
  BY <1>1, <1>7, <1>8, <1>9 DEF ImportInv

(* The end of the process: what is on disk stays.                            *)
LEMMA EndStep ==
  ASSUME KeysInv, End \/ UNCHANGED keyVars
  PROVE  KeysInv'
<1> USE DEF KeysInv, KeysTypeOK, ImportInv, RegistrationInv, DecisionsStand, MemoryFollowsStore,
            InFile, KeyOf
<1>1. CASE End
  BY <1>1 DEF End, Nobody
<1>2. CASE UNCHANGED keyVars
  BY <1>2 DEF keyVars
<1> QED
  BY <1>1, <1>2

(* The inductive invariant of the key manager.                               *)
THEOREM KeysInvariance == KeysSpec => []KeysInv
<1>1. KeysInv /\ [KeysNext]_keyVars => KeysInv'
  BY StartKeysSteps, ImportStep, RegistrationSteps, DecideStep, EndStep DEF KeysNext
<1> QED
  BY <1>1, KeysInitInv, PTL DEF KeysSpec

(* What was answered or decided last stands, through every restart.          *)
THEOREM NothingSettledIsUndone == KeysSpec => []DecisionsStand
<1>1. KeysInv => DecisionsStand
  BY DEF KeysInv
<1> QED
  BY KeysInvariance, <1>1, PTL

(* Signatures are checked with the key of the row that has the status, but   *)
(* for registrations that failed since the start.                            *)
THEOREM SignaturesFollowRows == KeysSpec => []MemoryFollowsStore
<1>1. KeysInv => MemoryFollowsStore
  BY DEF KeysInv
<1> QED
  BY KeysInvariance, <1>1, PTL
=============================================================================
