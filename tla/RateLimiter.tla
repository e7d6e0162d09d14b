----------------------------- MODULE RateLimiter -----------------------------
(***************************************************************************)
(* The sliding-window rate limiter in front of the task queue              *)
(* (PerClientRateLimiter in src/k2k/tasks.rs).  The windows are behind one *)
(* lock, so a check is one step; but it reads the clock twice, and the     *)
(* clock may advance in between.                                           *)
(***************************************************************************)
EXTENDS Integers, FiniteSets

CONSTANTS
  Callers,           \* the clients that submit tasks
  Tickets,           \* one per accepted submission: keeps equal instants apart
  MaxTasksPerWindow, \* submit skips the limiter when this is 0
  WindowSeconds,
  TicksPerSecond,    \* resolution of the clock; Retry-After is in whole seconds
  Horizon,           \* bound on the clock
  NoPromise

ASSUME RateLimiterAssumption ==
  /\ MaxTasksPerWindow \in Nat \ {0}
  /\ WindowSeconds \in Nat /\ TicksPerSecond \in Nat \ {0}
  /\ Horizon \in Nat
  /\ NoPromise \notin Int

VARIABLES
  now,      \* the monotonic clock, in ticks
  windows,  \* the timestamps kept for each client
  accepted, \* history: every accepted submission of each client
  promise   \* history: when the last refusal told the client to come back

limiterVars == <<now, windows, accepted, promise>>

Window == WindowSeconds * TicksPerSecond
Stamps == [ticket : Tickets, at : 0..Horizon]

Used(k) == \E c \in Callers : \E s \in accepted[c] : s.ticket = k

\* Seeded fault: a fixed window that starts over at multiples of its length.
LiveInFixedWindow(c, t) == {s \in windows[c] : t \div Window = s.at \div Window}
\* ClientWindow::prune at instant t.
Live(c, t) == {s \in windows[c] : t - s.at < Window}

Room(c) == Cardinality(Live(c, now)) < MaxTasksPerWindow

\* timestamps[0]: instants are pushed in the order of the clock.
Oldest(c) == {s.at : s \in {o \in Live(c, now) : \A r \in Live(c, now) : o.at <= r.at}}

\* Seeded fault: whole seconds, rounded down.
RetryAfterFloor(oldest, later) == (Window - (later - oldest)) \div TicksPerSecond
\* checked_sub(age), one second if it fails; as_secs() + 1.
RetryAfter(oldest, later) ==
  LET age  == later - oldest
      left == IF age <= Window THEN Window - age ELSE TicksPerSecond
  IN  left \div TicksPerSecond + 1

\* The clock moves by at most one tick between its two reads in a check.
SecondRead == {later \in now..now + 1 : later <= Horizon}

-----------------------------------------------------------------------------
LimiterInit ==
  /\ now = 0
  /\ windows  = [c \in Callers |-> {}]
  /\ accepted = [c \in Callers |-> {}]
  /\ promise  = [c \in Callers |-> NoPromise]

(* check_and_record returning Ok.                                            *)
Accept(c, k) ==
  /\ ~Used(k)
  /\ Room(c)
  /\ \E later \in SecondRead :
       LET stamp == [ticket |-> k, at |-> later] IN
       /\ windows'  = [windows EXCEPT ![c] = Live(c, now) \cup {stamp}]
       /\ accepted' = [accepted EXCEPT ![c] = @ \cup {stamp}]
       /\ now' = later
  /\ promise' = [promise EXCEPT ![c] = NoPromise]

(* check_and_record returning Err(retry_after_secs).                         *)
Refuse(c) ==
  /\ ~Room(c)
  /\ windows' = [windows EXCEPT ![c] = Live(c, now)]
  /\ \E oldest \in Oldest(c), later \in SecondRead :
       /\ promise' = [promise EXCEPT ![c] = later + RetryAfter(oldest, later) * TicksPerSecond]
       /\ now' = later
  /\ UNCHANGED accepted

(* The task spawned by with_limits, every 300 s.  A client whose window is   *)
(* empty is removed from the map, which reads the same as an empty window.   *)
Cleanup ==
  /\ windows' = [c \in Callers |-> Live(c, now)]
  /\ UNCHANGED <<now, accepted, promise>>

Tick ==
  /\ now < Horizon
  /\ now' = now + 1
  /\ UNCHANGED <<windows, accepted, promise>>

LimiterNext ==
  \/ \E c \in Callers : Refuse(c) \/ \E k \in Tickets : Accept(c, k)
  \/ Cleanup
  \/ Tick

LimiterSpec == LimiterInit /\ [][LimiterNext]_limiterVars

-----------------------------------------------------------------------------
(* The shape of every variable; no window ever holds more timestamps than    *)
(* the limit, so a client cannot grow the limiter's memory.                  *)
LimiterTypeOK ==
  /\ now \in 0..Horizon
  /\ windows \in [Callers -> SUBSET Stamps]
  /\ \A c \in Callers : Cardinality(windows[c]) <= MaxTasksPerWindow
  /\ accepted \in [Callers -> SUBSET Stamps]
  /\ promise \in [Callers -> Int \cup {NoPromise}]

(* Within any span of the window's length, wherever it starts and whatever   *)
(* the cleanup drops meanwhile, a client gets at most the limit accepted.    *)
AcceptedWithin(c, t) == {s \in accepted[c] : t - Window < s.at /\ s.at <= t}

SlidingWindowBound ==
  \A c \in Callers, t \in 0..Horizon :
    Cardinality(AcceptedWithin(c, t)) <= MaxTasksPerWindow

(* A client that waits as long as Retry-After told it, and submits nothing   *)
(* meanwhile, is not refused again.                                          *)
RetryAfterSuffices ==
  \A c \in Callers : promise[c] # NoPromise /\ promise[c] <= now => Room(c)
=============================================================================
