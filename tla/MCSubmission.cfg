\* Two tasks compete for the one slot that a configured zero is clamped to.
\* Two clients and two submissions per window of two seconds (four ticks).
\* Two clients, two keys, two registrations, two ends of the process.
CONSTANTS
  t1 = t1  t2 = t2   c1 = c1  c2 = c2  k1 = k1  k2 = k2
  n1 = n1  n2 = n2  n3 = n3
  NoRequest = NoRequest
  Tasks <- TwoTasks
  Clients <- OneClient
  Capabilities <- OneCapability
  RequestedConcurrency = 0
  Reports <- TwoReports
  ProgressCapacity = 1
  Callers <- TwoCallers
  Tickets <- ThreeTickets
  MaxTasksPerWindow = 2
  WindowSeconds = 2
  TicksPerSecond = 2
  Horizon = 8
  NoPromise = NoPromise
  Peers <- TwoCallers
  Keys <- TwoKeys
  NoKey = NoKey
  NoRow = NoRow
  MaxRegistrations = 2
  MaxEnds = 2
SPECIFICATION MCSpec
CHECK_DEADLOCK FALSE
INVARIANTS
  TypeOK
  SlotAccounting
  OutcomeToldOnce
  StreamLagsOnlyAtStart
  SlidingWindowBound
  RetryAfterSuffices
  DecisionsStand
  MemoryFollowsStore
PROPERTIES
  OutcomeIsFinal
  PoolSpec
  EveryTaskEnds
  EveryReportIsTold
