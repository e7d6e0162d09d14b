\* A cancelled task comes back to life.
CONSTANTS
  t1 = t1  t2 = t2   c1 = c1  k1 = k1
  NoRequest = NoRequest
  Tasks <- TwoTasks
  Clients <- OneClient
  Capabilities <- OneCapability
  RequestedConcurrency = 1
  Reports <- NoReport
  ProgressCapacity = 1
SPECIFICATION Spec
CHECK_DEADLOCK FALSE
PROPERTIES
  CancelledIsFinal
