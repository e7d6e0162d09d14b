\* A client without a limit on its attempts stops for good.
CONSTANTS
  Capacity = 3
  ReconnectEnabled = TRUE
  MaxAttempts = 0
  InitialDelay = 10
  MaxDelay = 15
  HubWindow = 2
  Beats = 1
  MaxRequests = 4
  MaxLosses = 4
SPECIFICATION HubSpec
CHECK_DEADLOCK FALSE
INVARIANTS
  ConnectionIsPersistent
