\* One file that changes twice, a channel of two events, one failure, one reindex.
\* Three nodes, two addresses, three moves, one failure.
\* A channel to the hub that just holds a window and a heartbeat; four losses.
CONSTANTS
  a = a  b = b  self = self
  Files = {a}
  None = None
  Absent = Absent
  Unfit = Unfit
  MaxChanges = 2
  MaxFailures = 1
  MaxWalks = 1
  ChannelSize = 2
  Nodes <- ThreeNodes
  Trusted <- ThreeNodes
  Self = self
  Addresses = {1, 2}
  Nowhere = Nowhere
  Unregistered = Unregistered
  MaxMoves = 3
  MaxFaults = 1
  MaxEvents = 2
  MaxAbandoned = 1
  Capacity = 3
  ReconnectEnabled = TRUE
  MaxAttempts = 3
  InitialDelay = 10
  MaxDelay = 15
  HubWindow = 2
  Beats = 1
  MaxRequests = 4
  MaxLosses = 4
SPECIFICATION MCSpec
CHECK_DEADLOCK FALSE
INVARIANTS
  IndexIsOfOneText
  IndexFollowsDisk
  AnnouncedIsRegistered
  ChecksRespectAnnouncements
  LoopNeverWaitsForItself
PROPERTIES
  EventsAreWorkedOff
  HealthConverges
  StreamSpec
  EveryRequestAnswered
