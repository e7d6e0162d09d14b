\* One node that comes up after a silent interval; nothing fails.
CONSTANTS
  a = a  self = self
  Nodes <- BothNodes
  Trusted <- BothNodes
  Self = self
  Addresses = {1}
  Nowhere = Nowhere
  Unregistered = Unregistered
  MaxMoves = 1
  MaxFaults = 0
  MaxEvents = 1
  MaxAbandoned = 1
SPECIFICATION NodesSpec
CHECK_DEADLOCK FALSE
INVARIANT HeardIsRegistered
