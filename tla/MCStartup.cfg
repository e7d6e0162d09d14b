\* Every installation that may be found, with five rows of which two have tags.
\* Three process ids and three start commands.
\* A capability of the node's own and another, one service, two calls, two readings.
CONSTANTS
  RowCount = 5
  Tagged <- TwoTagged
  p1 = p1  p2 = p2  p3 = p3
  Pids <- ThreeIds
  NoPid = NoPid
  Torn = Torn
  MaxStarts = 3
  search = search  other = other  service = service  c1 = c1  c2 = c2
  Names <- TwoNames
  BuiltIn <- OwnSearch
  OwnHandler <- OwnSearch
  Services <- OneService
  Config = Config
  Own = Own
  Nothing = Nothing
  CallIds <- TwoCalls
  MaxReadings = 3
SPECIFICATION MCSpec
INVARIANTS
  TypeOK
  UpMeansReady
  TagsUpgraded
  RunningAgentIsFound
  ListedIsHandled
  TasksGoWhereListed
PROPERTY EditsSurvive
