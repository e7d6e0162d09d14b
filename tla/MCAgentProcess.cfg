\* Two process ids and two start commands.
CONSTANTS
  p1 = p1  p2 = p2  
  NoPid = NoPid
  Torn = Torn
  Pids <- TwoIds
  MaxStarts = 2
SPECIFICATION ProcSpec
INVARIANT PidFileCleanedUp
