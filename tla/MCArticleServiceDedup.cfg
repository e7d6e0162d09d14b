\* Overlapping calls of every kind: duplicates, their review, retries; every call ends.
CONSTANTS
  a1 = a1  a2 = a2  x1 = x1  x2 = x2  x3 = x3  i1 = i1  i2 = i2  i3 = i3
  None = None
  Articles <- TwoArticles
  Contents <- ThreeTexts
  HashOf <- TwoAlike
  Calls <- ThreeCalls
  Kinds <- Everything
  Width = 2
  PieceCount = 1
SPECIFICATION FairSpec
ACTION_CONSTRAINTS
  Orderly
  Obliging
CHECK_DEADLOCK FALSE
INVARIANTS
  UniqueContent
PROPERTIES
  EveryCallEnds
  MergedMeansReplaced
