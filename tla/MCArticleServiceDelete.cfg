\* Vectors of a deleted article stay.
CONSTANTS
  a1 = a1  a2 = a2  x1 = x1  x2 = x2  x3 = x3  i1 = i1  i2 = i2  i3 = i3
  None = None
  Articles <- OneArticle
  Contents <- OneText
  HashOf <- DistinctTexts
  Calls <- ThreeCalls
  Kinds <- Requests
  Width = 3
  PieceCount = 1
SPECIFICATION Spec
CHECK_DEADLOCK FALSE
INVARIANTS
  DeleteRemovesVectors
