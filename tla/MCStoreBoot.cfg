CONSTANTS
  RowCount = 3
  Tagged <- OneTagged
SPECIFICATION Spec
INVARIANT RefusalIsTrue
