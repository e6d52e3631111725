SPECIFICATION FairSpec
CONSTANTS
  Researchers = {r1}
  Items = {i1}
  Jobs = {j1, j2}
  Workers = {w1}
  None = None
  MaxStalls = 1
  Millis = {1, 2}
  MaxCrashes = 1
INVARIANT DoneIsServable
PROPERTIES RowsGo CopiesGo JobsEnd
