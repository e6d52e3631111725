SPECIFICATION FairSpec
CONSTANTS
  Items = {d, m}
  Documents = {d}
  Policies = {"DELETE", "ARCHIVE"}
  Workers = {w1}
  NoItem = NoItem
  Grace = 2
  MaxStalls = 1
  MaxCrashes = 2
INVARIANTS TypeOK DoneHasText
PROPERTIES GraceRespected EventuallyErased PendingEnds
