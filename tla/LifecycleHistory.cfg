SPECIFICATION FairSpec
CONSTANTS
  Items = {i1, i2}
  Expiring = {i1}
  Calls = {c1, c2, c3}
  Targets = {"PUBLISHED"}
  NoItem = NoItem
INVARIANTS TypeOK VersionsContiguous TransitionHasRevision
PROPERTIES ChangesAreExplained ExpiredIsArchived ImplementsRevisionLog
