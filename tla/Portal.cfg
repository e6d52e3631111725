SPECIFICATION PortalSpec
CONSTANTS
  Researchers = {r1, r2}
  Items = {i1}
  Jobs = {j1, j2}
  Workers = {w1, w2}
  None = None
  MaxStalls = 0
  Millis = {1}
  MaxCrashes = 0
INVARIANTS PortalTypeOK UrlsRightful DoneIsServable
SYMMETRY Symmetry
