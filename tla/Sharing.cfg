SPECIFICATION Spec
CONSTANTS
  Tenants = {a, b}
  Items = {i1, i2}
  Shares = {s1, s2}
  Requests = {r1, r2}
  Staff = {"OWNER", "ADMIN", "RESEARCHER"}
  Markings = {"INTERNAL", "CONFIDENTIAL", "RESTRICTED"}
  None = None
INVARIANTS TypeOK Confined SeenRightful
PROPERTIES RevokeEndsSharing OwnerDecides
SYMMETRY Symmetry
