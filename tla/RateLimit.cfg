SPECIFICATION FairSpec
CONSTANTS
  Callers = {c1, c2}
  EmailKeys = {e}
  IpKeys = {i}
  ForgotKeys = {f}
  NoKey = NoKey
  LoginLimit = 2
  ForgotLimit = 1
  Window = 2
  MaxFailures = 1
INVARIANTS TypeOK TtlOwed AdmittedWithinLimit
PROPERTIES FixedWindow BlockedReopensUnlessOrphaned
