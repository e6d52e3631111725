SPECIFICATION Spec
CONSTANTS
  staff = staff
  owner = owner
  mail = mail
  Users = {staff, owner}
  Emails = {mail}
  EmailOf <- MCEmailOf
  TwoFactorUsers = {owner}
  NoUser = NoUser
  Requests = {r1, r2}
  MaxSessions = 2
  MaxSecrets = 2
  MaxLinks = 0
INVARIANT TypeOK
PROPERTIES AdmittedByOwnSession SessionEndedByOwner
