SPECIFICATION Spec
CONSTANTS
  staff = staff
  owner = owner
  mail = mail
  Users = {staff}
  Emails = {mail}
  EmailOf <- MCEmailOf
  TwoFactorUsers = {}
  NoUser = NoUser
  Requests = {r1, r2}
  MaxSessions = 2
  MaxSecrets = 1
  MaxLinks = 1
INVARIANT NoSessionFromOldPassword
