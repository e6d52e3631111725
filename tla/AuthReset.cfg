SPECIFICATION FairSpec
CONSTANTS
  staff = staff
  owner = owner
  mail = mail
  Users = {staff, owner}
  Emails = {mail}
  EmailOf <- MCEmailOf
  TwoFactorUsers = {}
  NoUser = NoUser
  Requests = {r1, r2}
  MaxSessions = 1
  MaxSecrets = 1
  MaxLinks = 2
INVARIANTS StaleSessionsDoomed SpentLinkIsDead
PROPERTY StaleSessionsEnd
