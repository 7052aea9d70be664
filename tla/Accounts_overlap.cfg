SPECIFICATION Spec
CONSTANTS
  core = core
  a = a
  e1 = e1
  e2 = e2
  r1 = r1
  r2 = r2
  Emails = {e1, e2}
  Teams = {core, a}
  Admin = core
  TeamOf <- MCTeamOf
  Initial = {e1}
  NoEmail = NoEmail
  Requests = {r1, r2}
  MAX_FAILED_ATTEMPTS = 2
  MaxRequests = 5
  MaxSeeds = 1
INVARIANTS
  TypeOK
PROPERTIES
  TeamKeepsAccess
  ActiveWithinLimit
  LockStays
CHECK_DEADLOCK FALSE
