SPECIFICATION StartupSpec
CONSTANTS
  core = core
  t1 = t1
  r1 = r1
  r2 = r2
  Modules = {core}
  Admin = core
  Types = {t1}
  Nobody = Nobody
  Requests = {r1}
  Operations = {"subscriptions", "modules"}
  SeedPublishes <- MCPublishes
  SeedConsumes <- MCConsumes
  MaxRequests = 1
  MaxEvents = 0
  MaxSeeds = 1
  Deployments <- OneProcess
  Ladders <- MCLadders
  Fallback = 5
  MaxCrashes = 0
  MaxOutages = 1
PROPERTIES
  InboxAlwaysConsumed
CHECK_DEADLOCK FALSE
