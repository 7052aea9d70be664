SPECIFICATION StartupSpec
CONSTANTS
  core = core
  t1 = t1
  r1 = r1
  r2 = r2
  Modules = {core}
  Admin = core
  Types = {t1}
  Nobody = Nobody
  Requests = {r1}
  Operations = {"subscriptions", "modules"}
  SeedPublishes <- MCPublishes
  SeedConsumes <- MCConsumes
  MaxRequests = 3
  MaxEvents = 0
  MaxSeeds = 1
  Deployments <- Kept
  Ladders <- MCLadders
  Fallback = 5
  MaxCrashes = 1
  MaxOutages = 1
INVARIANTS
  StartupTypeOK
  QueuesReady
  RetriesHaveQueues
  HealthIsHonest
PROPERTIES
  InboxConsumed
CHECK_DEADLOCK FALSE
