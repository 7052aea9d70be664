SPECIFICATION Spec
CONSTANTS
  core = core
  a = a
  b = b
  t1 = t1
  r1 = r1
  r2 = r2
  Modules = {core, a, b}
  Admin = core
  Types = {t1}
  Nobody = Nobody
  Requests = {r1, r2}
  Operations = {"types", "publications", "events", "subscriptions", "modules", "outages"}
  SeedPublishes <- MCPublishes
  SeedConsumes <- MCConsumes
  MaxRequests = 2
  MaxEvents = 1
  MaxSeeds = 1
INVARIANTS
  TypeOK
  HolesAreAlerted
  QueuesReady
PROPERTIES
  DeclaredStays
  CancelledStays
  OwnersHold
SYMMETRY Symmetry
CHECK_DEADLOCK FALSE
