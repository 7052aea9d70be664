SPECIFICATION Spec
CONSTANTS
  z1 = z1
  z2 = z2
  b1 = b1
  b2 = b2
  i1 = i1
  n1 = n1
  n2 = n2
  p1 = p1
  p2 = p2
  r1 = r1
  r2 = r2
  Zonas = {z1, z2}
  Barrios = {b1, b2}
  Items = {i1}
  NoZona = NoZona
  SeedCodes = {z1, b1}
  SeedZona <- MCSeedZona
  Names = {n1, n2}
  SeedName = n1
  Replicas = {p1, p2}
  Requests = {r1, r2}
  MaxRequests = 2
  MaxStops = 1
INVARIANTS
  TypeOK
  SeedIsWhole
PROPERTIES
  CodesForever
  PatchesCompose
  ReplicasServe
CHECK_DEADLOCK FALSE
