SPECIFICATION Spec
CONSTANTS
  Deliveries = {d1}
  Copies = {c1, c2, c3}
  NoCopy = NoCopy
  NoDelivery = NoDelivery
  DlqHandlers = {h1, h2}
  Scans = {s1, s2}
  Operators = {o1}
  MaxAttempts = 2
  RowsExclusive = FALSE
  FaultKinds = {"outage", "crash", "database", "confirm"}
  MaxFaults = 1
  MaxManual = 1
SYMMETRY Symmetry
INVARIANTS TypeOK AttemptsBounded NeverForgotten
CHECK_DEADLOCK FALSE
