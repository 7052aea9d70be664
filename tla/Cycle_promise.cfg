SPECIFICATION FairSpec
CONSTANTS
  Deliveries = {d1}
  Copies = {c1, c2, c3, c4}
  NoCopy = NoCopy
  NoDelivery = NoDelivery
  DlqHandlers = {h1}
  Scans = {s1}
  Operators = {o1}
  MaxAttempts = 2
  RowsExclusive = FALSE
  FaultKinds = {"outage", "crash", "confirm"}
  MaxFaults = 1
  MaxManual = 1
PROPERTIES Settles PromiseKept
CHECK_DEADLOCK FALSE
