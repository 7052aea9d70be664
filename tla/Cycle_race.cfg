SPECIFICATION Spec
CONSTANTS
  Deliveries = {d1}
  Copies = {c1, c2, c3}
  NoCopy = NoCopy
  NoDelivery = NoDelivery
  DlqHandlers = {h1}
  Scans = {s1}
  Operators = {o1}
  MaxAttempts = 2
  RowsExclusive = FALSE
  FaultKinds = {"refusal"}
  MaxFaults = 1
  MaxManual = 0

CHECK_DEADLOCK FALSE
INVARIANT NeverForgotten
