SPECIFICATION Spec
CONSTANTS
  Deliveries = {d1, d2}
  Copies = {c1, c2, c3}
  NoCopy = NoCopy
  NoDelivery = NoDelivery
  DlqHandlers = {h1, h2}
  Scans = {s1, s2}
  Operators = {o1, o2}
  MaxAttempts = 2
  RowsExclusive = TRUE
  FaultKinds = {"refusal"}
  MaxFaults = 2
  MaxManual = 3
SYMMETRY Symmetry
CHECK_DEADLOCK FALSE
INVARIANTS NeverForgotten OneCustodian OpenLettersAreDead AttemptsAudited SettledIsOver
PROPERTIES LettersFinal
