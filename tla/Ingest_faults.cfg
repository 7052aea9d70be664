SPECIFICATION Spec
CONSTANTS
  e1 = e1  e2 = e2  t1 = t1
  m1 = m1  m2 = m2  m3 = m3  m4 = m4
  Events = {e1, e2}
  Types = {t1}
  TypeOf <- MCTypeOf
  Modules = {a}
  Messages = {m1, m3, m4}
  EventOf <- MCEventOf
  Fit <- MCFit
  NoEvent = NoEvent
  NoMessage = NoMessage
  NoModule = NoModule
  Workers = {w1}
  Requests = {r1}
  Operators = {o1, o2}
  FaultKinds = {"outage", "crash", "database", "confirm"}
  MaxFaults = 1
  MaxEdits = 1
  MaxNacks = 1
  MaxReprocess = 2
SYMMETRY Symmetry
INVARIANTS TypeOK EvidenceKept TrafficSeen RoutedIsBacked
CHECK_DEADLOCK FALSE
