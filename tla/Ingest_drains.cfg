SPECIFICATION FairSpec
CONSTANTS
  e1 = e1  e2 = e2  t1 = t1
  m1 = m1  m2 = m2  m3 = m3  m4 = m4
  Events = {e1, e2}
  Types = {t1}
  TypeOf <- MCTypeOf
  Modules = {a}
  Messages = {m1, m2}
  EventOf <- MCEventOf
  Fit <- MCFit
  NoEvent = NoEvent
  NoMessage = NoMessage
  NoModule = NoModule
  Workers = {w1, w2}
  Requests = {r1}
  Operators = {}
  FaultKinds = {"outage", "crash", "database"}
  MaxFaults = 2
  MaxEdits = 0
  MaxNacks = 0
  MaxReprocess = 0
PROPERTIES InboxDrains
CHECK_DEADLOCK FALSE
