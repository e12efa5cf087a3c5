SPECIFICATION Safety
CONSTANTS
  r1 = r1
  r2 = r2
  w1 = w1
  m1 = m1
  t1 = t1
  t2 = t2
  s1 = s1
  Requests = {r1}
  Slots = {s1}
  SlotOf <- OneSlot
  Workers = {w1}
  Runs = {m1}
  Tasks = {t1, t2}
  BatchSize = 1
  MaxRetries = 1
  FaultKinds = {}
  MaxFaults = 0
CHECK_DEADLOCK FALSE
INVARIANT OneNotificationTask
