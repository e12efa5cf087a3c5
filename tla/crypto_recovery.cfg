SPECIFICATION Spec
CONSTANTS
  r1 = r1
  r2 = r2
  w1 = w1
  m1 = m1
  t1 = t1
  t2 = t2
  s1 = s1
  Requests = {r1, r2}
  Slots = {s1}
  SlotOf <- OneSlot
  Workers = {}
  Runs = {m1}
  Tasks = {t1}
  BatchSize = 1
  MaxRetries = 1
  FaultKinds = {"db", "fulfil", "publish", "crash", "telegram", "retry", "provider"}
  MaxFaults = 1
CHECK_DEADLOCK FALSE
PROPERTY ImplementsContract
PROPERTY EveryPurchaseAnnounced
