SPECIFICATION Safety
CONSTANTS
  r1 = r1
  r2 = r2
  w1 = w1
  m1 = m1
  t1 = t1
  t2 = t2
  s1 = s1
  Requests = {r1, r2}
  Slots = {s1}
  SlotOf <- OneSlot
  Workers = {w1}
  Runs = {m1}
  Tasks = {t1}
  BatchSize = 2
  MaxRetries = 0
  FaultKinds = {"db", "fulfil", "telegram"}
  MaxFaults = 1
CHECK_DEADLOCK FALSE
INVARIANT OneLiveInvoice
INVARIANT PayableLinkIsHonoured
INVARIANT GrantedExactlyOnce
