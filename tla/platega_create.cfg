SPECIFICATION Safety
CONSTANTS
  r1 = r1
  r2 = r2
  w1 = w1
  w2 = w2
  t1 = t1
  t2 = t2
  s1 = s1
  NoWorker = NoWorker
  Requests = {r1, r2}
  Slots = {s1}
  SlotOf <- OneSlot
  Workers = {w1}
  Tasks = {t1}
  LinkLife = 1
  StaleAfter = 1
  MaxRetries = 1
  MaxTime = 3
  FaultKinds = {"db", "crash", "fulfil"}
  MaxFaults = 1
CHECK_DEADLOCK FALSE
INVARIANT IInv
INVARIANT OneLiveInvoice
INVARIANT PayableLinkIsHonoured
INVARIANT StaleCreatingNeverBlocks
