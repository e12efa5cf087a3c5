SPECIFICATION Spec
CONSTANTS
  r1 = r1
  r2 = r2
  w1 = w1
  w2 = w2
  t1 = t1
  t2 = t2
  s1 = s1
  NoWorker = NoWorker
  Requests = {r1}
  Slots = {s1}
  SlotOf <- OneSlot
  Workers = {w1, w2}
  Tasks = {t1, t2}
  LinkLife = 1
  StaleAfter = 1
  MaxRetries = 1
  MaxTime = 1
  FaultKinds = {"db", "fulfil", "publish", "crash", "telegram", "retry"}
  MaxFaults = 2
CHECK_DEADLOCK FALSE
INVARIANT GrantedExactlyOnce
INVARIANT OneNotificationTask
PROPERTY ImplementsContract
PROPERTY EveryPurchaseAnnounced
PROPERTY DeliveryIsPublished
