SPECIFICATION Spec
CONSTANTS
  Users = {u1}
  Days = 2
  LastQuarter = 15
  LastExpiry = 16
  MaxKeys = 2
  FaultKinds = {"send", "lost", "late"}
  MaxFaults = 2
INVARIANT TypeOK
INVARIANT NotifiedWasTold
 
 
CHECK_DEADLOCK FALSE
