SPECIFICATION Spec
CONSTANTS
  u1 = u1
  n1 = n1
  n2 = n2
  c1 = c1
  c2 = c2
  Users = {u1}
  Nodes = {n1, n2}
  Charges = {c1, c2}
  PaidBy <- AllPaidByFirst
  max_retries = 1
  MaxCreds = 2
  MaxEvents = 2
CHECK_DEADLOCK FALSE
INVARIANT TypeOK
 
INVARIANT OnlyOvertakenRenewalsAreLost
 
