SPECIFICATION Spec
CONSTANTS
  Msgs = {m1}
  Handlers = {h1}
  Charges = {c1}
  Inviters = {friend}
  NoOne = NoOne
  NoMsg = NoMsg
  Catalogues <- AllOrNothing
  FaultKinds = {"restart", "telegram"}
  MaxFaults = 1
INVARIANT TypeOK
INVARIANT NoDeadEnds
INVARIANT RegisteredByConsent
INVARIANT ReceiptsAreTrue
 
CHECK_DEADLOCK FALSE
