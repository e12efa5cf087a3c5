SPECIFICATION Spec
CONSTANTS
  u1 = u1
  s1 = s1
  NoServer = NoServer
  Users = {u1}
  Servers = {s1}
  max_retries = 1
  MaxSecrets = 2
  MaxEvents = 2
CHECK_DEADLOCK FALSE
INVARIANT TypeOK
 
INVARIANT DeadKeysAreGone
 
PROPERTY ServersRecover
