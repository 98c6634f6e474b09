\* "number of users, currently connected": one client whose login expires.
CONSTANTS
  Clients = {c1}
  None = None
  MaxMsgs = 1
SPECIFICATION Spec
CHECK_DEADLOCK FALSE
INVARIANT
  ActiveUsers
