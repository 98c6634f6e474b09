\* "Append 'users_list' with connected user": two clients, no interrupts.
CONSTANTS
  Clients = {c1, c2}
  LoginMax = 1
  UserMax = 2
  Talkers = {c1}
  MaxInterrupts = 0
SPECIFICATION Spec
CHECK_DEADLOCK FALSE
INVARIANT
  ListNamesConnected
