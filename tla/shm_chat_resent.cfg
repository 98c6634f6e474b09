\* "resend it to every connected user": one client, two messages.
CONSTANTS
  Clients = {c1}
  None = None
  MaxMsgs = 2
SPECIFICATION Spec
CHECK_DEADLOCK FALSE
INVARIANT
  ResentToEveryUser
