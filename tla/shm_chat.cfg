\* The shared-memory chat: two clients, kills, expired waits and shutdown.
CONSTANTS
  c1 = c1
  Clients = {c1, c2}
  None = None
  MaxMsgs = 1
SPECIFICATION MCSpec
CHECK_DEADLOCK FALSE
INVARIANTS
  TypeOK
  OwnId
  CommandKept
  AckLedger
PROPERTY
  SenderReleased
