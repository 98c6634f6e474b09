CONSTANTS
  Clients = {c1, c2}
  LoginMax = 1
  UserMax = 2
  Talkers = {c1}
  MaxInterrupts = 1
  CONN_RETRIES = 2
  T2_MAX_MSGS = 2
  MaxRuns = 3
  Commands = 4
  PIPE_BUF = 2
  Outputs = {1, 2, 3}
  Adders = {t1, t2, t3}
  Iterations = 2
  Customers = {k1, k2}
  STORES_NUM = 2
  DEF_STORE_CAP = 2
  LOADER_INCREMENT = 1
  CUSTOMER_NEED = 3
  MaxLoads = 3
SPECIFICATION Spec
INVARIANTS
 AnswerLedger
 ListComplete
 DeafOnlyByWindow
 InStep
 CounterBounds
 StockConserved
PROPERTY Settles
CHECK_DEADLOCK FALSE
