SPECIFICATION Spec
CONSTANTS
  Exchanges = {x1, x2}
  Queues = {q1, q2}
  Keys = {k1}
  Clients = {1, 2}
  Addresses = {1, 2}
  MaxCopies = 0
  MaxReconnects = 1
  PersisMayFill = TRUE
  None = None
  Msgs <- NoMsgs
  MsgSeq <- Empty
  Confirm <- Empty
  MsgDurable <- Empty
  MsgPriority <- Empty
  ExchangeKinds <- DurableExchange
  QueueKinds <- TwoQueueKinds
  ConsumerLevels <- Levels
  KeyWords <- KeyParts
VIEW State
INVARIANT TypeOK
INVARIANT NoDangling
INVARIANT OneObjectPerName
INVARIANT UnsubMeansNone
CHECK_DEADLOCK FALSE
