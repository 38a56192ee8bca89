SPECIFICATION FairSpec
CONSTANTS
  m1 = m1
  m2 = m2
  Msgs = {m1, m2}
  Exchanges = {x1}
  Queues = {q1}
  Keys = {k1}
  Clients = {1}
  Addresses = {1}
  MaxCopies = 2
  MaxReconnects = 0
  PersisMayFill = FALSE
  None = None
  MsgSeq <- MessageSeq
  Confirm <- MessageLevel
  MsgDurable <- MessageStored
  MsgPriority <- MessageUrgent
  ExchangeKinds <- TopicExchange
  QueueKinds <- PriorityQueue
  ConsumerLevels <- Levels
  KeyWords <- KeyParts
PROPERTY LoopComesRound
