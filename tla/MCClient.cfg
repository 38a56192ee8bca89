SPECIFICATION FairSpec
CONSTANTS
  MaxMsgs = 2
  MaxResends = 1
  ProducerCalls = 1
  ConsumerCalls = 2
  MaxManualAcks = 1
  MaxDrops = 1
  ProducerRequests = {"create exchange", "create queue", "create binding", "delete exchange", "delete queue"}
  ConsumerRequests = {}
  SubscribeLevels = {0, 1, 3}
  PullLevels = {0, 3}
INVARIANT TypeOK
INVARIANT AcceptedOnce
INVARIANT KeptUntilAccepted
INVARIANT AllAccountedFor
INVARIANT OutOfStep
PROPERTY RequestsReturn
CHECK_DEADLOCK FALSE
