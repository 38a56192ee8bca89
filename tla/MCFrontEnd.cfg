SPECIFICATION FairSpec
CONSTANTS
  CLIENT_EPOLL_COUNT = 3
  MaxConns = 3
  MaxRequests = 2
  MaxPushes = 1
  Parts = 2
  RecvCap = 3
  ToLogicCap = 2
  ToConnectCap = 1
  SendCap = 1
  SockCap = 1
  Batch = 1
INVARIANT TypeOK
INVARIANT SlotsSound
INVARIANT RequestsInOrder
INVARIANT ExitOnlyOfTheGone
INVARIANT KnowsTheHolder
PROPERTY RoundsGoOn
PROPERTY FullRingsNeverClear
PROPERTY ImplementsMerge
CHECK_DEADLOCK FALSE
