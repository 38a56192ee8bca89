SPECIFICATION Spec
CONSTANTS
  Queues = {q1}
  FileCap = 2
  RingLen = 1
  MaxMessages = 2
  MaxCreates = 2
  MaxKills = 2
  MaxRestarts = 1
INVARIANT TypeOK
PROPERTY StaysSound
PROPERTY NothingForgotten
PROPERTY NothingReturns
VIEW View
CHECK_DEADLOCK FALSE
