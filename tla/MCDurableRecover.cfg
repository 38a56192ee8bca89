SPECIFICATION Spec
CONSTANTS
  Queues = {q1}
  FileCap = 2
  RingLen = 1
  MaxMessages = 1
  MaxCreates = 1
  MaxKills = 0
  MaxRestarts = 1
PROPERTY DurableQueuesReturn
VIEW View
CHECK_DEADLOCK FALSE
