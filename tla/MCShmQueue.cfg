SPECIFICATION FairSpec
CONSTANTS
  writer = writer
  reader = reader
  small = small
  medium = medium
  large = large
  NoMsg = NoMsg
  Producers = {writer}
  Consumers = {reader}
  Msgs = {small, medium, large}
  Size <- MCSize
  QueueLen = 10
  HeadLen = 2
  TailLen = 1
  BufLen = 4
INVARIANTS
  TypeOK
  MutualExclusion
  RingOK
  DeliversOldest
PROPERTIES
  AnswersAreTrue
  LockReleased
  SpinnersProgress
  ImplementsFifo
