SPECIFICATION StartSpec
CONSTANTS
  creator = creator
  attacher = attacher
  small = small
  NoMsg = NoMsg
  Producers = {attacher}
  Consumers = {creator}
  Msgs = {small}
  Size <- MCSize
  QueueLen = 10
  HeadLen = 2
  TailLen = 1
  BufLen = 4
INVARIANT OperationsExclude
