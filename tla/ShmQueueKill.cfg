SPECIFICATION KillSpec
CONSTANTS
  writer = writer
  reader = reader
  small = small
  medium = medium
  NoMsg = NoMsg
  Producers = {writer}
  Consumers = {reader}
  Msgs = {small, medium}
  Size <- MCSize
  QueueLen = 10
  HeadLen = 2
  TailLen = 1
  BufLen = 4
INVARIANT UsedMeansOperating
