\* Bodies up to six bytes over a buffer of two and chunks of two: fitting,
\* truncated with one, several and no whole chunks to skip.
SPECIFICATION MsgSpec
CONSTANTS
  MsgId = {m1, m5}
  MaxLen = 6
  HeadLen = 2
  BufLen = 2
  Chunk = 2
INVARIANTS
  StreamInStep
  DeliveredWhole
PROPERTY MessageHandled
