SPECIFICATION Spec
CONSTANTS
  Conn = {c1, c2}
  Sender = {s1}
  NSlot = 1
  NFd = 3
  Listening = Listening
  Free = Free
  NoSender = NoSender
  NoConn = NoConn
PROPERTIES
  ClientLeaves
  AcceptReturns
