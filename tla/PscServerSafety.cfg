\* Three peers, two slots and two descriptors beside the listening one: slots
\* and descriptors run out, and are taken again.
SPECIFICATION SafetySpec
CONSTANTS
  Conn = {c1, c2, c3}
  Sender = {s1}
  NSlot = 2
  NFd = 4
  Listening = Listening
  Free = Free
  NoSender = NoSender
  NoConn = NoConn
SYMMETRY Symmetry
INVARIANTS
  SlotHasOneOwner
  NoDescriptorLeak
  OwnDescriptor
