SPECIFICATION Spec
CONSTANTS
  DmaData = dmadata
  Client = {k1, k2}
  MaxLen = 2
  Depth = 2
SYMMETRY Symmetry
INVARIANTS
  ArmedAtRest
  NoStaleSamples
  WholeCaptureSent
