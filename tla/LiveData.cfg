\* Five samples are written and three are read; what a reset leaves and a pass
\* writes do not fit into the FIFO together, as in the code.
SPECIFICATION Spec
CONSTANTS
  N = 3
  Extra = 2
  AdcDepth = 12
  TbtDepth = 12
INVARIANTS
  AdcWhole
  TbtWhole
  TbtPairs
  OnePassOld
