\* Up to three lines of NET.CNF, one power cut, two of the eight tasks.
SPECIFICATION Spec
CONSTANTS
  Address = {"a1", "a2"}
  Piece <- MCPiece
  MaxPieces = 3
  MaxCuts = 1
  NTask = 2
\* A server that cannot be opened leaves nothing to do.
CHECK_DEADLOCK FALSE
INVARIANTS
  ConfigAsRead
  CardRepaired
PROPERTIES
  ServiceComes
  AddressReported
