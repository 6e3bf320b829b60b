\* One cage (every cage is read the same way), a valid pair and one with an
\* invalid member.
SPECIFICATION Spec
CONSTANTS
  Cages <- MCCages
  Pair <- MCPair
INVARIANTS
  RecordTrue
  NoStrayWrite
  SavedKept
PROPERTIES
  RestartRestores
  StatusGoesOn
