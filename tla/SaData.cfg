\* Three fields stand for the seven; the count wraps within a few blocks.
SPECIFICATION SaSpec
CONSTANTS
  W = 6
  Fields = 3
INVARIANTS
  FieldsNear
PROPERTIES
  NoBlockSkipped
  NewsSent
