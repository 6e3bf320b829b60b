\* Two clients; two thermistor chips, of three that are treated alike.
SPECIFICATION Spec
CONSTANTS
  Client = {"c1", "c2"}
  Chips = 2
  AdcWord <- MCAdcWord
  AttenMsg <- MCAttenMsg
\* main() ends, and clients need not send anything.
CHECK_DEADLOCK FALSE
INVARIANTS
  LostByCrowdOnly
  ChipFollows
  PllReady
  AnswersOwn
