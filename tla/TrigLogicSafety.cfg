\* One free-running and one paced channel, bursts of one or two samples, a
\* trigger count of three values that wraps: every interleaving of the clock,
\* the thread's register accesses and the client's settings.
SPECIFICATION SafetySpec
CONSTANTS
  Chan = {adc, tbt}
  Paced = {tbt}
  MaxLen = 2
  CntMax = 2
  adc = adc
  tbt = tbt
INVARIANTS
  LatchGuardsCapture
  BuffersStable
PROPERTY ImplementsHandshake
