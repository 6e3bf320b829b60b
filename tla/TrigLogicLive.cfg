\* Bursts of one sample: liveness does not depend on the burst length.
SPECIFICATION Spec
CONSTANTS
  Chan = {adc, tbt}
  Paced = {tbt}
  MaxLen = 1
  CntMax = 2
  adc = adc
  tbt = tbt
PROPERTIES
  BurstCounted
  CaptureServed
