SPECIFICATION Spec
CONSTANTS
  pipeline = pipeline
  handler = handler
  Producers <- MCProducers
  Spectrum <- MCSpectrum
  hiDepth = 2
  loDepth = 1
  QuicDepth = 1
  MaxSend <- MCMaxSend
INVARIANT OneLossPerDrop
CHECK_DEADLOCK FALSE
