SPECIFICATION FairSpec
CONSTANTS
  pipeline = pipeline
  handler = handler
  Producers <- MCProducers
  Spectrum <- MCSpectrum
  hiDepth = 2
  loDepth = 1
  QuicDepth = 1
  MaxSend <- MCMaxSend
INVARIANTS TypeOK OneOvertake LossCounted NewestKept
PROPERTIES InOrder SendReturns StopsAfterClose
\* The producers stop after MaxSend datagrams.
CHECK_DEADLOCK FALSE
