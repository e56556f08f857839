SPECIFICATION Spec
CONSTANTS
  Handlers = {h1}
  Freqs = {f1, f2}
  Modes = {am}
  Bufs = {b1, b2, b3, b4}
  iqBufCount = 2
  iqChanDepth = 1
  iqBufPoolDepth = 1
  None = None
INVARIANTS TypeOK BuffersOwned RetuneCut CleanTransmission
SYMMETRY Symmetry
