SPECIFICATION Spec
CONSTANTS
  Handlers = {h1}
  Freqs = {f1}
  Modes = {am, nfm}
  Bufs = {b1, b2, b3}
  iqBufCount = 2
  iqChanDepth = 1
  iqBufPoolDepth = 0
  None = None
INVARIANT StartLosesNothing
SYMMETRY Symmetry
