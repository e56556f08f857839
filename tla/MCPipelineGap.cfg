SPECIFICATION Spec
CONSTANTS
  Handlers = {h1}
  Freqs = {f1}
  Modes = {am}
  Bufs = {b1, b2, b3, b4, b5}
  iqBufCount = 2
  iqChanDepth = 2
  iqBufPoolDepth = 1
  None = None
INVARIANT NeverAcrossGap
SYMMETRY Symmetry
