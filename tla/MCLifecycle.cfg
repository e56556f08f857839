SPECIFICATION FairSpec
CONSTANTS
  Conns = {c1, c2, c3}
  Runs = {r1, r2}
  iqChanDepth = 2
  None = None
INVARIANTS TypeOK OnePipeline CountExact IdleIsQuiet ListenersServed
PROPERTY LeaversLeave
\* After Shutdown and the last handler nothing is left to do.
CHECK_DEADLOCK FALSE
