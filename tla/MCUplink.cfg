SPECIFICATION FairSpec
CONSTANTS
  RConns = {r1, r2}
  LConns = {l1, l2}
  linkDepth = 1
  MaxFaults = 2
  None = None
INVARIANTS TypeOK BridgesAccepted NothingLeftOpen
PROPERTIES AbandonedStops SignalEnds Rebridges
