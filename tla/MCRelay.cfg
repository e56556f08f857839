SPECIFICATION FairSpec
CONSTANTS
  Uplinks = {u1, u2}
  Clients = {c1, c2}
  Addrs = {a1, a2}
  AddrReuse = TRUE
  linkDepth = 2
  None = None
INVARIANTS TypeOK OneUpstream ClientsStreamedTo
PROPERTY IdleWhenAlone
