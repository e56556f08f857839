SPECIFICATION Spec
CONSTANTS
  Uplinks = {u1, u2}
  Clients = {c1, c2}
  Addrs = {a1, a2}
  AddrReuse = FALSE
  linkDepth = 2
  None = None
INVARIANT StopOnlyWhenAlone
