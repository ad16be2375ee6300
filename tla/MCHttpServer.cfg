SPECIFICATION Spec
CONSTANTS
  Addrs = {a1, a2}
  TlsAddrs = {a2}
  Clients = {c1}
  Loops = {1, 2}
  MaxCalls = 4
  HeadLen = 2
  m_keepalive = TRUE
  BuffSize = 3
  Kinds <- MCKinds
  Paths = {"p", "q"}
  Globs <- MCGlobs
  MaxReqs = 2
INVARIANT TypeOK
INVARIANT ListenersHeld
INVARIANT RequestsExact
 
CHECK_DEADLOCK FALSE
