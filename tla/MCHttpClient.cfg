SPECIFICATION Spec
CONSTANTS
  Users = {u1, u2}
  Conns = {k1, k2}
  Kinds <- MCKinds
  HeadLen = 2
  BufferSize = 5
  m_max_request = 2
  MaxReqs = 2
SYMMETRY Symmetry
INVARIANT PoolExact
INVARIANT ResponsesExact
CHECK_DEADLOCK FALSE
