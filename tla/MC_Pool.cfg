\* Safety of the pool's counters and idle list under every interleaving of
\* two users, the appender, the eviction timer and close().
CONSTANTS
  u1 = u1
  u2 = u2
  c1 = c1
  c2 = c2
  c3 = c3
  Users <- MCUsers
  Conns <- MCConns
  NoConn = NoConn
  MinPoolSize = 1
  MaxPoolSize = 2
  WaitTimeoutKnown = TRUE
  ConnectCanFail = TRUE
  ResetCanFail = TRUE

SYMMETRY Symm
SPECIFICATION Spec
INVARIANT TypeOK
INVARIANT PoolBound
INVARIANT CountMatches
INVARIANT Exclusive
INVARIANT PendingMatches
