\* close() racing a connection being returned: the user thread reads poolState
\* as OK (Pool.cpp:660), close() finishes, then the reset connection is pushed
\* back into the idle list of the closed pool (Pool.cpp:678).
CONSTANTS
  u1 = u1
  u2 = u2
  c1 = c1
  c2 = c2
  c3 = c3
  Users <- MCUsers
  Conns <- MCConns
  NoConn = NoConn
  MinPoolSize = 1
  MaxPoolSize = 2
  WaitTimeoutKnown = TRUE
  ConnectCanFail = TRUE
  ResetCanFail = TRUE
SYMMETRY Symm
SPECIFICATION Spec
INVARIANT ClosedPoolHasNoIdle
