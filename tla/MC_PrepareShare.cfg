\* Four statements sharing one handle, closing and being destroyed in any
\* interleaving.
CONSTANTS
  s1 = s1
  s2 = s2
  s3 = s3
  s4 = s4
  NoStmt = NoStmt
  Stmts <- MCStmts
SPECIFICATION Spec
SYMMETRY StmtSymmetry
INVARIANT TypeOK
INVARIANT CounterMatches
INVARIANT FreedOnceAfterLastUse
