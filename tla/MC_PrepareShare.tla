---------------------------- MODULE MC_PrepareShare ----------------------------
EXTENDS PrepareShare, TLC

CONSTANTS s1, s2, s3, s4

MCStmts == {s1, s2, s3, s4}

\* Statements are interchangeable model values.
StmtSymmetry == Permutations(MCStmts)
=============================================================================
