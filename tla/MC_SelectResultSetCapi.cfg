\* Every method in every statement mode, the connection failing at any
\* point, results of up to three rows.
CONSTANTS
  MaxRows = 3
  Modes <- AllModes
  Calls <- Methods
  ReadCanFail = TRUE
  FetchSizes = {0, 1, 2}
  FilledScrolls = {"FORWARD_ONLY", "SCROLL_INSENSITIVE"}
SPECIFICATION Spec
CONSTRAINT DataWithinBound
INVARIANT TypeOK
INVARIANT EofMeansDrained
INVARIANT RowCorrect
INVARIANT PositionQueriesAgree
PROPERTY LookAheadKeepsPosition
PROPERTY NextMovesOneRow
