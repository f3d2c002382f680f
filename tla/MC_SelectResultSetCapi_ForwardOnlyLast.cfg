\* A forward-only stream walked with next() and then asked for last():
\* last() is not refused (SelectResultSetCapi.cpp:704), drains the stream
\* and moves the cursor back to the last row, which the abstract Cursor
\* (spec section 4.3) does not allow a forward-only cursor to do.
CONSTANTS
  MaxRows = 3
  Modes <- ForwardOnlyStreamModes
  Calls <- LastProfile
  ReadCanFail = FALSE
  FetchSizes = {0, 1, 2}
  FilledScrolls = {}
SPECIFICATION Spec
CONSTRAINT DataWithinBound
PROPERTY CursorRefinement
