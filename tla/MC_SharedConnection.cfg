\* A forward-only stream of one or two rows per chunk, read with next()
\* and the getters while other commands run on the connection: the rows
\* next() stands on come in the server's order.
CONSTANTS
  MaxRows = 3
  Modes <- ForwardOnlyStreams
  Calls = {"next", "get", "close"}
  ReadCanFail = FALSE
  FetchSizes = {0}
  FilledScrolls = {}
SPECIFICATION SharedSpec
CONSTRAINT DataWithinBound
PROPERTY RowsDeliveredInOrder
