\* A scrollable stream of one row per chunk caches nothing; when another
\* command makes fetchRemaining() cache the rest, it writes past the cache.
CONSTANTS
  MaxRows = 3
  Modes <- ScrollSingleModes
  Calls <- ForwardProfile
  ReadCanFail = FALSE
  FetchSizes = {0, 1, 2}
  FilledScrolls = {}
SPECIFICATION Spec
CONSTRAINT DataWithinBound
INVARIANT MemorySafe
