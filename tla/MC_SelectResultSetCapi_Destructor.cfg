\* The connection fails while rows are unread; destroying the result set
\* reads them in the destructor, and the exception escapes it.
CONSTANTS
  MaxRows = 3
  Modes <- CachingModes
  Calls <- ForwardProfile
  ReadCanFail = TRUE
  FetchSizes = {0, 1, 2}
  FilledScrolls = {}
SPECIFICATION Spec
CONSTRAINT DataWithinBound
INVARIANT DestructorDoesNotThrow
