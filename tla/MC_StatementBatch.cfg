\* One executeBatch call with up to three parameter sets, every option
\* combination and every server answer.
CONSTANTS
  MaxBatch = 3
SPECIFICATION Spec
INVARIANT TypeOK
INVARIANT ContinueRunsAllEntries
INVARIANT StopsAtFirstFailure
