\* Scenario E: with continueBatchOnError the batch must raise its first
\* failure after running every entry.
CONSTANTS
  MaxBatch = 3
SPECIFICATION Spec
INVARIANT BatchReportsFirstError
