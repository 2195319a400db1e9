\* One document (documents share nothing but the worker's tick), two instances,
\* the default three attempts, readers that may outlive their lock.
SPECIFICATION Spec
CONSTANTS
  Docs = {d1}
  Servers = {s1, s2}
  Concurrency = 1
  MaxAttempts = 3
  Stalls = TRUE
INVARIANTS
  TypeOK
  OneReader
  OpenJobsHaveAttemptsLeft
  SucceededMeansReadable
  FieldsNotDoubled
PROPERTIES
  SuccessIsFinal
  JobsAreRetried
  JobsSettle
