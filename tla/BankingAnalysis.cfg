\* The worker and one request, two attempts, two runs without a transaction.
SPECIFICATION Spec
CONSTANTS
  Worker = w
  Requests = {r1}
  MaxAttempts = 2
  SkipAfter = 2
INVARIANTS
  TypeOK
  CompleteMeansReconciled
  NoOrphan
PROPERTIES
  ReviewWaitsForStaff
  WorkerStops
