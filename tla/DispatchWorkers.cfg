SPECIFICATION Spec
CONSTANTS
  l1 = l1
  l2 = l2
  s1 = s1
  s2 = s2
  w1 = w1
  w2 = w2
  NoLender = NoLender
  Lenders = {l1}
  Senders = {s1}
  Workers = {w1, w2}
  Channel <- OneEmail
  Requests = {"send", "sign"}
  MaxAttempts = 2
  MaxUnsigned = 3
  MaxSpared = 1
  Stalls = FALSE
  FraudReadFails = TRUE
INVARIANTS
  TypeOK
  JobHasOneOwner
  CompletedMeansReached
PROPERTIES
  DispatchLockNeverPermanent
  JobSettles
  PackageJobIsRetried
