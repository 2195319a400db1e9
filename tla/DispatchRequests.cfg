SPECIFICATION SafetySpec
CONSTANTS
  l1 = l1
  l2 = l2
  s1 = s1
  s2 = s2
  w1 = w1
  w2 = w2
  NoLender = NoLender
  Lenders = {l1}
  Senders = {s1, s2}
  Workers = {}
  Channel <- OneDual
  Requests = {"send", "resend", "mark", "sign"}
  MaxAttempts = 1
  MaxUnsigned = 1
  MaxSpared = 1
  Stalls = TRUE
  FraudReadFails = TRUE
SYMMETRY Symmetry
INVARIANTS
  LockedSendersExclusive
  SentMeansDelivered
  NoUnexplainedDuplicate
  SheetRowOnce
