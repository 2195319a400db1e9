SPECIFICATION SafetySpec
CONSTANTS
  i1 = i1
  i2 = i2
  sms = sms
  ads = ads
  a1 = a1
  a2 = a2
  a3 = a3
  b1 = b1
  x1 = x1
  x2 = x2
  x3 = x3
  None = None
  Instances = {i1, i2}
  Names = {sms, ads}
  Ticks = {a1, a2, a3, b1}
  Host <- TwoInstances
  Worker <- TwoWorkers
  Sessions = {x1, x2, x3}
  MaxDepth = 2
  Faults = {}
INVARIANTS
  NoOtherInstanceRuns
