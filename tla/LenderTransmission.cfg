\* Two submits, two retries, one caller that moves the stage, two retries allowed.
SPECIFICATION Spec
CONSTANTS
  Submits = {s1, s2}
  Retries = {t1, t2}
  Movers = {m1}
  MaxRetries = 2
  Goals <- MCGoals
SYMMETRY Alike
INVARIANTS
  TypeOK
  NoUnexplainedResend
  ReceivedIsRecorded
  RetryLimit
PROPERTIES
  SubmittedIsKept
  StageMovesAreLegal
