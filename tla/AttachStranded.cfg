\* One attachment, one upload, one finalize call, one worker; one task may end
\* with an exception or with its pool process.
SPECIFICATION AttachFairSpec
CONSTANTS
  Atts = {a1}
  Configs = {english}
  Requests = {r1}
  Workers = {w1}
  UploadBudget = 1
  FinalizeBudget = 1
  CrashBudget = 0
  FailureBudget = 1
  BrokerBudget = 0
  ConfigBudget = 0
PROPERTY FailureIsMarked
CHECK_DEADLOCK FALSE
