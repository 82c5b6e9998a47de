\* Three attempts at one edit, every fault once, a write by somebody else; or two
\* overlapping finalize calls and two workers, every failure once.
SPECIFICATION MCSpec
CONSTANTS
  Ops = {o1}
  Attempts = {a1, a2, a3}
  NoOne = NoOne
  TouchBudget = 1
  OutageBudget = 1
  DeathBudget = 1
  SlowBudget = 1
  Atts = {a1}
  Configs = {english, french}
  Requests = {r1, r2}
  Workers = {w1, w2}
  UploadBudget = 3
  FinalizeBudget = 4
  CrashBudget = 2
  FailureBudget = 1
  BrokerBudget = 1
  ConfigBudget = 1
INVARIANT AtMostOnce
INVARIANT RetryNotRefused
INVARIANT ReplayIsTrue
PROPERTY ReplayStable
PROPERTY ReservationEnds
PROPERTY UnstemmedOnlyByRace
INVARIANT NothingStranded
PROPERTY FinalizedSettles
CHECK_DEADLOCK FALSE
