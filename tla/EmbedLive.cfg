\* Two overlapping ticks, an edit, a lost tick and a release.
SPECIFICATION FairSpec
CONSTANTS
  Memories = {1, 2}
  Bodies = {b1, b2}
  Models = {1}
  Ticks = {t1, t2}
  Requests = {r1}
  MaxAttempts = 2
  BatchSize = 1
  EditBudget = 1
  AbortBudget = 1
  ReleaseBudget = 1
  NoVec = NoVec
INVARIANT RetryBudget
PROPERTY StaleOnlyByRace
PROPERTY EventuallySettled
CHECK_DEADLOCK FALSE
