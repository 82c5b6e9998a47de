\* One tick at a time, overlapping edits and a model upgrade.
SPECIFICATION Spec
CONSTANTS
  Memories = {1, 2}
  Bodies = {b1, b2}
  Models = {1, 2}
  Ticks = {t1}
  Requests = {r1, r2}
  MaxAttempts = 2
  BatchSize = 2
  EditBudget = 2
  AbortBudget = 1
  ReleaseBudget = 1
  NoVec = NoVec
SYMMETRY Symmetry
INVARIANT ParkedMeansStop
INVARIANT NoLostCount
CHECK_DEADLOCK FALSE
