\* Two overlapping ticks over two memories, or a queue of two organisations that is
\* longer than the batch, with a stream of newer memories; a quota of one a day, one
\* fault.
SPECIFICATION MCSpec
CONSTANTS
  Mem = {1, 2, 3}
  first = w1
  Tick = {w1, w2}
  BatchSize = 2
  MaxCandidates = 5
  DailyQuota = 1
  FaultBudget = 1
  Relation = {"supersedes"}
  Owner <- OwnerTwo
 
INVARIANT LinkBacked
PROPERTY EventuallyChecked
CHECK_DEADLOCK FALSE
