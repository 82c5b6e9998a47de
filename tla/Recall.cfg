\* Users and the consolidation work while a decay tick runs, and reviewers and
\* users while a search or recall does; two commands wire a harness.
SPECIFICATION MCSpec
CONSTANTS
  Mem = {1, 2}
  Tick = {t1}
  BatchSize = 2
  MinCluster = 1
  Memos = {1, 2, 3, 4}
  Outside = {4}
  PinnedMemos = {2}
  FadedMemos = {1}
  Tokens <- SomeTokens
  Linked <- SomeLinks
  Superseding <- SomeSuperseding
  Plans <- SomePlans
  RrfK = 60
  SearchLimit = 2
  MaxHops = 3
  MaxPool = 3
  HopReserve = 1
  PlanMillis = 2
  PlanTokens = 2
  MaxTokens = 3
  PerItemMax = 1
  Budgets <- SomeBudgets
  Spent = {1, 2}
  Decisions = 1
  Commands = {n1, n2}
  Harnesses = {"claude-code", "codex"}
  Globals = {FALSE}
  Probes = {TRUE}
  InitBudget = 2
  KillBudget = 1
  SaveBudget = 1
SYMMETRY Symmetry
INVARIANTS
  FadedNeverSummarised
  RecalledWasAllowed
  TruncationTold
  RerunSafe
PROPERTY DecaySparesInUse
CHECK_DEADLOCK FALSE
