\* Two alembic runs over the images of three releases; two requests and a
\* worker; one agent with files; two imports of one archive; two runs of the
\* import command.
SPECIFICATION MCSpec
CONSTANTS
  Memories = {m1}
  Images = {8, 9, 11}
  RunBudget = 2
  Writers = {r1, r2}
  Ticks = {t1}
  Batch = 2
  Window = 1
  Refused = {1}
  MaxConvs = 2
  MaxMsgs = 2
  LossBudget = 1
  Clients = {c1}
  Paths <- FourPaths
  Root = "root"
  Beneath <- BeneathFour
  Spellings <- SixSpellings
  Tokens = {"x", "y"}
  Texts <- ShortTexts
  ListLimit = 2
  DedupSettings = {TRUE, FALSE}
  MaxRows = 3
  Sources = {s1, s2}
  Prints = {p1, p2}
  Imports = {i1, i2}
  MaxTarget = 3
  MaxExports = 1
  MaxImports = 2
  Files <- SomeFiles
  Others = {n1}
  FirstLine <- Headlines
  CommandBudget = 2
  ErrorBudget = 1
INVARIANT SchemaMatchesRevision
INVARIANT HoldCarried
PROPERTY IdleSummarised
PROPERTY ToolIsFileStore
PROPERTY ImportComplete
INVARIANT RerunFolds
INVARIANT NothingElseLost
CHECK_DEADLOCK FALSE
