\* One agent, repeated writes folded: is a saved file read back?
SPECIFICATION ToolSpec
CONSTANTS
  Clients = {c1}
  Paths <- FourPaths
  Root = "root"
  Beneath <- BeneathFour
  Spellings <- SixSpellings
  Tokens = {"x", "y"}
  Texts <- ShortTexts
  ListLimit = 2
  DedupSettings = {TRUE}
  MaxRows = 2
INVARIANT ReadsBack
CHECK_DEADLOCK FALSE
