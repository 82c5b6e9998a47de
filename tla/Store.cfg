\* One request at a time, where redaction turns a leaked text into a known one; or two
\* overlapping requests: writers, batches and reviewers.  Both up to the plan's cap.
SPECIFICATION MCSpec
CONSTANTS
  lure = lure
  leak = leak
  Clients = {c1, c2}
  Texts = {lure, leak}
  Redact <- RedactLeak
  Suspicious = {lure}
  Modes = {"off", "low_confidence", "all"}
  Cap = 2
  MaxId = 2
  NoOne = NoOne
SYMMETRY Symmetry
INVARIANT TwinIsForced
INVARIANT SuspiciousHeld
CHECK_DEADLOCK FALSE
