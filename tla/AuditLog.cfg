\* Two transactions, one after the other or at once, and a verifier that reads a
\* row per page.
SPECIFICATION Spec
CONSTANTS
  Txns = {x1, x2}
  NoTxn = NoTxn
  Legacy = 1
  MaxId = 5
  MaxClock = 2
  Page = 1
SYMMETRY Symmetry
INVARIANT ChainIntact
INVARIANT AlarmNeedsPurge
INVARIANT RemovalDetected
INVARIANT NoDanglingPrev
