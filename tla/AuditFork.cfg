\* Two overlapping appends: is the log still one chain?
SPECIFICATION Spec
CONSTANTS
  Txns = {x1, x2}
  NoTxn = NoTxn
  Legacy = 1
  MaxId = 3
  MaxClock = 0
  Page = 3
INVARIANT NeverForks
