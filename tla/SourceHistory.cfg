SPECIFICATION FairSpec
CONSTANTS
  Text = {"ab", "b", "error"}
  Node = {a, b}
  a = a
  b = b
  c = c
  d = d
  None = None
  Kind <- MCKind
  Nodes <- MCNodes
  Sample = "ab"
  HistoryCap = 2
  MaxOps = 3
  MaxReloads = 1
INVARIANTS LastTextShown OwnTextSaved
PROPERTIES Settles 
CHECK_DEADLOCK FALSE
