SPECIFICATION Spec
CONSTANTS
  c1 = c1
  c2 = c2
  c3 = c3
  c4 = c4
  c5 = c5
  c6 = c6
  c7 = c7
  NoCell = NoCell
  Cut = Cut
  Spoilt = Spoilt
  f1 = f1
  f2 = f2
  Pages <- AllPages
  Entries = 2
  BufCells = 11
  MbSize = 4
  Fetch = {f1, f2}
  MaxStarts <- Starts
  MinRead <- Least
INVARIANTS
  ServiceInv
  ReadIsFiled
PROPERTIES
  OverEndsService
  FetchEnds
CHECK_DEADLOCK FALSE
