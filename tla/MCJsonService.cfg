SPECIFICATION Spec
CONSTANTS
  j1 = j1
  j2 = j2
  Job = {j1, j2}
  Text <- Texts
  RxSize = 8
  AppSize = 8
  LineMax = 7
  MaxItems = 2
  MbSize = 3
  MaxStarts = 2
INVARIANTS
  ChainInv
  TextInv
  ListingIsOrdered
  CountsOnlyAsked
PROPERTIES
  FirstTextIsStored
  ScanEnds
CHECK_DEADLOCK FALSE
