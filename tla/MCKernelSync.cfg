SPECIFICATION Spec
CONSTANTS
  high = high
  low1 = low1
  low2 = low2
  Thread = {high, low1, low2}
  NoThread = NoThread
  InitPriority <- Priorities
  Made <- Objects
  Asked <- Asking
  SemMax = 2
  SemValue = {0, 1}
  MaxHold = 2
  Bit = {1, 2}
  MaxSends = 2
  HeapUser = {low1, low2}
  SizeofMem = 1
  MinSize = 2
  MemSize = 9
  AskedSize = {1, 4}
INVARIANTS
  WaitInv
  SemInv
  OwnerIsExact
  PriorityInv
  EventInv
  HeapInv
PROPERTIES
  TimedCallReturns
  HeapPromise
CHECK_DEADLOCK FALSE
