SPECIFICATION Spec
CONSTANTS
  Sleeper = {s1, s2}
  Driver = {d1}
  TickMod = 12
  Time = {1, 3, 5}
  MaxDelay = 1
INVARIANTS
  TimerInv
  StoppedIsOut
PROPERTIES
  CallsInOrder
  SleeperWakes
CHECK_DEADLOCK FALSE
